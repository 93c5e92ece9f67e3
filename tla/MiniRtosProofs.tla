---------------------------- MODULE MiniRtosProofs ----------------------------
(***************************************************************************)
(* What holds of the kernel in every configuration: every number of tasks, *)
(* priorities and objects, every width of the tick counter.  First type    *)
(* correctness; then the inductive invariant SafeInv, one lemma per call,  *)
(* tick and interrupt, and the properties it implies; last the priorities, *)
(* with the invariant PriorityInv beside it.                               *)
(***************************************************************************)
EXTENDS MiniRtos, OsKernelTheory

\* The loop that creates the tasks, on the kernel that os_Init leaves.
LEMMA CreatedKernelLoop ==
    \E after \in [0 .. TaskCount -> GoodKernel] :
        /\ after[0] = ResetKernel
        /\ \A t \in Tasks : after[t + 1] = ReadyEnqueue(after[t], t)
        /\ CreatedKernel = after[TaskCount]
<1> DEFINE F == [t \in 0 .. TaskCount - 1 |-> [u \in GoodKernel |-> ReadyEnqueue(u, t)]]
           Rec(g) == g = [n \in 0 .. TaskCount |->
                             IF n = 0 THEN ResetKernel ELSE ReadyEnqueue(g[n - 1], n - 1)]
           after == CHOOSE g : Rec(g)
<1>1. TaskCount \in Nat /\ 0 .. TaskCount - 1 = Tasks
  BY OsKernelAssumption DEF Tasks
<1>2. ResetKernel \in GoodKernel
  <2>1. ResetKernel \in Kernel
    BY OsKernelAssumption, SliceRange, TickRange
       DEF ResetKernel, Kernel, TaskStates, Statuses
  <2> QED
    BY <2>1 DEF ResetKernel, GoodKernel
<1>3. CreatedKernel = after[TaskCount]
  BY DEF CreatedKernel
<1>4. F \in [0 .. TaskCount - 1 -> [GoodKernel -> GoodKernel]]
  BY <1>1, ReadyEnqueueGood
<1>5. PICK g : Loops(g, TaskCount, GoodKernel, ResetKernel, F)
  <2> HIDE DEF F
  <2> QED
    BY <1>1, <1>2, <1>4, LoopExists
<1>6. \A t \in Tasks : t \in 0 .. TaskCount /\ t + 1 \in 0 .. TaskCount
                      /\ (t + 1) - 1 = t /\ t + 1 # 0
  BY <1>1
<1>7. \A t \in Tasks : g[t + 1] = ReadyEnqueue(g[t], t)
  <2>1. \A t \in 0 .. TaskCount - 1, u \in GoodKernel : F[t][u] = ReadyEnqueue(u, t)
    OBVIOUS
  <2> HIDE DEF F
  <2> QED
    BY <1>1, <1>5, <1>6, <2>1 DEF Loops
<1>8. Rec(g)
  <2>1. \A n \in 0 .. TaskCount : g[n] = IF n = 0 THEN ResetKernel ELSE ReadyEnqueue(g[n - 1], n - 1)
    <3> SUFFICES ASSUME NEW n \in 0 .. TaskCount, n # 0
                 PROVE  g[n] = ReadyEnqueue(g[n - 1], n - 1)
      BY <1>5 DEF Loops
    <3>1. n - 1 \in Tasks /\ (n - 1) + 1 = n
      BY <1>1
    <3> QED
      BY <1>7, <3>1
  <2>2. g = [n \in 0 .. TaskCount |-> g[n]]
    BY <1>5 DEF Loops
  <2> QED
    BY <2>1, <2>2
<1>9. Rec(after)
  BY <1>8
<1> HIDE DEF after
<1>10. after[0] = ResetKernel /\ \A t \in Tasks : after[t + 1] = ReadyEnqueue(after[t], t)
  BY <1>1, <1>6, <1>9
<1> DEFINE T == {n \in 0 .. TaskCount : after[n] \in GoodKernel}
<1>11. 0 \in T
  BY <1>1, <1>2, <1>10
<1>12. ASSUME NEW n \in 0 .. TaskCount - 1, n \in T PROVE n + 1 \in T
  BY <1>1, <1>6, <1>10, <1>12, ReadyEnqueueGood
<1>13. \A n \in 0 .. TaskCount : n \in T
  <2> HIDE DEF T
  <2> QED
    BY <1>1, <1>11, <1>12, LoopInduction
<1>14. after \in [0 .. TaskCount -> GoodKernel]
  BY <1>9, <1>13
<1> HIDE DEF Rec
<1> QED
  BY <1>3, <1>10, <1>14

\* The kernel that os_Init and the creation of the tasks leave is well formed.
LEMMA CreatedKernelGood == CreatedKernel \in GoodKernel
<1>1. TaskCount \in 0 .. TaskCount
  BY OsKernelAssumption
<1> QED
  BY <1>1, CreatedKernelLoop
-------------------------------------------------------------------------------
\* os_SchedStart keeps the kernel well formed.
LEMMA SchedStartGood ==
    ASSUME kernel \in GoodKernel, SchedStart
    PROVE  kernel' \in GoodKernel
<1> DEFINE k == [kernel EXCEPT !.started = TRUE]
<1>1. k \in GoodKernel
  BY DEF GoodKernel, Kernel
<1> QED
  BY <1>1, SwitchToHighestGood DEF SchedStart

\* vTaskYield keeps the kernel well formed.
LEMMA TaskYieldGood ==
    ASSUME kernel \in GoodKernel, NEW t \in Tasks, TaskYield(t)
    PROVE  kernel' \in GoodKernel
  BY SchedYieldCurrentGood DEF TaskYield

\* The end of a task keeps the kernel well formed.
LEMMA TaskExitGood ==
    ASSUME kernel \in GoodKernel, NEW t \in Tasks, TaskExit(t)
    PROVE  kernel' \in GoodKernel
<1> DEFINE released == MutexReleaseTask(kernel, t)
           k == [released EXCEPT !.state[t] = "TERMINATED"]
<1>1. released \in GoodKernel
  BY MutexReleaseTaskGood
<1>2. kernel' = SchedCurrentBlocked(k)
  BY DEF TaskExit
<1> HIDE DEF released
<1>3. k \in GoodKernel
  BY <1>1 DEF GoodKernel, Kernel, TaskStates
<1> QED
  BY <1>2, <1>3, SchedCurrentBlockedGood

\* vTaskDelay keeps the kernel well formed.
LEMMA TaskDelayGood ==
    ASSUME kernel \in GoodKernel, NEW t \in Tasks, NEW ticks \in Ticks, TaskDelay(t, ticks)
    PROVE  kernel' \in GoodKernel
<1> DEFINE k == [kernel EXCEPT !.state[t] = "BLOCKED_DELAY"]
           target == (kernel.tick + Clamp(ticks)) % TickModulus
<1>1. CASE TaskYield(t)
  BY <1>1, TaskYieldGood
<1>2. CASE kernel' = SchedCurrentBlocked(TimeDelayListInsert(k, t, target))
  <2>1. k \in GoodKernel
    BY DEF GoodKernel, Kernel, TaskStates
  <2>2. target \in Ticks
    <3>1. kernel.tick + Clamp(ticks) \in Int
      BY SMTT(30), OsKernelAssumption DEF GoodKernel, Kernel, Ticks, Clamp, MaxDelay
    <3> QED
      BY <3>1, TickRange
  <2> HIDE DEF k, target
  <2> QED
    BY <1>2, <2>1, <2>2, TimeDelayListInsertGood, SchedCurrentBlockedGood
<1> QED
  BY <1>1, <1>2 DEF TaskDelay

\* xMutexLock keeps the kernel well formed on all its paths.
LEMMA MutexLockGood ==
    ASSUME kernel \in GoodKernel, NEW m \in Mutexes, NEW timeout \in Ticks, MutexLock(m, timeout)
    PROVE  kernel' \in GoodKernel
<1> DEFINE t == kernel.current
           taken == [kernel EXCEPT !.owner[m] = t]
           k == MutexWaitersChanged(WaitBlockCurrent(kernel, MutexWaiters(m), timeout))
<1>1. t \in Tasks
  BY DEF MutexLock, CurrentRuns, GoodKernel, Kernel
<1>2. taken \in GoodKernel
  BY <1>1 DEF GoodKernel, Kernel
<1>3. k \in GoodKernel
  <2>1. MutexWaiters(m) \in WaitLists
    BY DEF WaitLists
  <2> QED
    BY <2>1, WaitBlockCurrentGood, MutexWaitersChangedGood
<1>4. kernel' \in {SetResult(taken, t, "OK"), SetResult(kernel, t, "BAD_STATE"),
                  SetResult(kernel, t, "TIMEOUT"), k, SchedSchedule(k, FALSE)}
  BY DEF MutexLock
<1> HIDE DEF taken, k, t
<1> QED
  BY <1>1, <1>2, <1>3, <1>4, SetResultGood, SchedScheduleGood DEF Statuses

\* xMutexUnlock keeps the kernel well formed on all its paths.
LEMMA MutexUnlockGood ==
    ASSUME kernel \in GoodKernel, NEW m \in Mutexes, MutexUnlock(m)
    PROVE  kernel' \in GoodKernel
<1> DEFINE t == kernel.current
           l == MutexWaiters(m)
           w == WaitHead(kernel, l)
           popped == WaitPop(kernel, l)
           given == [popped EXCEPT !.owner[m] = w]
           released == MutexWaitersChanged(SetResult(given, t, "OK"))
<1>1. t \in Tasks
  BY DEF MutexUnlock, CurrentRuns, GoodKernel, Kernel
<1>2. l \in WaitLists
  BY DEF WaitLists
<1>3. w \in Tasks \cup {NoTask} /\ popped \in GoodKernel
  BY <1>2, WaitHeadType, WaitPopGood
<1>4. \/ kernel' = SetResult(kernel, t, "NOT_OWNER")
      \/ kernel' = released
      \/ w # NoTask /\ kernel' = WaitMaybePreempt(WaitMakeReady(released, w, "OK"), w)
  BY DEF MutexUnlock
<1> HIDE DEF popped, w, t
<1>5. given \in GoodKernel
  BY <1>3 DEF GoodKernel, Kernel
<1> HIDE DEF given
<1>6. released \in GoodKernel
  BY <1>1, <1>5, SetResultGood, MutexWaitersChangedGood DEF Statuses
<1> HIDE DEF released
<1>7. w # NoTask => WaitMakeReady(released, w, "OK") \in GoodKernel
  BY <1>3, <1>6, WaitMakeReadyGood DEF Statuses
<1> QED
  BY <1>1, <1>4, <1>6, <1>7, SetResultGood, WaitMaybePreemptGood DEF Statuses
-------------------------------------------------------------------------------
\* The parts of TypeOK about the semaphores and about the queues.
SemType == /\ semCount \in [Semaphores -> Nat]
           /\ \A s \in Semaphores : semCount[s] <= MaximumCount[s]

\* xSemaphoreTake never takes a permit that is not there.
LEMMA SemTakeGood ==
    ASSUME kernel \in GoodKernel, SemType,
           NEW s \in Semaphores, NEW timeout \in Ticks, SemTake(s, timeout)
    PROVE  kernel' \in GoodKernel /\ SemType'
<1>1. kernel.current \in Tasks
  BY DEF SemTake, CurrentRuns, GoodKernel, Kernel
<1>2. SemWaiters(s) \in WaitLists
  BY DEF WaitLists
<1>3. kernel' \in GoodKernel
  <2>1. kernel' \in {SetResult(kernel, kernel.current, "OK"), SetResult(kernel, kernel.current, "TIMEOUT"),
                    WaitBlockCurrent(kernel, SemWaiters(s), timeout)}
    BY DEF SemTake
  <2> QED
    BY <1>1, <1>2, <2>1, SetResultGood, WaitBlockCurrentGood DEF Statuses
<1>4. SemType'
  <2>1. \/ semCount' = semCount
        \/ semCount[s] > 0 /\ semCount' = [semCount EXCEPT ![s] = semCount[s] - 1]
    BY DEF SemTake
  <2> QED
    BY <2>1, OsSemAssumption DEF SemType
<1> QED
  BY <1>3, <1>4

\* What a give does to the kernel is well formed, and its count bounded.
LEMMA GiveOutcomeType ==
    ASSUME NEW k \in GoodKernel, SemType, NEW s \in Semaphores
    PROVE  LET give == GiveOutcome(k, s) IN
           /\ give.k \in GoodKernel
           /\ give.status \in Statuses
           /\ give.count \in 0 .. MaximumCount[s]
<1> DEFINE l == SemWaiters(s)
           w == WaitHead(k, l)
           c == semCount[s]
<1>1. w \in Tasks \cup {NoTask} /\ WaitPop(k, l) \in GoodKernel
  BY WaitHeadType, WaitPopGood DEF WaitLists
<1>2. w # NoTask => WaitMakeReady(WaitPop(k, l), w, "OK") \in GoodKernel
  BY <1>1, WaitMakeReadyGood DEF Statuses
<1>3. c \in Nat /\ MaximumCount[s] \in Nat /\ c <= MaximumCount[s]
  BY OsSemAssumption DEF SemType
<1> QED
  BY <1>2, <1>3 DEF GiveOutcome, Statuses

\* A bounded count written for one semaphore keeps all of them bounded.
LEMMA CountedType ==
    ASSUME SemType, NEW s \in Semaphores, NEW c \in 0 .. MaximumCount[s],
           semCount' = [semCount EXCEPT ![s] = c]
    PROVE  SemType'
  BY OsSemAssumption DEF SemType

\* xSemaphoreGive never counts beyond the maximum.
LEMMA SemGiveGood ==
    ASSUME kernel \in GoodKernel, SemType, NEW s \in Semaphores, SemGive(s)
    PROVE  kernel' \in GoodKernel /\ SemType'
<1> DEFINE give == GiveOutcome(kernel, s)
           k == SetResult(give.k, kernel.current, give.status)
<1>1. kernel.current \in Tasks
  BY DEF SemGive, CurrentRuns, GoodKernel, Kernel
<1>2. give.k \in GoodKernel /\ give.status \in Statuses /\ give.count \in 0 .. MaximumCount[s]
  BY GiveOutcomeType
<1>3. /\ semCount' = [semCount EXCEPT ![s] = give.count]
      /\ kernel' \in {k, WaitMaybePreempt(k, give.woken)}
  BY DEF SemGive
<1> HIDE DEF give
<1>4. k \in GoodKernel
  BY <1>1, <1>2, SetResultGood
<1> QED
  BY <1>2, <1>3, <1>4, WaitMaybePreemptGood, CountedType

\* xSemaphoreGiveFromISR never counts beyond the maximum.
LEMMA SemGiveFromISRGood ==
    ASSUME kernel \in GoodKernel, SemType, NEW s \in Semaphores, SemGiveFromISR(s)
    PROVE  kernel' \in GoodKernel /\ SemType'
<1> DEFINE give == GiveOutcome(EnterCritical(kernel), s)
<1>1. give.k \in GoodKernel /\ give.count \in 0 .. MaximumCount[s]
  BY EnterCriticalGood, GiveOutcomeType
<1>2. /\ semCount' = [semCount EXCEPT ![s] = give.count]
      /\ kernel' \in {ExitCritical(give.k), ExitCritical(WaitMaybePreempt(give.k, give.woken))}
  BY DEF SemGiveFromISR
<1> HIDE DEF give
<1> QED
  BY <1>1, <1>2, WaitMaybePreemptGood, ExitCriticalGood, CountedType
-------------------------------------------------------------------------------
QueueType ==
    /\ ring \in [Queues -> UNION {Ring(q) : q \in Queues}]
    /\ \A q \in Queues : ring[q] \in Ring(q)
    /\ buffer \in [Tasks -> Messages \cup {NoMessage}]

\* Indices taken modulo the capacity are slots.
LEMMA SlotRange ==
    ASSUME NEW q \in Queues
    PROVE  0 \in Slots(q) /\ \A n \in Int : n % Capacity[q] \in Slots(q)
  BY OsQueueAssumption DEF Slots

\* A message put in a ring that is not full stays inside its storage.
LEMMA PutType ==
    ASSUME NEW q \in Queues, NEW r \in Ring(q), r.count < Capacity[q],
           NEW message \in Messages \cup {NoMessage}
    PROVE  Put(r, q, message) \in Ring(q)
<1> DEFINE next == (r.tail + 1) % Capacity[q]
           more == r.count + 1
           filled == [r.slots EXCEPT ![r.tail] = message]
<1>1. next \in Slots(q)
  <2>1. r.tail + 1 \in Int
    BY OsQueueAssumption DEF Ring, Slots
  <2> QED
    BY <2>1, SlotRange
<1>2. more \in 0 .. Capacity[q]
  BY OsQueueAssumption DEF Ring
<1>3. filled \in [Slots(q) -> Messages \cup {NoMessage}]
  BY DEF Ring
<1>4. Put(r, q, message) = [r EXCEPT !.slots = filled, !.tail = next, !.count = more]
  BY DEF Put, Ring
<1> HIDE DEF next, more, filled
<1> QED
  BY <1>1, <1>2, <1>3, <1>4 DEF Ring

\* A message taken from a ring that is not empty leaves a free slot.
LEMMA TakeHeadType ==
    ASSUME NEW q \in Queues, NEW r \in Ring(q), r.count > 0
    PROVE  /\ TakeHead(r, q) \in Ring(q)
           /\ TakeHead(r, q).count < Capacity[q]
           /\ r.slots[r.head] \in Messages \cup {NoMessage}
<1> DEFINE next == (r.head + 1) % Capacity[q]
           fewer == r.count - 1
<1>1. next \in Slots(q)
  <2>1. r.head + 1 \in Int
    BY OsQueueAssumption DEF Ring, Slots
  <2> QED
    BY <2>1, SlotRange
<1>2. fewer \in 0 .. Capacity[q] /\ fewer < Capacity[q]
  BY OsQueueAssumption DEF Ring
<1>3. TakeHead(r, q) = [r EXCEPT !.head = next, !.count = fewer]
  BY DEF TakeHead
<1> HIDE DEF next, fewer
<1> QED
  BY <1>1, <1>2, <1>3 DEF Ring

\* Replacing one ring by a ring of its capacity.
LEMMA RingUpdateType ==
    ASSUME ring \in [Queues -> UNION {Ring(q) : q \in Queues}],
           \A q \in Queues : ring[q] \in Ring(q),
           NEW q \in Queues, NEW r \in Ring(q), ring' = [ring EXCEPT ![q] = r]
    PROVE  /\ ring' \in [Queues -> UNION {Ring(p) : p \in Queues}]
           /\ \A p \in Queues : ring'[p] \in Ring(p)
  OBVIOUS

\* xQueueSend stays inside the storage and writes messages only.
LEMMA QueueSendGood ==
    ASSUME kernel \in GoodKernel, QueueType, NEW q \in Queues, NEW message \in Messages,
           NEW timeout \in Ticks, QueueSend(q, message, timeout)
    PROVE  kernel' \in GoodKernel /\ QueueType'
<1> DEFINE t == kernel.current
           receiver == WaitHead(kernel, ReceiveWaiters(q))
           popped == WaitPop(kernel, ReceiveWaiters(q))
           k == SetResult(popped, t, "OK")
           own == [buffer EXCEPT ![t] = message]
<1>1. t \in Tasks
  BY DEF QueueSend, CurrentRuns, GoodKernel, Kernel
<1>2. ReceiveWaiters(q) \in WaitLists /\ SendWaiters(q) \in WaitLists
  BY DEF WaitLists
<1>3. receiver \in Tasks \cup {NoTask} /\ popped \in GoodKernel
  BY <1>2, WaitHeadType, WaitPopGood
<1>4. \/ /\ receiver # NoTask
         /\ kernel' = WaitMaybePreempt(WaitMakeReady(k, receiver, "OK"), receiver)
         /\ buffer' = [own EXCEPT ![receiver] = message]
         /\ ring' = ring
      \/ /\ ring[q].count < Capacity[q]
         /\ kernel' = k /\ buffer' = own
         /\ ring' = [ring EXCEPT ![q] = Put(ring[q], q, message)]
      \/ /\ kernel' \in {SetResult(kernel, t, "TIMEOUT"), WaitBlockCurrent(kernel, SendWaiters(q), timeout)}
         /\ buffer' = own /\ ring' = ring
  BY DEF QueueSend
<1> HIDE DEF t, receiver, popped
<1>5. k \in GoodKernel
  BY <1>1, <1>3, SetResultGood DEF Statuses
<1> HIDE DEF k
<1>6. kernel' \in GoodKernel
  <2>1. receiver # NoTask => WaitMakeReady(k, receiver, "OK") \in GoodKernel
    BY <1>3, <1>5, WaitMakeReadyGood DEF Statuses
  <2>2. SetResult(kernel, t, "TIMEOUT") \in GoodKernel
    BY <1>1, SetResultGood DEF Statuses
  <2>3. WaitBlockCurrent(kernel, SendWaiters(q), timeout) \in GoodKernel
    BY <1>2, WaitBlockCurrentGood
  <2> QED
    BY <1>4, <1>5, <2>1, <2>2, <2>3, WaitMaybePreemptGood
<1>7. buffer' \in [Tasks -> Messages \cup {NoMessage}]
  BY <1>1, <1>3, <1>4 DEF QueueType
<1>8. ring' \in [Queues -> UNION {Ring(p) : p \in Queues}] /\ \A p \in Queues : ring'[p] \in Ring(p)
  <2>1. CASE ring' = ring
    BY <2>1 DEF QueueType
  <2>2. CASE ring[q].count < Capacity[q] /\ ring' = [ring EXCEPT ![q] = Put(ring[q], q, message)]
    <3>1. Put(ring[q], q, message) \in Ring(q)
      BY <2>2, PutType DEF QueueType
    <3> QED
      BY <2>2, <3>1, RingUpdateType DEF QueueType
  <2> QED
    BY <1>4, <2>1, <2>2
<1> QED
  BY <1>6, <1>7, <1>8 DEF QueueType

\* xQueueReceive stays inside the storage, the refill by a sender included.
LEMMA QueueReceiveGood ==
    ASSUME kernel \in GoodKernel, QueueType, NEW q \in Queues,
           NEW timeout \in Ticks, QueueReceive(q, timeout)
    PROVE  kernel' \in GoodKernel /\ QueueType'
<1> DEFINE t == kernel.current
           sender == WaitHead(kernel, SendWaiters(q))
           popped == WaitPop(kernel, SendWaiters(q))
           k == SetResult(popped, t, "OK")
           message == ring[q].slots[ring[q].head]
           taken == TakeHead(ring[q], q)
<1>1. t \in Tasks
  BY DEF QueueReceive, CurrentRuns, GoodKernel, Kernel
<1>2. ReceiveWaiters(q) \in WaitLists /\ SendWaiters(q) \in WaitLists
  BY DEF WaitLists
<1>3. sender \in Tasks \cup {NoTask} /\ popped \in GoodKernel
  BY <1>2, WaitHeadType, WaitPopGood
<1>4. \/ /\ ring[q].count > 0 /\ sender # NoTask
         /\ kernel' = WaitMaybePreempt(WaitMakeReady(k, sender, "OK"), sender)
         /\ buffer' = [buffer EXCEPT ![t] = message]
         /\ ring' = [ring EXCEPT ![q] = Put(taken, q, buffer[sender])]
      \/ /\ ring[q].count > 0
         /\ kernel' = k
         /\ buffer' = [buffer EXCEPT ![t] = message]
         /\ ring' = [ring EXCEPT ![q] = taken]
      \/ /\ kernel' \in {SetResult(kernel, t, "TIMEOUT"), WaitBlockCurrent(kernel, ReceiveWaiters(q), timeout)}
         /\ buffer' = buffer /\ ring' = ring
  BY DEF QueueReceive
<1>5. ring[q].count > 0 => /\ taken \in Ring(q) /\ taken.count < Capacity[q]
                          /\ message \in Messages \cup {NoMessage}
  BY TakeHeadType DEF QueueType
<1> HIDE DEF t, sender, popped, message, taken
<1>6. k \in GoodKernel
  BY <1>1, <1>3, SetResultGood DEF Statuses
<1> HIDE DEF k
<1>7. kernel' \in GoodKernel
  <2>1. sender # NoTask => WaitMakeReady(k, sender, "OK") \in GoodKernel
    BY <1>3, <1>6, WaitMakeReadyGood DEF Statuses
  <2>2. SetResult(kernel, t, "TIMEOUT") \in GoodKernel
    BY <1>1, SetResultGood DEF Statuses
  <2>3. WaitBlockCurrent(kernel, ReceiveWaiters(q), timeout) \in GoodKernel
    BY <1>2, WaitBlockCurrentGood
  <2> QED
    BY <1>4, <1>6, <2>1, <2>2, <2>3, WaitMaybePreemptGood
<1>8. buffer' \in [Tasks -> Messages \cup {NoMessage}]
  BY <1>1, <1>4, <1>5 DEF QueueType
<1>9. ring' \in [Queues -> UNION {Ring(p) : p \in Queues}] /\ \A p \in Queues : ring'[p] \in Ring(p)
  <2>1. CASE ring' = ring
    BY <2>1 DEF QueueType
  <2>2. CASE ring[q].count > 0 /\ ring' = [ring EXCEPT ![q] = taken]
    BY <1>5, <2>2, RingUpdateType DEF QueueType
  <2>3. CASE ring[q].count > 0 /\ sender # NoTask /\ ring' = [ring EXCEPT ![q] = Put(taken, q, buffer[sender])]
    <3>1. buffer[sender] \in Messages \cup {NoMessage}
      BY <1>3, <2>3 DEF QueueType
    <3>2. Put(taken, q, buffer[sender]) \in Ring(q)
      BY <1>5, <2>3, <3>1, PutType
    <3> QED
      BY <2>3, <3>2, RingUpdateType DEF QueueType
  <2> QED
    BY <1>4, <2>1, <2>2, <2>3
<1> QED
  BY <1>7, <1>8, <1>9 DEF QueueType
-------------------------------------------------------------------------------
\* What the code relies on without testing it: a set bit of the ready bitmap
\* always means a task to run (os_ReadyPopHighest asserts it), so the inductive
\* invariant is TypeOK with an exact bitmap.
TypeInv == kernel \in GoodKernel /\ SemType /\ QueueType

\* The inductive invariant holds of the state os_Start is called in.
LEMMA InitTypeInv == Init => TypeInv
<1> SUFFICES ASSUME Init PROVE TypeInv
  OBVIOUS
<1>1. kernel \in GoodKernel
  BY CreatedKernelGood DEF Init
<1>2. SemType
  BY OsSemAssumption DEF Init, SemType
<1>3. QueueType
  <2>1. \A q \in Queues : EmptyRing(q) \in Ring(q)
    BY SlotRange, OsQueueAssumption DEF EmptyRing, Ring
  <2> QED
    BY <2>1 DEF Init, QueueType
<1> QED
  BY <1>1, <1>2, <1>3 DEF TypeInv

\* Every step keeps the inductive invariant.
LEMMA StepTypeInv == TypeInv /\ [Next]_vars => TypeInv'
<1> SUFFICES ASSUME TypeInv, [Next]_vars PROVE TypeInv'
  OBVIOUS
<1> USE DEF TypeInv
<1>1. CASE Start
  BY <1>1, SchedStartGood DEF Start, SemType, QueueType
<1>2. CASE Timer
  <2>1. kernel' \in GoodKernel
    BY <1>2, TimeTickGood DEF Timer, Tick
  <2> QED
    BY <1>2, <2>1 DEF Timer, SemType, QueueType
<1>3. CASE Interrupt
  BY <1>3, SemGiveFromISRGood DEF Interrupt, QueueType, queueVars
<1>4. ASSUME NEW t \in Tasks, Scheduling(t) PROVE TypeInv'
  <2>1. CASE TaskYield(t)
    BY <1>4, <2>1, TaskYieldGood DEF Scheduling, SemType, QueueType
  <2>2. CASE TaskExit(t)
    BY <1>4, <2>2, TaskExitGood DEF Scheduling, SemType, QueueType
  <2>3. ASSUME NEW ticks \in Delays, TaskDelay(t, ticks) PROVE TypeInv'
    BY <1>4, <2>3, TaskDelayGood, MiniRtosAssumption DEF Scheduling, SemType, QueueType
  <2> QED
    BY <1>4, <2>1, <2>2, <2>3 DEF Scheduling
<1>5. ASSUME NEW t \in Tasks, UserCall(t) PROVE TypeInv'
  <2>1. CASE MutexCall
    <3>1. kernel' \in GoodKernel
      BY <2>1, MutexLockGood, MutexUnlockGood, MiniRtosAssumption DEF MutexCall
    <3> QED
      BY <2>1, <3>1 DEF MutexCall, SemType, QueueType
  <2>2. CASE SemCall
    <3>1. kernel' \in GoodKernel /\ SemType'
      BY <2>2, SemTakeGood, SemGiveGood, MiniRtosAssumption DEF SemCall
    <3> QED
      BY <2>2, <3>1 DEF SemCall, queueVars, QueueType
  <2>3. CASE QueueCall
    <3>1. kernel' \in GoodKernel /\ QueueType'
      BY <2>3, QueueSendGood, QueueReceiveGood, MiniRtosAssumption DEF QueueCall
    <3> QED
      BY <2>3, <3>1 DEF QueueCall, SemType
  <2> QED
    BY <1>5, <2>1, <2>2, <2>3 DEF UserCall
<1>6. CASE UNCHANGED vars
  BY <1>6 DEF vars, SemType, QueueType
<1> QED
  BY <1>1, <1>2, <1>3, <1>4, <1>5, <1>6 DEF Next

\* TypeOK holds in every reachable state of every configuration.
THEOREM TypeCorrect == Spec => []TypeOK
<1>1. TypeInv => TypeOK
  BY DEF TypeInv, TypeOK, GoodKernel, SemType, QueueType
<1> QED
  BY InitTypeInv, StepTypeInv, <1>1, PTL DEF Spec
-------------------------------------------------------------------------------
(* The inductive invariant of the kernel, and the handlers that only schedule *)

\* Nobody waits on a list.
NobodyWaits(k, l) == \A u \in Tasks : k.waitOn[u] # l

\* The mutexes a handler leaves alone have owners that can release them; the
\* others pass to their first waiter, or to the caller of a lock.
CanRelease(k, m) ==
    k.owner[m] # NoTask =>
        k.state[k.owner[m]] # "TERMINATED" /\ k.waitOn[k.owner[m]] # MutexWaiters(m)

OwnersMove(k, r) ==
    /\ \A m \in Mutexes :
          \/ r.owner[m] = k.owner[m] /\ CanRelease(r, m)
          \/ k.owner[m] = NoTask /\ r.owner[m] # NoTask /\ CanRelease(r, m)
          \/ PassedOn(k, r, m)
    /\ \A m \in Mutexes, u \in Tasks : Ended(k, r, u, MutexWaiters(m), "OK") => r.owner[m] = u

\* What one handler does to the kernel, and what it leaves of it.
Handled(k, r, joined, granted) ==
    /\ Sound(r) /\ Deadlines(r, r.tick + 1)
    /\ Fates(k, r, joined, granted) /\ OwnersMove(k, r)
    /\ ~r.started => r.current = NoTask

\* The part of the inductive invariant that is about the kernel alone.
KernelInv(k) ==
    /\ Sound(k) /\ Deadlines(k, k.tick + 1)
    /\ \A m \in Mutexes : CanRelease(k, m)
    /\ \A m \in Mutexes : k.owner[m] = NoTask => NobodyWaits(k, MutexWaiters(m))
    /\ ~k.started => k.current = NoTask

\* An empty list is one on which nobody waits.
LEMMA EmptyList ==
    ASSUME NEW k, Sound(k), NEW l \in WaitLists
    PROVE  k.waiters[l] = <<>> <=> NobodyWaits(k, l)
<1> DEFINE Q == {u \in Tasks \ {} : k.waitOn[u] = l}
<1>1. Exact(k.waiters[l], Q) /\ Q \cap Tasks = Q
  BY DEF Sound, Consistent, WaitersExact
<1>2. Q = {} <=> NobodyWaits(k, l)
  BY DEF NobodyWaits
<1> HIDE DEF Q
<1>3. QED
  BY <1>1, <1>2, EmptyExact

\* Nobody starts to wait on the lists a handler does not name.
LEMMA QuietLists ==
    ASSUME NEW k, NEW r, NEW joined, NEW granted, Fates(k, r, joined, granted),
           NEW l \in WaitLists, l \notin joined, NobodyWaits(k, l)
    PROVE  NobodyWaits(r, l)
<1> SUFFICES ASSUME NEW u \in Tasks PROVE r.waitOn[u] # l
  BY DEF NobodyWaits
<1>1. k.waitOn[u] # l /\ NoWait # l
  BY DEF NobodyWaits, NoWait, WaitLists, SemWaiters, SendWaiters, ReceiveWaiters, MutexWaiters
<1>2. r.waitOn[u] \in {k.waitOn[u], NoWait} \cup joined
  BY DEF Fates, Kept, TimedOut, Ended
<1>3. QED
  BY <1>1, <1>2

\* The lists of different objects differ.
LEMMA ListsDiffer ==
    /\ \A m, n : MutexWaiters(m) = MutexWaiters(n) => m = n
    /\ \A s, t : SemWaiters(s) = SemWaiters(t) => s = t
    /\ \A p, q : SendWaiters(p) = SendWaiters(q) => p = q
    /\ \A p, q : ReceiveWaiters(p) = ReceiveWaiters(q) => p = q
    /\ \A m, s : MutexWaiters(m) # SemWaiters(s)
    /\ \A m, q : MutexWaiters(m) # SendWaiters(q) /\ MutexWaiters(m) # ReceiveWaiters(q)
    /\ \A s, q : SemWaiters(s) # SendWaiters(q) /\ SemWaiters(s) # ReceiveWaiters(q)
    /\ \A p, q : SendWaiters(p) # ReceiveWaiters(q)
    /\ \A m \in Mutexes : MutexWaiters(m) \in WaitLists
    /\ \A s \in Semaphores : SemWaiters(s) \in WaitLists
    /\ \A q \in Queues : SendWaiters(q) \in WaitLists /\ ReceiveWaiters(q) \in WaitLists
<1>1. /\ \A m \in Mutexes : MutexWaiters(m) \in WaitLists
      /\ \A s \in Semaphores : SemWaiters(s) \in WaitLists
      /\ \A q \in Queues : SendWaiters(q) \in WaitLists /\ ReceiveWaiters(q) \in WaitLists
  BY DEF WaitLists
<1>2. /\ \A m, n : MutexWaiters(m) = MutexWaiters(n) => m = n
      /\ \A s, t : SemWaiters(s) = SemWaiters(t) => s = t
      /\ \A p, q : SendWaiters(p) = SendWaiters(q) => p = q
      /\ \A p, q : ReceiveWaiters(p) = ReceiveWaiters(q) => p = q
      /\ \A m, s : MutexWaiters(m) # SemWaiters(s)
      /\ \A m, q : MutexWaiters(m) # SendWaiters(q) /\ MutexWaiters(m) # ReceiveWaiters(q)
      /\ \A s, q : SemWaiters(s) # SendWaiters(q) /\ SemWaiters(s) # ReceiveWaiters(q)
      /\ \A p, q : SendWaiters(p) # ReceiveWaiters(q)
  BY DEF SemWaiters, SendWaiters, ReceiveWaiters, MutexWaiters
<1>3. QED
  BY <1>1, <1>2

\* A handler that leaves the mutexes to their owners, and ends no task.
LEMMA OwnersStay ==
    ASSUME NEW k, KernelInv(k), NEW r, r.owner = k.owner,
           NEW joined, NEW granted, Fates(k, r, joined, granted),
           \A u \in Tasks : r.state[u] = "TERMINATED" => k.state[u] = "TERMINATED",
           \A m \in Mutexes : MutexWaiters(m) \notin granted,
           \A m \in Mutexes : MutexWaiters(m) \in joined => k.owner[m] # k.current
    PROVE  OwnersMove(k, r)
<1>1. /\ k.owner \in [Mutexes -> Tasks \cup {NoTask}] /\ NoWait \notin WaitLists
      /\ k.waitOn \in [Tasks -> WaitLists \cup {NoWait}] /\ k.state \in [Tasks -> TaskStates]
  BY FieldTypes DEF KernelInv, Sound, Consistent
<1>2. ASSUME NEW m \in Mutexes, k.owner[m] # NoTask
      PROVE  r.state[k.owner[m]] # "TERMINATED" /\ r.waitOn[k.owner[m]] # MutexWaiters(m)
  <2> DEFINE o == k.owner[m]
  <2>1. o \in Tasks /\ k.state[o] # "TERMINATED" /\ k.waitOn[o] # MutexWaiters(m)
    BY <1>1, <1>2 DEF KernelInv, CanRelease
  <2>2. NoWait # MutexWaiters(m)
    BY <1>1, ListsDiffer
  <2> HIDE DEF o
  <2>3. \/ Kept(k, r, o)
        \/ TimedOut(k, r, o)
        \/ \E l \in granted : Ended(k, r, o, l, "OK")
        \/ Leaves(k, r, o) /\ r.waitOn[o] \in {k.waitOn[o]} \cup joined
    BY <2>1 DEF Fates
  <2>4. r.waitOn[o] # MutexWaiters(m)
    BY <2>1, <2>2, <2>3 DEF Kept, TimedOut, Ended, Leaves, o
  <2>5. QED
    BY <2>1, <2>4 DEF o
<1>3. \A m \in Mutexes : r.owner[m] = k.owner[m] /\ CanRelease(r, m)
  BY <1>2 DEF CanRelease
<1>4. ASSUME NEW m \in Mutexes, NEW u \in Tasks, Ended(k, r, u, MutexWaiters(m), "OK") PROVE FALSE
  <2>1. k.waitOn[u] = MutexWaiters(m) /\ r.waitOn[u] = NoWait /\ MutexWaiters(m) # NoWait
    BY <1>1, <1>4, ListsDiffer DEF Ended
  <2>2. ~Kept(k, r, u) /\ ~TimedOut(k, r, u) /\ ~Leaves(k, r, u)
    BY <1>4, <2>1 DEF Ended, Kept, TimedOut, Leaves
  <2>3. \E l \in granted : k.waitOn[u] = l
    BY <2>2 DEF Fates, Ended
  <2>4. QED
    BY <2>1, <2>3
<1>5. QED
  BY <1>3, <1>4 DEF OwnersMove

\* What every handler keeps of the kernel's own part of the invariant.
LEMMA HandledKeeps ==
    ASSUME NEW k, KernelInv(k), NEW r, NEW joined, NEW granted, Handled(k, r, joined, granted),
           \A m \in Mutexes : MutexWaiters(m) \in joined => k.owner[m] # NoTask
    PROVE  KernelInv(r)
<1>1. /\ k.owner \in [Mutexes -> Tasks \cup {NoTask}] /\ NoWait \notin WaitLists /\ NoTask \notin Tasks
  BY FieldTypes DEF KernelInv, Sound, Consistent
<1>2. ASSUME NEW m \in Mutexes PROVE CanRelease(r, m)
  <2>1. CASE PassedOn(k, r, m)
    BY <1>1, <2>1, ListsDiffer DEF PassedOn, CanRelease, Ended
  <2>2. QED
    BY <2>1 DEF Handled, OwnersMove
<1>3. ASSUME NEW m \in Mutexes, r.owner[m] = NoTask PROVE NobodyWaits(r, MutexWaiters(m))
  <2>1. CASE PassedOn(k, r, m)
    BY <1>1, <1>3, <2>1 DEF PassedOn, NobodyWaits
  <2>2. CASE k.owner[m] = NoTask
    <3>1. NobodyWaits(k, MutexWaiters(m)) /\ MutexWaiters(m) \notin joined
      BY <2>2 DEF KernelInv
    <3>2. QED
      BY <3>1, ListsDiffer, QuietLists DEF Handled
  <2>3. QED
    BY <1>3, <2>1, <2>2 DEF Handled, OwnersMove
<1>4. QED
  BY <1>2, <1>3 DEF KernelInv, Handled
-------------------------------------------------------------------------------
\* A handler that only takes a scheduling decision.
LEMMA SchedulingHandled ==
    ASSUME NEW k, KernelInv(k), NEW j, NEW r, Sound(r), OnlySchedules(j, r),
           j.started = k.started \/ j.started, j.state = k.state, j.tick = k.tick,
           j.delayed = k.delayed, j.overflow = k.overflow, j.wake = k.wake, j.waitOn = k.waitOn,
           j.owner = k.owner, r.started \/ r.current = NoTask
    PROVE  Handled(k, r, {}, {})
<1>1. \A u \in Tasks : Kept(k, r, u)
  BY DEF OnlySchedules, Kept
<1>2. Fates(k, r, {}, {})
  BY <1>1 DEF Fates
<1>3. Deadlines(r, r.tick + 1)
  BY DEF KernelInv, OnlySchedules, Deadlines
<1>4. OwnersMove(k, r)
  <2>1. r.owner = k.owner /\ \A u \in Tasks : r.state[u] = "TERMINATED" => k.state[u] = "TERMINATED"
    BY DEF OnlySchedules
  <2>2. QED
    BY <1>2, <2>1, OwnersStay
<1>5. QED
  BY <1>2, <1>3, <1>4 DEF Handled

\* os_SchedStart puts the first task on the processor.
LEMMA StartHandled ==
    ASSUME KernelInv(kernel), SchedStart
    PROVE  Handled(kernel, kernel', {}, {})
<1> DEFINE j == [kernel EXCEPT !.started = TRUE]
<1>1. Consistent(kernel, {}) /\ kernel \in GoodKernel /\ kernel \in Kernel /\ kernel.current = NoTask
  BY DEF KernelInv, Sound, Consistent, GoodKernel, SchedStart
<1>2. /\ j.started = TRUE /\ j.state = kernel.state /\ j.tick = kernel.tick
      /\ j.delayed = kernel.delayed /\ j.overflow = kernel.overflow /\ j.wake = kernel.wake
      /\ j.waitOn = kernel.waitOn /\ j.owner = kernel.owner /\ j.current = kernel.current
      /\ j.ready = kernel.ready /\ j.waiters = kernel.waiters /\ j.effective = kernel.effective
  BY <1>1 DEF Kernel
<1>3. j \in GoodKernel
  BY <1>1 DEF GoodKernel, Kernel
<1>4. kernel' = SwitchToHighest(j)
  BY DEF SchedStart
<1> HIDE DEF j
<1>5. Consistent(j, {})
  BY <1>1, <1>2, <1>3, FreeChange
<1>6. \A t \in Tasks : j.state[t] # "RUNNING"
  BY <1>1, <1>2, FieldTypes DEF Consistent, OneRuns
<1>7. Sound(kernel') /\ OnlySchedules(j, kernel')
  BY <1>4, <1>5, <1>6, SwitchToHighestSound
<1>8. kernel'.started
  BY <1>2, <1>7 DEF OnlySchedules
<1>9. QED
  BY <1>2, <1>7, <1>8, SchedulingHandled

\* vTaskYield.
LEMMA YieldHandled ==
    ASSUME KernelInv(kernel), NEW t, TaskYield(t)
    PROVE  Handled(kernel, kernel', {}, {})
<1>1. Sound(kernel') /\ OnlySchedules(kernel, kernel')
  BY SchedYieldCurrentSound DEF KernelInv, TaskYield
<1>2. kernel.started /\ kernel'.started
  BY <1>1 DEF KernelInv, TaskYield, CurrentRuns, OnlySchedules
<1>3. QED
  BY <1>1, <1>2, SchedulingHandled

\* A tick ends only waits and delays whose deadline it reaches.
LEMMA TickHandled ==
    ASSUME KernelInv(kernel), Tick
    PROVE  Handled(kernel, kernel', {}, {})
<1>1. /\ Sound(kernel') /\ Deadlines(kernel', kernel'.tick + 1)
      /\ kernel'.started = kernel.started /\ kernel'.owner = kernel.owner
      /\ \A u \in Tasks : Kept(kernel, kernel', u) \/ TimedOut(kernel, kernel', u)
  BY TimeTickSound DEF KernelInv, Tick
<1>2. Fates(kernel, kernel', {}, {})
  BY <1>1 DEF Fates
<1>3. \A u \in Tasks : kernel'.state[u] = "TERMINATED" => kernel.state[u] = "TERMINATED"
  BY <1>1 DEF Kept, TimedOut
<1>4. OwnersMove(kernel, kernel')
  BY <1>1, <1>2, <1>3, OwnersStay
<1>5. QED
  BY <1>1, <1>2, <1>4 DEF Handled, Tick

\* vTaskDelay.
LEMMA DelayHandled ==
    ASSUME KernelInv(kernel), NEW t, NEW ticks \in Ticks, TaskDelay(t, ticks)
    PROVE  Handled(kernel, kernel', {}, {})
<1>1. CASE ticks = 0
  <2>1. TaskYield(t)
    BY <1>1 DEF TaskDelay
  <2>2. QED
    BY <2>1, YieldHandled
<1>2. CASE ticks # 0
  <2>1. ~(ticks = 0)
    BY <1>2
  <2>2. /\ Sound(kernel') /\ Fates(kernel, kernel', {}, {}) /\ kernel'.owner = kernel.owner
        /\ kernel'.tick = kernel.tick /\ kernel'.started = kernel.started
        /\ \A u \in Tasks : kernel'.state[u] = "TERMINATED" => kernel.state[u] = "TERMINATED"
        /\ Deadlines(kernel, kernel.tick + 1) => Deadlines(kernel', kernel.tick + 1)
    BY ZenonT(60), <2>1, DelaySound DEF KernelInv, TaskDelay
  <2>3. kernel.started
    BY DEF KernelInv, TaskDelay, CurrentRuns
  <2>4. OwnersMove(kernel, kernel')
    BY <2>2, OwnersStay
  <2>5. QED
    BY <2>2, <2>3, <2>4 DEF Handled, KernelInv
<1>3. QED
  BY <1>1, <1>2

\* The end of a task passes its mutexes on to their first waiters.
LEMMA ExitHandled ==
    ASSUME KernelInv(kernel), NEW t, TaskExit(t)
    PROVE  Handled(kernel, kernel', {}, {MutexWaiters(m) : m \in Mutexes})
<1>1. t = kernel.current /\ CurrentRuns(kernel) /\ kernel.started
  BY DEF KernelInv, TaskExit, CurrentRuns
<1>2. /\ Sound(kernel') /\ kernel'.tick = kernel.tick /\ kernel'.started = kernel.started
      /\ \A m \in Mutexes : IF kernel.owner[m] = t THEN PassedOn(kernel, kernel', m)
                                                  ELSE kernel'.owner[m] = kernel.owner[m]
      /\ \A u \in Tasks :
            \/ Kept(kernel, kernel', u)
            \/ \E m \in Mutexes : kernel'.owner[m] = u /\ Ended(kernel, kernel', u, MutexWaiters(m), "OK")
            \/ u = t /\ Leaves(kernel, kernel', u) /\ kernel'.waitOn[u] = kernel.waitOn[u]
      /\ Deadlines(kernel, kernel.tick + 1) => Deadlines(kernel', kernel.tick + 1)
  <2> DEFINE freed == MutexReleaseTask(kernel, t)
             ended == SchedCurrentBlocked([freed EXCEPT !.state[t] = "TERMINATED"])
  <2>1. kernel' = ended
    BY DEF TaskExit
  <2>2. Sound(kernel) /\ t = kernel.current /\ CurrentRuns(kernel)
    BY <1>1 DEF KernelInv
  <2>3. /\ Sound(ended) /\ ended.tick = kernel.tick /\ ended.started = kernel.started
        /\ \A m \in Mutexes : IF kernel.owner[m] = t THEN PassedOn(kernel, ended, m)
                                                    ELSE ended.owner[m] = kernel.owner[m]
        /\ \A u \in Tasks :
              \/ Kept(kernel, ended, u)
              \/ \E m \in Mutexes : ended.owner[m] = u /\ Ended(kernel, ended, u, MutexWaiters(m), "OK")
              \/ u = t /\ Leaves(kernel, ended, u) /\ ended.waitOn[u] = kernel.waitOn[u]
        /\ Deadlines(kernel, kernel.tick + 1) => Deadlines(ended, kernel.tick + 1)
    BY <2>2, ExitSound
  <2> HIDE DEF ended
  <2>4. QED
    BY <2>1, <2>3
<1>3. Fates(kernel, kernel', {}, {MutexWaiters(m) : m \in Mutexes})
  BY <1>2 DEF Fates
<1>4. /\ kernel.owner \in [Mutexes -> Tasks \cup {NoTask}] /\ NoWait \notin WaitLists
  BY FieldTypes DEF KernelInv, Sound, Consistent
<1>5. ASSUME NEW m \in Mutexes, kernel.owner[m] # t PROVE CanRelease(kernel', m)
  <2> SUFFICES ASSUME kernel'.owner[m] # NoTask
               PROVE  /\ kernel'.state[kernel'.owner[m]] # "TERMINATED"
                      /\ kernel'.waitOn[kernel'.owner[m]] # MutexWaiters(m)
    BY DEF CanRelease
  <2> DEFINE o == kernel.owner[m]
  <2>1. kernel'.owner[m] = o /\ o # t /\ o \in Tasks
    BY <1>2, <1>4, <1>5
  <2>2. kernel.state[o] # "TERMINATED" /\ kernel.waitOn[o] # MutexWaiters(m)
    BY <2>1, <1>4 DEF KernelInv, CanRelease
  <2> HIDE DEF o
  <2>3. Kept(kernel, kernel', o) \/ \E n \in Mutexes : Ended(kernel, kernel', o, MutexWaiters(n), "OK")
    BY <1>2, <2>1
  <2>4. NoWait # MutexWaiters(m)
    BY <1>4, ListsDiffer
  <2>5. QED
    BY <2>1, <2>2, <2>3, <2>4 DEF Kept, Ended
<1>6. ASSUME NEW m \in Mutexes, NEW u \in Tasks, Ended(kernel, kernel', u, MutexWaiters(m), "OK")
      PROVE  kernel'.owner[m] = u
  <2>1. kernel.waitOn[u] = MutexWaiters(m) /\ kernel'.waitOn[u] = NoWait /\ MutexWaiters(m) # NoWait
    BY <1>4, <1>6, ListsDiffer DEF Ended
  <2>2. ~Kept(kernel, kernel', u) /\ ~Leaves(kernel, kernel', u)
    BY <1>6, <2>1 DEF Ended, Kept, Leaves
  <2>3. PICK n \in Mutexes : kernel'.owner[n] = u /\ Ended(kernel, kernel', u, MutexWaiters(n), "OK")
    BY <1>2, <2>2
  <2>4. n = m
    BY ZenonT(60), <2>1, <2>3, ListsDiffer DEF Ended
  <2>5. QED
    BY <2>3, <2>4
<1>7. OwnersMove(kernel, kernel')
  BY <1>2, <1>5, <1>6 DEF OwnersMove
<1>8. QED
  BY <1>1, <1>2, <1>3, <1>7 DEF Handled, KernelInv
-------------------------------------------------------------------------------
(* What one handler may do after another; statuses, waits and grants *)

\* What a handler has done is kept by a scheduling decision that follows.
LEMMA HandledThenSchedules ==
    ASSUME NEW k, NEW j, NEW r, NEW joined, NEW granted, Handled(k, j, joined, granted),
           Sound(r), OnlySchedules(j, r), ~r.started => r.current = NoTask
    PROVE  Handled(k, r, joined, granted)
<1>1. /\ \A u \in Tasks : Kept(k, j, u) => Kept(k, r, u)
      /\ \A u \in Tasks : \A l, status : Ended(k, j, u, l, status) => Ended(k, r, u, l, status)
      /\ \A first : Deadlines(j, first) => Deadlines(r, first)
  BY SchedulingKeeps
<1>2. \A u \in Tasks : TimedOut(k, j, u) => TimedOut(k, r, u)
  BY DEF OnlySchedules, TimedOut
<1>3. \A u \in Tasks : Leaves(k, j, u) => Leaves(k, r, u)
  BY DEF OnlySchedules, Leaves
<1>4. Fates(k, r, joined, granted)
  <2> SUFFICES ASSUME NEW u \in Tasks
               PROVE  \/ Kept(k, r, u)
                      \/ TimedOut(k, r, u)
                      \/ \E l \in granted : Ended(k, r, u, l, "OK")
                      \/ Leaves(k, r, u) /\ r.waitOn[u] \in {k.waitOn[u]} \cup joined
    BY DEF Fates
  <2>1. \/ Kept(k, j, u)
        \/ TimedOut(k, j, u)
        \/ \E l \in granted : Ended(k, j, u, l, "OK")
        \/ Leaves(k, j, u) /\ j.waitOn[u] \in {k.waitOn[u]} \cup joined
    BY DEF Handled, Fates
  <2>2. r.waitOn = j.waitOn
    BY DEF OnlySchedules
  <2>3. QED
    BY <1>1, <1>2, <1>3, <2>1, <2>2
<1>5. j.owner \in [Mutexes -> Tasks \cup {NoTask}]
  BY FieldTypes DEF Handled, Sound, Consistent
<1>6. \A m \in Mutexes : CanRelease(j, m) => CanRelease(r, m)
  <2> SUFFICES ASSUME NEW m \in Mutexes, CanRelease(j, m), r.owner[m] # NoTask
               PROVE  r.state[r.owner[m]] # "TERMINATED" /\ r.waitOn[r.owner[m]] # MutexWaiters(m)
    BY DEF CanRelease
  <2>1. r.owner[m] = j.owner[m] /\ j.owner[m] \in Tasks /\ r.waitOn = j.waitOn
    BY <1>5 DEF OnlySchedules
  <2>2. j.state[j.owner[m]] # "TERMINATED" /\ j.waitOn[j.owner[m]] # MutexWaiters(m)
    BY <2>1 DEF CanRelease
  <2>3. r.state[j.owner[m]] # "TERMINATED"
    BY <2>1, <2>2 DEF OnlySchedules
  <2>4. QED
    BY <2>1, <2>2, <2>3
<1>7. \A m \in Mutexes : PassedOn(k, j, m) => PassedOn(k, r, m)
  <2>1. r.waitOn = j.waitOn /\ r.owner = j.owner
    BY DEF OnlySchedules
  <2>2. QED
    BY <1>1, <2>1 DEF PassedOn
<1>8. \A m \in Mutexes, u \in Tasks : Ended(k, r, u, MutexWaiters(m), "OK") => r.owner[m] = u
  <2> SUFFICES ASSUME NEW m \in Mutexes, NEW u \in Tasks, Ended(k, r, u, MutexWaiters(m), "OK")
               PROVE  r.owner[m] = u
    OBVIOUS
  <2>1. Ended(k, j, u, MutexWaiters(m), "OK") /\ r.owner = j.owner
    BY DEF OnlySchedules, Ended
  <2>2. QED
    BY <2>1 DEF Handled, OwnersMove
<1>9. OwnersMove(k, r)
  <2> SUFFICES ASSUME NEW m \in Mutexes
               PROVE \/ r.owner[m] = k.owner[m] /\ CanRelease(r, m)
                     \/ k.owner[m] = NoTask /\ r.owner[m] # NoTask /\ CanRelease(r, m)
                     \/ PassedOn(k, r, m)
    BY <1>8 DEF OwnersMove
  <2>1. r.owner = j.owner
    BY DEF OnlySchedules
  <2>2. \/ j.owner[m] = k.owner[m] /\ CanRelease(j, m)
        \/ k.owner[m] = NoTask /\ j.owner[m] # NoTask /\ CanRelease(j, m)
        \/ PassedOn(k, j, m)
    BY DEF Handled, OwnersMove
  <2>3. QED
    BY <1>6, <1>7, <2>1, <2>2
<1>10. Deadlines(r, r.tick + 1)
  BY <1>1 DEF Handled, OnlySchedules
<1>11. QED
  BY <1>4, <1>9, <1>10 DEF Handled

\* ... and by writing the status of the task that called it.
LEMMA HandledThenStatus ==
    ASSUME NEW k, NEW j, NEW joined, NEW granted, Handled(k, j, joined, granted),
           NEW t \in Tasks, k.state[t] = "RUNNING", NEW status \in Statuses
    PROVE  LET r == SetResult(j, t, status) IN
           Handled(k, r, joined, granted) /\ r.current = j.current /\ r.started = j.started
<1> DEFINE r == SetResult(j, t, status)
<1>1. Sound(j) /\ Consistent(j, {}) /\ j.result \in [Tasks -> Statuses]
  BY FieldTypes DEF Handled, Sound, Consistent
<1>2. /\ Sound(r) /\ r.result = [j.result EXCEPT ![t] = status]
      /\ r.started = j.started /\ r.state = j.state /\ r.current = j.current
      /\ r.tick = j.tick /\ r.waitOn = j.waitOn /\ r.owner = j.owner
      /\ \A first : Deadlines(j, first) => Deadlines(r, first)
  BY <1>1, SetResultSound
<1> HIDE DEF r
<1>3. \A u \in Tasks : Kept(k, j, u) => Kept(k, r, u)
  BY <1>2 DEF Kept
<1>4. \A u \in Tasks : \A l : Ended(k, j, u, l, "OK") <=> Ended(k, r, u, l, "OK")
  BY <1>1, <1>2 DEF Ended
<1>5. \A u \in Tasks : TimedOut(k, j, u) => TimedOut(k, r, u)
  BY <1>1, <1>2 DEF TimedOut
<1>6. \A u \in Tasks : Leaves(k, j, u) => Leaves(k, r, u)
  BY <1>2 DEF Leaves
<1>7. Fates(k, r, joined, granted)
  <2> SUFFICES ASSUME NEW u \in Tasks
               PROVE  \/ Kept(k, r, u)
                      \/ TimedOut(k, r, u)
                      \/ \E l \in granted : Ended(k, r, u, l, "OK")
                      \/ Leaves(k, r, u) /\ r.waitOn[u] \in {k.waitOn[u]} \cup joined
    BY DEF Fates
  <2>1. \/ Kept(k, j, u)
        \/ TimedOut(k, j, u)
        \/ \E l \in granted : Ended(k, j, u, l, "OK")
        \/ Leaves(k, j, u) /\ j.waitOn[u] \in {k.waitOn[u]} \cup joined
    BY DEF Handled, Fates
  <2>2. QED
    BY <1>2, <1>3, <1>4, <1>5, <1>6, <2>1
<1>8. OwnersMove(k, r)
  <2>1. \A m \in Mutexes : CanRelease(j, m) => CanRelease(r, m)
    BY <1>2 DEF CanRelease
  <2>2. \A m \in Mutexes : PassedOn(k, j, m) => PassedOn(k, r, m)
    BY <1>2, <1>4 DEF PassedOn
  <2>3. OwnersMove(k, j)
    BY DEF Handled
  <2>4. QED
    BY <1>2, <1>4, <2>1, <2>2, <2>3 DEF OwnersMove
<1>9. QED
  BY <1>2, <1>7, <1>8 DEF Handled, r

\* Doing nothing is a way to handle a call.
LEMMA NothingHandled ==
    ASSUME NEW k, KernelInv(k)
    PROVE  Handled(k, k, {}, {})
<1>1. OnlySchedules(k, k) /\ Sound(k)
  BY DEF OnlySchedules, KernelInv
<1>2. k.started \/ k.current = NoTask
  BY DEF KernelInv
<1>3. QED
  BY <1>1, <1>2, SchedulingHandled

\* A call that only returns a status.
LEMMA StatusHandled ==
    ASSUME NEW k, KernelInv(k), CurrentRuns(k), NEW status \in Statuses
    PROVE  Handled(k, SetResult(k, k.current, status), {}, {})
<1>1. k.current \in Tasks /\ k.state[k.current] = "RUNNING"
  BY FieldTypes DEF KernelInv, Sound, Consistent, CurrentRuns
<1>2. QED
  BY <1>1, NothingHandled, HandledThenStatus

\* The running task starts to wait for an object that is not its own mutex.
LEMMA BlockHandled ==
    ASSUME NEW k, KernelInv(k), CurrentRuns(k), NEW l \in WaitLists,
           NEW timeout \in Ticks, timeout # 0,
           \A m \in Mutexes : l = MutexWaiters(m) => k.owner[m] # k.current
    PROVE  LET r == WaitBlockCurrent(k, l, timeout) IN
           Handled(k, r, {l}, {}) /\ r.started = k.started /\ r.owner = k.owner
<1> DEFINE r == WaitBlockCurrent(k, l, timeout)
           t == k.current
<1>1. /\ Sound(r) /\ Blocks(k, r, t, l)
      /\ Deadlines(k, k.tick + 1) => Deadlines(r, k.tick + 1)
  BY WaitBlockCurrentSound DEF KernelInv
<1>2. t \in Tasks /\ k.state[t] = "RUNNING" /\ k.waitOn \in [Tasks -> WaitLists \cup {NoWait}]
  BY FieldTypes DEF KernelInv, Sound, Consistent, CurrentRuns
<1>3. k.started
  BY DEF KernelInv, CurrentRuns
<1> HIDE DEF r
<1>4. \A u \in Tasks : u # t => Kept(k, r, u)
  BY <1>1, <1>2 DEF Blocks, Kept
<1>5. Leaves(k, r, t) /\ r.waitOn[t] = l
  BY <1>1, <1>2 DEF Blocks, Leaves
<1>6. Fates(k, r, {l}, {})
  BY <1>4, <1>5 DEF Fates
<1>7. r.owner = k.owner /\ \A u \in Tasks : r.state[u] = "TERMINATED" => k.state[u] = "TERMINATED"
  BY <1>1 DEF Blocks
<1>8. OwnersMove(k, r)
  BY <1>6, <1>7, OwnersStay
<1>9. QED
  BY <1>1, <1>3, <1>6, <1>8 DEF Handled, Blocks, KernelInv, r

\* A waiter taken off the list of an object that is not a mutex is given it.
LEMMA GrantHandled ==
    ASSUME NEW k, KernelInv(k), NEW v, NEW w, PoppedFrom(k, v, w), v.owner = k.owner,
           NEW l, k.waitOn[w] = l, \A m \in Mutexes : l # MutexWaiters(m)
    PROVE  LET r == WaitMakeReady(v, w, "OK") IN
           Handled(k, r, {}, {l}) /\ r.current = k.current /\ r.started = k.started
<1> DEFINE r == WaitMakeReady(v, w, "OK")
<1>1. /\ Sound(r) /\ Granted(k, r, w) /\ r.owner = v.owner /\ r.current = k.current
      /\ \A first \in Int : Deadlines(k, first) => Deadlines(r, first)
  BY GrantSound DEF KernelInv
<1>2. w \in Tasks /\ k.tick + 1 \in Int
  <2>1. k.tick \in Int
    BY FieldTypes, TicksAreNumbers DEF KernelInv, Sound, Consistent
  <2>2. QED
    BY <2>1 DEF PoppedFrom
<1> HIDE DEF r
<1>3. Fates(k, r, {}, {l})
  BY <1>1 DEF Granted, Fates
<1>4. \A u \in Tasks : r.state[u] = "TERMINATED" => k.state[u] = "TERMINATED"
  BY <1>1 DEF Granted, Kept, Ended
<1>5. OwnersMove(k, r)
  BY <1>1, <1>3, <1>4, OwnersStay
<1>6. Deadlines(r, r.tick + 1)
  BY <1>1, <1>2 DEF Granted, KernelInv
<1>7. QED
  BY <1>1, <1>3, <1>5, <1>6 DEF Handled, Granted, KernelInv, r
-------------------------------------------------------------------------------
(* os_mutex.c *)

\* What can be had has nobody waiting for it, semaphores and queues.
Supplies ==
    /\ \A s \in Semaphores : semCount[s] > 0 => NobodyWaits(kernel, SemWaiters(s))
    /\ \A q \in Queues :
          /\ ring[q].count > 0 => NobodyWaits(kernel, ReceiveWaiters(q))
          /\ ring[q].count < Capacity[q] => NobodyWaits(kernel, SendWaiters(q))

\* What a step leaves whose handler lets nobody wait on other lists than `lists' and
\* grants the objects of `granted'.
Stepped(lists, granted) ==
    /\ \E joined \in SUBSET lists : Handled(kernel, kernel', joined, granted)
    /\ KernelInv(kernel') /\ Supplies'

\* A handler that leaves the semaphores and queues alone.
LEMMA KernelOnlyStep ==
    ASSUME KernelInv(kernel), Supplies, UNCHANGED <<semCount, ring, buffer>>,
           NEW lists, NEW granted, Handled(kernel, kernel', {}, granted)
    PROVE  Stepped(lists, granted)
<1>1. KernelInv(kernel')
  BY HandledKeeps
<1>2. \A l \in WaitLists : NobodyWaits(kernel, l) => NobodyWaits(kernel', l)
  BY QuietLists DEF Handled
<1>3. Supplies'
  BY <1>2, ListsDiffer DEF Supplies
<1>4. QED
  BY <1>1, <1>3 DEF Stepped

\* A handler that blocks its caller on a list of an object that has nothing to give.
LEMMA BlockStep ==
    ASSUME KernelInv(kernel), Supplies, UNCHANGED <<semCount, ring>>,
           NEW l \in WaitLists, Handled(kernel, kernel', {l}, {}),
           \A m \in Mutexes : l # MutexWaiters(m),
           \A s \in Semaphores : l = SemWaiters(s) => ~(semCount[s] > 0),
           \A q \in Queues : /\ l = ReceiveWaiters(q) => ~(ring[q].count > 0)
                             /\ l = SendWaiters(q) => ~(ring[q].count < Capacity[q])
    PROVE  Stepped({l}, {})
<1>1. KernelInv(kernel')
  BY HandledKeeps
<1>2. \A h \in WaitLists : h # l /\ NobodyWaits(kernel, h) => NobodyWaits(kernel', h)
  BY QuietLists DEF Handled
<1>3. Supplies'
  BY <1>2, ListsDiffer DEF Supplies
<1>4. QED
  BY <1>1, <1>3 DEF Stepped

\* os_MutexLockCurrent.
LEMMA MutexLockStep ==
    ASSUME KernelInv(kernel), Supplies, UNCHANGED <<semCount, ring, buffer>>,
           NEW m \in Mutexes, NEW timeout \in Ticks, MutexLock(m, timeout)
    PROVE  Stepped({MutexWaiters(m)}, {})
<1> DEFINE t == kernel.current
           o == kernel.owner[m]
<1>1. CurrentRuns(kernel) /\ kernel.started /\ Sound(kernel) /\ Consistent(kernel, {})
  BY DEF MutexLock, KernelInv, CurrentRuns, Sound
<1>2. /\ t \in Tasks /\ kernel.state[t] = "RUNNING" /\ kernel \in Kernel /\ kernel \in GoodKernel
      /\ kernel.owner \in [Mutexes -> Tasks \cup {NoTask}]
      /\ kernel.waitOn \in [Tasks -> WaitLists \cup {NoWait}] /\ NoWait \notin WaitLists
  BY <1>1, FieldTypes DEF CurrentRuns, Consistent, GoodKernel
<1>3. "OK" \in Statuses /\ "BAD_STATE" \in Statuses /\ "TIMEOUT" \in Statuses
  BY DEF Statuses
<1>4. CASE o = NoTask /\ kernel' = SetResult([kernel EXCEPT !.owner[m] = t], t, "OK")
  <2> DEFINE j == [kernel EXCEPT !.owner[m] = t]
  <2>1. /\ j.owner = [kernel.owner EXCEPT ![m] = t]
        /\ j.started = kernel.started /\ j.state = kernel.state /\ j.current = kernel.current
        /\ j.tick = kernel.tick /\ j.delayed = kernel.delayed /\ j.overflow = kernel.overflow
        /\ j.wake = kernel.wake /\ j.waitOn = kernel.waitOn /\ j.effective = kernel.effective
        /\ j.ready = kernel.ready /\ j.waiters = kernel.waiters
    BY <1>2 DEF Kernel
  <2>2. j \in GoodKernel
    BY <1>2 DEF GoodKernel, Kernel
  <2> HIDE DEF j
  <2>3. Sound(j)
    BY <1>1, <2>1, <2>2, FreeChange
  <2>4. Fates(kernel, j, {}, {})
    BY <2>1 DEF Fates, Kept
  <2>5. kernel.waitOn[t] = NoWait
    BY <1>1, <1>2 DEF Consistent, StatesAgree
  <2>6. CanRelease(j, m)
    BY <1>2, <2>1, <2>5, ListsDiffer DEF CanRelease
  <2>7. \A n \in Mutexes : n # m => j.owner[n] = kernel.owner[n] /\ CanRelease(j, n)
    BY <1>2, <2>1 DEF KernelInv, CanRelease
  <2>8. \A n \in Mutexes, u \in Tasks : ~Ended(kernel, j, u, MutexWaiters(n), "OK")
    BY <1>2, <2>1, ListsDiffer DEF Ended
  <2>9. j.owner[m] = t /\ t # NoTask
    BY <1>1, <1>2, <2>1 DEF CurrentRuns
  <2>10. OwnersMove(kernel, j)
    BY <1>4, <2>6, <2>7, <2>8, <2>9 DEF OwnersMove
  <2>11. Deadlines(j, j.tick + 1)
    BY <2>1 DEF KernelInv, Deadlines
  <2>12. Handled(kernel, j, {}, {})
    BY <1>1, <2>1, <2>3, <2>4, <2>10, <2>11 DEF Handled
  <2>13. Handled(kernel, kernel', {}, {})
    BY <1>2, <1>3, <1>4, <2>12, HandledThenStatus DEF j
  <2>14. QED
    BY <2>13, KernelOnlyStep
<1>5. CASE \/ kernel' = SetResult(kernel, t, "BAD_STATE")
           \/ kernel' = SetResult(kernel, t, "TIMEOUT")
  <2>1. Handled(kernel, kernel', {}, {})
    BY <1>1, <1>3, <1>5, StatusHandled
  <2>2. QED
    BY <2>1, KernelOnlyStep
<1>6. ASSUME o \notin {NoTask, t}, timeout # 0,
             LET k == MutexWaitersChanged(WaitBlockCurrent(kernel, MutexWaiters(m), timeout))
             IN kernel' = IF /\ k.current # NoTask
                             /\ k.effective[o] > k.effective[k.current]
                          THEN SchedSchedule(k, FALSE)
                          ELSE k
      PROVE  Stepped({MutexWaiters(m)}, {})
  <2> DEFINE l == MutexWaiters(m)
             j == WaitBlockCurrent(kernel, l, timeout)
             k == MutexWaitersChanged(j)
  <2>1. l \in WaitLists
    BY ListsDiffer
  <2>2. \A n \in Mutexes : l = MutexWaiters(n) => kernel.owner[n] # kernel.current
    <3>1. \A n \in Mutexes : l = MutexWaiters(n) => n = m
      BY ListsDiffer
    <3>2. QED
      BY <1>6, <3>1
  <2> HIDE DEF l
  <2>3. Handled(kernel, j, {l}, {}) /\ j.started = kernel.started
    BY <1>1, <1>6, <2>1, <2>2, BlockHandled
  <2> HIDE DEF j
  <2>4. Sound(j) /\ Consistent(j, {})
    BY <2>3 DEF Handled, Sound
  <2>5. Consistent(k, {}) /\ SameTasks(j, k)
    BY <2>4, MutexWaitersChangedExact
  <2> HIDE DEF k
  <2>6. Sound(k) /\ OnlySchedules(j, k)
    BY <2>4, <2>5 DEF Sound, SameTasks, OnlySchedules
  <2>7. k.started
    BY <1>1, <2>3, <2>6 DEF OnlySchedules
  <2>8. Handled(kernel, k, {l}, {})
    BY <2>3, <2>6, <2>7, HandledThenSchedules
  <2> DEFINE r == SchedSchedule(k, FALSE)
  <2>9. Sound(r) /\ OnlySchedules(k, r)
    BY <2>6, SchedScheduleSound
  <2>10. kernel' = r \/ kernel' = k
    BY <1>6 DEF k, j, l
  <2> HIDE DEF r
  <2>11. Handled(kernel, r, {l}, {})
    BY <2>7, <2>8, <2>9, HandledThenSchedules DEF OnlySchedules
  <2>12. Handled(kernel, kernel', {l}, {})
    BY <2>8, <2>10, <2>11
  <2>13. \A n \in Mutexes : MutexWaiters(n) \in {l} => kernel.owner[n] # NoTask
    <3>1. \A n \in Mutexes : MutexWaiters(n) = l => n = m
      BY ListsDiffer DEF l
    <3>2. QED
      BY <1>6, <3>1
  <2>14. KernelInv(kernel')
    BY <2>12, <2>13, HandledKeeps
  <2>15. \A h \in WaitLists : h # l /\ NobodyWaits(kernel, h) => NobodyWaits(kernel', h)
    BY <2>12, QuietLists DEF Handled
  <2>16. Supplies'
    BY <2>15, ListsDiffer DEF Supplies, l
  <2>17. {l} \in SUBSET {MutexWaiters(m)}
    BY DEF l
  <2>18. QED
    BY <2>12, <2>14, <2>16, <2>17 DEF Stepped
<1>7. QED
  BY <1>4, <1>5, <1>6 DEF MutexLock

\* The kernel of os_MutexUnlockCurrent once the mutex has its next owner, and
\* once the priorities have followed; that owner is not ready yet.
MutexPassed(k, m, t) ==
    LET l == MutexWaiters(m) IN
    SetResult([WaitPop(k, l) EXCEPT !.owner[m] = WaitHead(k, l)], t, "OK")
MutexGiven(k, m, t) == MutexWaitersChanged(MutexPassed(k, m, t))

\* Only the first waiter is on the move then.
LEMMA MutexPassedSound ==
    ASSUME NEW k, Consistent(k, {}), NEW m \in Mutexes, NEW t \in Tasks
    PROVE  LET l == MutexWaiters(m)
               w == WaitHead(k, l)
               v == MutexPassed(k, m, t)
           IN /\ Consistent(v, IF w = NoTask THEN {} ELSE {w}) /\ w \in Tasks \cup {NoTask}
              /\ v.started = k.started /\ v.state = k.state /\ v.current = k.current
              /\ v.tick = k.tick /\ v.delayed = k.delayed /\ v.overflow = k.overflow
              /\ v.wake = k.wake /\ v.waitOn = k.waitOn
              /\ v.owner = [k.owner EXCEPT ![m] = w]
              /\ v.effective = k.effective /\ v.nesting = k.nesting
              /\ w # NoTask => k.waitOn[w] = l /\ k.state[w] = "BLOCKED_OBJECT"
              /\ w = NoTask => NobodyWaits(k, l)
<1> DEFINE l == MutexWaiters(m)
           w == WaitHead(k, l)
           popped == WaitPop(k, l)
           given == [popped EXCEPT !.owner[m] = w]
           told == SetResult(given, t, "OK")
           loose == IF w = NoTask THEN {} ELSE {w}
<1>1. l \in WaitLists
  BY ListsDiffer
<1>2. /\ SameTasks(k, popped) /\ popped.effective = k.effective
      /\ w = NoTask => popped = k /\ NobodyWaits(k, l)
      /\ w # NoTask => /\ w \in Tasks /\ k.waitOn[w] = l
                       /\ k.state[w] = "BLOCKED_OBJECT" /\ Consistent(popped, {w})
  BY <1>1, WaitPopExact DEF NobodyWaits
<1>3. w \in Tasks \cup {NoTask} /\ Consistent(popped, loose)
  BY <1>2
<1>4. popped \in GoodKernel /\ popped \in Kernel
  BY <1>3 DEF Consistent, GoodKernel
<1>5. popped.nesting = k.nesting
  BY DEF WaitPop, Consistent, GoodKernel, Kernel
<1> HIDE DEF loose, l, w, popped
<1>6. given \in GoodKernel
  BY <1>3, <1>4 DEF GoodKernel, Kernel
<1>7. /\ given.owner = [popped.owner EXCEPT ![m] = w]
      /\ given.started = popped.started /\ given.state = popped.state
      /\ given.current = popped.current /\ given.tick = popped.tick
      /\ given.delayed = popped.delayed /\ given.overflow = popped.overflow
      /\ given.wake = popped.wake /\ given.waitOn = popped.waitOn
      /\ given.ready = popped.ready /\ given.waiters = popped.waiters
      /\ given.effective = popped.effective /\ given.nesting = popped.nesting
  BY <1>4 DEF Kernel
<1> HIDE DEF given
<1>8. Consistent(given, loose)
  BY <1>3, <1>6, <1>7, FreeChange
<1>9. /\ Consistent(told, loose)
      /\ told.started = given.started /\ told.state = given.state /\ told.current = given.current
      /\ told.tick = given.tick /\ told.delayed = given.delayed /\ told.overflow = given.overflow
      /\ told.wake = given.wake /\ told.waitOn = given.waitOn /\ told.owner = given.owner
      /\ told.effective = given.effective /\ told.nesting = given.nesting
  <2>1. "OK" \in Statuses
    BY DEF Statuses
  <2>2. Consistent(told, loose)
    BY <1>8, <2>1, SetResultSound
  <2>3. given \in Kernel
    BY <1>6 DEF GoodKernel
  <2>4. QED
    BY <2>2, <2>3 DEF SetResult, Kernel
<1> HIDE DEF told
<1>10. QED
  BY <1>2, <1>3, <1>5, <1>7, <1>9 DEF MutexPassed, SameTasks, loose, told, given, popped, w, l

\* ... nor does a change of priority move anyone else.
LEMMA MutexGivenSound ==
    ASSUME NEW k, Consistent(k, {}), NEW m \in Mutexes, NEW t \in Tasks
    PROVE  LET l == MutexWaiters(m)
               w == WaitHead(k, l)
               v == MutexGiven(k, m, t)
           IN /\ Consistent(v, IF w = NoTask THEN {} ELSE {w}) /\ w \in Tasks \cup {NoTask}
              /\ v.started = k.started /\ v.state = k.state /\ v.current = k.current
              /\ v.tick = k.tick /\ v.delayed = k.delayed /\ v.overflow = k.overflow
              /\ v.wake = k.wake /\ v.waitOn = k.waitOn
              /\ v.owner = [k.owner EXCEPT ![m] = w]
              /\ w # NoTask => k.waitOn[w] = l /\ k.state[w] = "BLOCKED_OBJECT"
              /\ w = NoTask => NobodyWaits(k, l)
<1> DEFINE l == MutexWaiters(m)
           w == WaitHead(k, l)
           passed == MutexPassed(k, m, t)
           v == MutexWaitersChanged(passed)
           loose == IF w = NoTask THEN {} ELSE {w}
<1>1. /\ Consistent(passed, loose) /\ w \in Tasks \cup {NoTask}
      /\ passed.started = k.started /\ passed.state = k.state /\ passed.current = k.current
      /\ passed.tick = k.tick /\ passed.delayed = k.delayed /\ passed.overflow = k.overflow
      /\ passed.wake = k.wake /\ passed.waitOn = k.waitOn
      /\ passed.owner = [k.owner EXCEPT ![m] = w]
      /\ passed.effective = k.effective /\ passed.nesting = k.nesting
      /\ w # NoTask => k.waitOn[w] = l /\ k.state[w] = "BLOCKED_OBJECT"
      /\ w = NoTask => NobodyWaits(k, l)
  BY MutexPassedSound
<1> HIDE DEF loose, l, w, passed
<1>2. Consistent(v, loose) /\ SameTasks(passed, v)
  BY <1>1, MutexWaitersChangedExact
<1> HIDE DEF v
<1>3. QED
  BY <1>1, <1>2 DEF MutexGiven, SameTasks, loose, v, passed, w, l

\* os_MutexUnlockCurrent.
LEMMA MutexUnlockStep ==
    ASSUME KernelInv(kernel), Supplies, UNCHANGED <<semCount, ring, buffer>>,
           NEW m \in Mutexes, MutexUnlock(m)
    PROVE  Stepped({}, {MutexWaiters(m)})
<1> DEFINE t == kernel.current
           l == MutexWaiters(m)
           w == WaitHead(kernel, l)
           v == MutexGiven(kernel, m, t)
           r == WaitMakeReady(v, w, "OK")
<1>1. CurrentRuns(kernel) /\ kernel.started /\ Sound(kernel) /\ Consistent(kernel, {})
  BY DEF MutexUnlock, KernelInv, CurrentRuns, Sound
<1>2. /\ t \in Tasks /\ kernel.state[t] = "RUNNING" /\ l \in WaitLists
      /\ kernel.owner \in [Mutexes -> Tasks \cup {NoTask}]
      /\ kernel.waitOn \in [Tasks -> WaitLists \cup {NoWait}] /\ NoWait \notin WaitLists
      /\ NoTask \notin Tasks /\ kernel.tick \in Ticks
  BY <1>1, FieldTypes, ListsDiffer DEF CurrentRuns, Consistent
<1>3. "OK" \in Statuses /\ "NOT_OWNER" \in Statuses
  BY DEF Statuses
<1>4. CASE kernel' = SetResult(kernel, t, "NOT_OWNER")
  <2>1. Handled(kernel, kernel', {}, {})
    BY <1>1, <1>3, <1>4, StatusHandled
  <2>2. Handled(kernel, kernel', {}, {MutexWaiters(m)})
    BY <2>1 DEF Handled, Fates
  <2>3. QED
    BY <2>2, KernelOnlyStep
<1>5. /\ Consistent(v, IF w = NoTask THEN {} ELSE {w}) /\ w \in Tasks \cup {NoTask}
      /\ v.started = kernel.started /\ v.state = kernel.state /\ v.current = kernel.current
      /\ v.tick = kernel.tick /\ v.delayed = kernel.delayed /\ v.overflow = kernel.overflow
      /\ v.wake = kernel.wake /\ v.waitOn = kernel.waitOn
      /\ v.owner = [kernel.owner EXCEPT ![m] = w]
      /\ w # NoTask => kernel.waitOn[w] = l /\ kernel.state[w] = "BLOCKED_OBJECT"
      /\ w = NoTask => NobodyWaits(kernel, l)
  BY <1>1, <1>2, MutexGivenSound
<1> HIDE DEF l, w, v
<1>6. ASSUME kernel.owner[m] = t, NEW j, Fates(kernel, j, {}, {l}), j.owner = v.owner,
             PassedOn(kernel, j, m),
             \A u \in Tasks : j.state[u] = "TERMINATED" => kernel.state[u] = "TERMINATED",
             \A u \in Tasks : j.waitOn[u] \in {kernel.waitOn[u], NoWait},
             \A u \in Tasks : kernel.waitOn[u] = l /\ j.waitOn[u] = NoWait => j.owner[m] = u
      PROVE  OwnersMove(kernel, j)
  <2>1. ASSUME NEW n \in Mutexes, n # m
        PROVE  j.owner[n] = kernel.owner[n] /\ CanRelease(j, n)
    <3>1. j.owner[n] = kernel.owner[n]
      BY <1>2, <1>5, <1>6, <2>1
    <3>2. CanRelease(kernel, n) /\ NoWait # MutexWaiters(n)
      BY <1>2, ListsDiffer DEF KernelInv
    <3>3. QED
      BY <1>2, <1>6, <3>1, <3>2 DEF CanRelease
  <2>2. ASSUME NEW n \in Mutexes, NEW u \in Tasks, Ended(kernel, j, u, MutexWaiters(n), "OK")
        PROVE  j.owner[n] = u
    <3>1. kernel.waitOn[u] = MutexWaiters(n) /\ j.waitOn[u] = NoWait /\ MutexWaiters(n) # NoWait
      BY <1>2, <2>2, ListsDiffer DEF Ended
    <3>2. kernel.state[u] = "BLOCKED_OBJECT" /\ j.state[u] \in {"READY", "RUNNING"}
          /\ j.result[u] = "OK"
      BY <2>2 DEF Ended
    <3>3. ~Kept(kernel, j, u) /\ ~TimedOut(kernel, j, u) /\ ~Leaves(kernel, j, u)
      BY <3>1, <3>2 DEF Kept, TimedOut, Leaves
    <3>4. kernel.waitOn[u] = l
      BY <1>6, <3>3 DEF Fates, Ended
    <3>5. n = m
      BY <3>1, <3>4, ListsDiffer DEF l
    <3>6. QED
      BY <1>6, <3>1, <3>4, <3>5
  <2>3. QED
    BY <1>6, <2>1, <2>2 DEF OwnersMove
<1>7. ASSUME kernel.owner[m] = t, w = NoTask, kernel' = v PROVE Stepped({}, {l})
  <2>1. Consistent(v, {}) /\ NobodyWaits(kernel, l)
    BY <1>5, <1>7
  <2>2. Sound(v)
    BY <1>1, <1>5, <1>7, <2>1 DEF Sound
  <2>3. Fates(kernel, v, {}, {l})
    BY <1>5, <1>7 DEF Fates, Kept
  <2>4. PassedOn(kernel, v, m)
    BY <1>2, <1>5, <1>7, <2>1 DEF PassedOn, NobodyWaits, l
  <2>5. OwnersMove(kernel, v)
    BY <1>2, <1>5, <1>6, <1>7, <2>1, <2>3, <2>4 DEF NobodyWaits
  <2>6. Deadlines(v, v.tick + 1)
    BY <1>5, <1>7 DEF KernelInv, Deadlines
  <2>7. Handled(kernel, kernel', {}, {l})
    BY <1>1, <1>5, <1>7, <2>2, <2>3, <2>5, <2>6 DEF Handled
  <2>8. QED
    BY <2>7, KernelOnlyStep
<1>8. ASSUME kernel.owner[m] = t, w # NoTask, kernel' = WaitMaybePreempt(r, w) PROVE Stepped({}, {l})
  <2>1. PoppedFrom(kernel, v, w) /\ kernel.waitOn[w] = l /\ w \in Tasks
    BY <1>5, <1>8 DEF PoppedFrom
  <2>2. /\ Sound(r) /\ Granted(kernel, r, w) /\ r.owner = v.owner /\ r.current = kernel.current
        /\ \A first \in Int : Deadlines(kernel, first) => Deadlines(r, first)
    BY <1>1, <2>1, GrantSound
  <2> HIDE DEF r
  <2>3. Ended(kernel, r, w, l, "OK") /\ \A u \in Tasks : u # w => Kept(kernel, r, u)
    BY <2>1, <2>2 DEF Granted
  <2>4. Fates(kernel, r, {}, {l})
    BY <2>3 DEF Fates
  <2>5. r.owner[m] = w
    BY <1>2, <1>5, <1>8, <2>2
  <2>6. PassedOn(kernel, r, m)
    BY <2>1, <2>3, <2>5 DEF PassedOn, l
  <2>7. \A u \in Tasks : r.state[u] = "TERMINATED" => kernel.state[u] = "TERMINATED"
    BY <2>3 DEF Kept, Ended
  <2>8. /\ \A u \in Tasks : r.waitOn[u] \in {kernel.waitOn[u], NoWait}
        /\ \A u \in Tasks : kernel.waitOn[u] = l /\ r.waitOn[u] = NoWait => r.owner[m] = u
    BY <1>2, <2>3, <2>5 DEF Kept, Ended
  <2>9. OwnersMove(kernel, r)
    BY <1>6, <1>8, <2>2, <2>4, <2>6, <2>7, <2>8
  <2>10. Deadlines(r, r.tick + 1)
    <3>1. kernel.tick \in Int
      BY <1>2, TicksAreNumbers
    <3>2. kernel.tick + 1 \in Int
      BY <3>1
    <3>3. QED
      BY <2>2, <3>2 DEF KernelInv, Granted
  <2>11. Handled(kernel, r, {}, {l}) /\ r.started
    BY <1>1, <2>2, <2>4, <2>9, <2>10 DEF Handled, Granted
  <2>12. Sound(kernel') /\ OnlySchedules(r, kernel')
    BY <1>8, <2>2, WaitMaybePreemptSound
  <2>13. Handled(kernel, kernel', {}, {l})
    BY <2>11, <2>12, HandledThenSchedules DEF OnlySchedules
  <2>14. QED
    BY <2>13, KernelOnlyStep
<1>9. QED
  BY <1>4, <1>7, <1>8 DEF MutexUnlock, MutexGiven, MutexPassed, l, w, v
-------------------------------------------------------------------------------
(* os_sem.c *)

\* What the steps below know of the calling task.
LEMMA Caller ==
    ASSUME KernelInv(kernel), CurrentRuns(kernel)
    PROVE  /\ kernel.started /\ Sound(kernel) /\ Consistent(kernel, {})
           /\ kernel.current \in Tasks /\ kernel.state[kernel.current] = "RUNNING"
           /\ {"OK", "TIMEOUT", "LIMIT_REACHED"} \subseteq Statuses
<1>1. kernel.started /\ Sound(kernel) /\ Consistent(kernel, {})
  BY DEF KernelInv, CurrentRuns, Sound
<1>2. QED
  BY <1>1, FieldTypes DEF CurrentRuns, Consistent, Statuses

\* A step that wakes the first waiter of an object and adds nothing to it.
LEMMA GrantStep ==
    ASSUME KernelInv(kernel), Supplies, NEW lists, NEW l \in WaitLists,
           \A m \in Mutexes : l # MutexWaiters(m),
           Handled(kernel, kernel', {}, {l}), semCount' = semCount,
           \A q \in Queues : ring'[q].count = ring[q].count
    PROVE  Stepped(lists, {l})
<1>1. KernelInv(kernel')
  BY HandledKeeps
<1>2. \A h \in WaitLists : NobodyWaits(kernel, h) => NobodyWaits(kernel', h)
  BY QuietLists DEF Handled
<1>3. Supplies'
  BY <1>2, ListsDiffer DEF Supplies
<1>4. QED
  BY <1>1, <1>3 DEF Stepped

\* os_SemTakeCurrent.
LEMMA SemTakeStep ==
    ASSUME KernelInv(kernel), Supplies, UNCHANGED queueVars, semCount \in [Semaphores -> Nat],
           NEW s \in Semaphores, NEW timeout \in Ticks, SemTake(s, timeout)
    PROVE  Stepped({SemWaiters(s)}, {})
<1> DEFINE t == kernel.current
           l == SemWaiters(s)
<1>1. CurrentRuns(kernel) /\ {"OK", "TIMEOUT", "LIMIT_REACHED"} \subseteq Statuses
  BY Caller DEF SemTake
<1>2. UNCHANGED <<ring, buffer>>
  BY DEF queueVars
<1>3. CASE semCount[s] > 0 /\ semCount' = [semCount EXCEPT ![s] = @ - 1]
           /\ kernel' = SetResult(kernel, t, "OK")
  <2>1. Handled(kernel, kernel', {}, {})
    BY <1>1, <1>3, StatusHandled
  <2>2. KernelInv(kernel')
    BY <2>1, HandledKeeps
  <2>3. \A h \in WaitLists : NobodyWaits(kernel, h) => NobodyWaits(kernel', h)
    BY <2>1, QuietLists DEF Handled
  <2>4. \A z \in Semaphores : semCount'[z] > 0 => semCount[z] > 0
    BY <1>3
  <2>5. Supplies'
    BY <1>2, <2>3, <2>4, ListsDiffer DEF Supplies
  <2>6. QED
    BY <2>1, <2>2, <2>5 DEF Stepped
<1>4. CASE kernel' = SetResult(kernel, t, "TIMEOUT") /\ UNCHANGED semCount
  <2>1. Handled(kernel, kernel', {}, {})
    BY <1>1, <1>4, StatusHandled
  <2>2. QED
    BY <1>2, <1>4, <2>1, KernelOnlyStep
<1>5. CASE semCount[s] = 0 /\ timeout # 0 /\ UNCHANGED semCount
           /\ kernel' = WaitBlockCurrent(kernel, l, timeout)
  <2>1. l \in WaitLists /\ \A m \in Mutexes : l # MutexWaiters(m)
    BY ListsDiffer
  <2>2. Handled(kernel, kernel', {l}, {})
    BY <1>1, <1>5, <2>1, BlockHandled
  <2>3. /\ \A z \in Semaphores : l = SemWaiters(z) => ~(semCount[z] > 0)
        /\ \A q \in Queues : l # ReceiveWaiters(q) /\ l # SendWaiters(q)
    BY <1>5, ListsDiffer
  <2> HIDE DEF l
  <2>4. Stepped({l}, {})
    BY <1>2, <1>5, <2>1, <2>2, <2>3, BlockStep
  <2>5. QED
    BY <2>4 DEF l
<1>6. QED
  BY <1>3, <1>4, <1>5 DEF SemTake

\* What giving a semaphore to a kernel in a critical section or not comes to.
LEMMA GiveOutcomeSound ==
    ASSUME NEW k, KernelInv(k), NEW s \in Semaphores
    PROVE  LET l == SemWaiters(s)
               w == WaitHead(k, l)
               give == GiveOutcome(k, s)
           IN /\ give.woken = w /\ give.status \in Statuses
              /\ w = NoTask => give.k = k /\ NobodyWaits(k, l)
              /\ w # NoTask => /\ give.count = semCount[s] /\ give.status = "OK"
                               /\ Handled(k, give.k, {}, {l}) /\ ~NobodyWaits(k, l)
                               /\ give.k.current = k.current /\ give.k.started = k.started
<1> DEFINE l == SemWaiters(s)
           w == WaitHead(k, l)
           give == GiveOutcome(k, s)
<1>1. l \in WaitLists /\ (\A m \in Mutexes : l # MutexWaiters(m)) /\ Consistent(k, {})
  BY ListsDiffer DEF KernelInv, Sound
<1>2. CASE w = NoTask
  <2>1. give.woken = w /\ give.k = k /\ give.status \in Statuses
    BY <1>2 DEF GiveOutcome, Statuses
  <2>2. NobodyWaits(k, l)
    BY <1>1, <1>2, WaitPopExact DEF NobodyWaits
  <2>3. QED
    BY <1>2, <2>1, <2>2
<1>3. CASE w # NoTask
  <2> DEFINE v == WaitPop(k, l)
  <2>1. /\ give.woken = w /\ give.k = WaitMakeReady(v, w, "OK")
        /\ give.status = "OK" /\ give.count = semCount[s] /\ "OK" \in Statuses
    BY <1>3 DEF GiveOutcome, Statuses
  <2>2. PoppedFrom(k, v, w) /\ k.waitOn[w] = l /\ w \in Tasks /\ v.owner = k.owner
    BY <1>1, <1>3, PoppedHead
  <2>3. ~NobodyWaits(k, l)
    BY <2>2 DEF NobodyWaits
  <2> HIDE DEF l, w, v
  <2>4. /\ Handled(k, WaitMakeReady(v, w, "OK"), {}, {l})
        /\ WaitMakeReady(v, w, "OK").current = k.current
        /\ WaitMakeReady(v, w, "OK").started = k.started
    BY <1>1, <2>2, GrantHandled
  <2>5. QED
    BY <1>3, <2>1, <2>3, <2>4 DEF l, w
<1>4. QED
  BY <1>2, <1>3

\* Counting a permit: nobody waits for it, so nobody misses it.
LEMMA CountStep ==
    ASSUME KernelInv(kernel), Supplies, UNCHANGED queueVars, NEW s \in Semaphores,
           NobodyWaits(kernel, SemWaiters(s)),
           \A z \in Semaphores : z # s => semCount'[z] = semCount[z],
           Handled(kernel, kernel', {}, {})
    PROVE  Stepped({}, {})
<1>1. KernelInv(kernel')
  BY HandledKeeps
<1>2. \A h \in WaitLists : NobodyWaits(kernel, h) => NobodyWaits(kernel', h)
  BY QuietLists DEF Handled
<1>3. \A z \in Semaphores : semCount'[z] > 0 => NobodyWaits(kernel', SemWaiters(z))
  <2> SUFFICES ASSUME NEW z \in Semaphores, semCount'[z] > 0
               PROVE  NobodyWaits(kernel, SemWaiters(z))
    BY <1>2, ListsDiffer
  <2>1. QED
    BY DEF Supplies
<1>4. UNCHANGED ring
  BY DEF queueVars
<1>5. Supplies'
  BY <1>2, <1>3, <1>4, ListsDiffer DEF Supplies
<1>6. QED
  BY <1>1, <1>5 DEF Stepped

\* What the two ways to give a semaphore leave: a waiter is granted the permit
\* and the count stays 0, or nobody is.
SemGranted(s) ==
    \/ Stepped({}, {})
    \/ Stepped({}, {SemWaiters(s)}) /\ semCount'[s] = semCount[s] /\ ~(semCount[s] > 0)

\* os_SemGiveCurrent.
LEMMA SemGiveStep ==
    ASSUME KernelInv(kernel), Supplies, UNCHANGED queueVars, semCount \in [Semaphores -> Nat],
           NEW s \in Semaphores, SemGive(s)
    PROVE  SemGranted(s)
<1> DEFINE t == kernel.current
           l == SemWaiters(s)
           w == WaitHead(kernel, l)
           give == GiveOutcome(kernel, s)
           k == SetResult(give.k, t, give.status)
<1>1. CurrentRuns(kernel)
  BY DEF SemGive
<1>2. kernel.started /\ t \in Tasks /\ kernel.state[t] = "RUNNING"
  BY <1>1, Caller
<1>3. /\ give.woken = w /\ give.status \in Statuses
      /\ w = NoTask => give.k = kernel /\ NobodyWaits(kernel, l)
      /\ w # NoTask => /\ give.count = semCount[s] /\ give.status = "OK"
                       /\ Handled(kernel, give.k, {}, {l}) /\ ~NobodyWaits(kernel, l)
                       /\ give.k.current = kernel.current /\ give.k.started = kernel.started
  BY GiveOutcomeSound
<1>4. /\ semCount' = [semCount EXCEPT ![s] = give.count]
      /\ kernel' = IF give.woken = NoTask THEN k ELSE WaitMaybePreempt(k, give.woken)
  BY DEF SemGive
<1>5. l \in WaitLists /\ \A m \in Mutexes : l # MutexWaiters(m)
  BY ListsDiffer
<1> HIDE DEF l, w, give
<1>6. CASE w = NoTask
  <2>1. kernel' = SetResult(kernel, t, give.status)
    BY <1>3, <1>4, <1>6
  <2>2. Handled(kernel, kernel', {}, {})
    BY <1>1, <1>3, <2>1, StatusHandled
  <2>3. \A z \in Semaphores : z # s => semCount'[z] = semCount[z]
    BY <1>4
  <2>4. QED
    BY <1>3, <1>6, <2>2, <2>3, CountStep DEF SemGranted, l
<1>7. CASE w # NoTask
  <2>1. Handled(kernel, k, {}, {l}) /\ k.started
    BY ZenonT(60), <1>2, <1>3, <1>7, HandledThenStatus
  <2> DEFINE r == WaitMaybePreempt(k, w)
  <2> HIDE DEF k
  <2>2. Sound(r) /\ OnlySchedules(k, r)
    BY <2>1, WaitMaybePreemptSound DEF Handled
  <2>3. kernel' = r
    BY <1>3, <1>4, <1>7
  <2> HIDE DEF r
  <2>4. Handled(kernel, kernel', {}, {l})
    BY <2>1, <2>2, <2>3, HandledThenSchedules DEF OnlySchedules
  <2>5. semCount' = semCount /\ ~(semCount[s] > 0)
    BY <1>3, <1>4, <1>7 DEF Supplies, l
  <2>6. Stepped({}, {l})
    BY <1>5, <2>4, <2>5, GrantStep DEF queueVars
  <2>7. QED
    BY <2>5, <2>6 DEF SemGranted, l
<1>8. QED
  BY <1>6, <1>7

\* Before the kernel is started, neither a wake-up nor the end of a critical
\* section puts a task on the processor.
LEMMA NotStarted ==
    ASSUME NEW k \in Kernel, ~k.started, NEW w
    PROVE  WaitMaybePreempt(k, w).current = k.current /\ ExitCritical(k).current = k.current
<1>1. \A j : ~j.started => SchedSchedule(j, FALSE) = j
  BY DEF SchedSchedule
<1>2. WaitMaybePreempt(k, w).current = k.current
  BY <1>1 DEF WaitMaybePreempt, Kernel
<1>3. ExitCritical(k).current = k.current
  <2> DEFINE j == [k EXCEPT !.nesting = 0, !.pending = FALSE]
  <2>1. j.started = k.started /\ j.current = k.current
    BY DEF Kernel
  <2>2. SchedSchedule(j, FALSE) = j
    <3> HIDE DEF j
    <3>1. QED
      BY <1>1, <2>1
  <2>3. [k EXCEPT !.nesting = @ - 1].current = k.current
    BY DEF Kernel
  <2>4. QED
    BY <2>1, <2>2, <2>3 DEF ExitCritical
<1>4. QED
  BY <1>2, <1>3

\* A handler sees only the fields a critical section leaves alone.
LEMMA HandledFromSame ==
    ASSUME NEW k, NEW j, SameTasks(k, j), NEW r, NEW joined, NEW granted,
           Handled(j, r, joined, granted)
    PROVE  Handled(k, r, joined, granted)
<1>1. \A u \in Tasks : Kept(j, r, u) => Kept(k, r, u)
  BY DEF SameTasks, Kept
<1>2. \A u \in Tasks : TimedOut(j, r, u) => TimedOut(k, r, u)
  BY DEF SameTasks, TimedOut, DelayLinked
<1>3. \A u \in Tasks : \A l : Ended(j, r, u, l, "OK") <=> Ended(k, r, u, l, "OK")
  BY DEF SameTasks, Ended
<1>4. \A u \in Tasks : Leaves(j, r, u) => Leaves(k, r, u)
  BY DEF SameTasks, Leaves
<1>5. Fates(k, r, joined, granted)
  <2>1. j.waitOn = k.waitOn /\ Fates(j, r, joined, granted)
    BY DEF SameTasks, Handled
  <2>2. QED
    BY <1>1, <1>2, <1>3, <1>4, <2>1 DEF Fates
<1>6. OwnersMove(k, r)
  <2>1. j.owner = k.owner /\ OwnersMove(j, r)
    BY DEF SameTasks, Handled
  <2>2. \A m \in Mutexes : PassedOn(j, r, m) => PassedOn(k, r, m)
    BY <1>3 DEF PassedOn
  <2>3. QED
    BY <1>3, <2>1, <2>2 DEF OwnersMove
<1>7. QED
  BY <1>5, <1>6 DEF Handled

\* xSemaphoreGiveFromISR.
LEMMA SemGiveFromISRStep ==
    ASSUME KernelInv(kernel), Supplies, UNCHANGED queueVars, semCount \in [Semaphores -> Nat],
           NEW s \in Semaphores, SemGiveFromISR(s)
    PROVE  SemGranted(s)
<1> DEFINE l == SemWaiters(s)
           k0 == EnterCritical(kernel)
           w == WaitHead(k0, l)
           give == GiveOutcome(k0, s)
           j == IF w = NoTask THEN give.k ELSE WaitMaybePreempt(give.k, w)
<1>2. /\ Sound(k0) /\ SameTasks(kernel, k0) /\ k0.waiters = kernel.waiters
  BY CriticalSound DEF KernelInv
<1> HIDE DEF k0
<1>3. OnlySchedules(kernel, k0) /\ (~k0.started => k0.current = NoTask)
  BY <1>2 DEF KernelInv, SameTasks, OnlySchedules
<1>4. Handled(kernel, k0, {}, {})
  BY <1>2, <1>3, NothingHandled, HandledThenSchedules
<1>5. KernelInv(k0)
  BY <1>4, HandledKeeps
<1>6. NobodyWaits(k0, l) <=> NobodyWaits(kernel, l)
  BY <1>2 DEF NobodyWaits, SameTasks
<1>7. /\ give.woken = w /\ give.status \in Statuses
      /\ w = NoTask => give.k = k0 /\ NobodyWaits(k0, l)
      /\ w # NoTask => /\ give.count = semCount[s] /\ give.status = "OK"
                       /\ Handled(k0, give.k, {}, {l}) /\ ~NobodyWaits(k0, l)
                       /\ give.k.current = k0.current /\ give.k.started = k0.started
  BY <1>5, GiveOutcomeSound
<1>8. semCount' = [semCount EXCEPT ![s] = give.count] /\ kernel' = ExitCritical(j)
  BY <1>7 DEF SemGiveFromISR, k0
<1>9. l \in WaitLists /\ \A m \in Mutexes : l # MutexWaiters(m)
  BY ListsDiffer
<1> HIDE DEF l, w, give, j
<1>10. ASSUME NEW granted, Handled(kernel, j, {}, granted), ~j.started => j.current = NoTask
       PROVE  Handled(kernel, kernel', {}, granted)
  <2> DEFINE r == ExitCritical(j)
  <2>1. Sound(j) /\ j \in Kernel
    BY <1>10 DEF Handled, Sound, Consistent, GoodKernel
  <2>2. Sound(r) /\ OnlySchedules(j, r)
    BY <2>1, CriticalSound
  <2>3. ~r.started => r.current = NoTask
    BY <1>10, <2>1, <2>2, NotStarted DEF OnlySchedules
  <2> HIDE DEF r
  <2>4. Handled(kernel, r, {}, granted)
    BY <1>10, <2>2, <2>3, HandledThenSchedules
  <2>5. QED
    BY <1>8, <2>4 DEF r
<1>11. CASE w = NoTask
  <2>1. j = k0
    BY <1>7, <1>11 DEF j
  <2>2. Handled(kernel, kernel', {}, {})
    BY <1>3, <1>4, <1>10, <2>1
  <2>3. \A z \in Semaphores : z # s => semCount'[z] = semCount[z]
    BY <1>8
  <2>4. QED
    BY <1>6, <1>7, <1>11, <2>2, <2>3, CountStep DEF SemGranted, l
<1>12. CASE w # NoTask
  <2> DEFINE given == give.k
             r == WaitMaybePreempt(given, w)
  <2>1. /\ Handled(k0, given, {}, {l}) /\ ~NobodyWaits(k0, l)
        /\ given.current = k0.current /\ given.started = k0.started
    BY <1>7, <1>12
  <2> HIDE DEF given
  <2>2. Sound(given) /\ given \in Kernel
    BY <2>1 DEF Handled, Sound, Consistent, GoodKernel
  <2>3. Sound(r) /\ OnlySchedules(given, r)
    BY <2>2, WaitMaybePreemptSound
  <2>4. ~r.started => r.current = NoTask
    BY <1>3, <2>1, <2>2, <2>3, NotStarted DEF OnlySchedules
  <2> HIDE DEF r
  <2>5. Handled(k0, r, {}, {l})
    BY <2>1, <2>3, <2>4, HandledThenSchedules
  <2>6. Handled(kernel, r, {}, {l})
    BY <1>2, <2>5, HandledFromSame
  <2>7. j = r
    BY <1>12 DEF j, r, given
  <2>8. Handled(kernel, kernel', {}, {l})
    BY <1>10, <2>4, <2>6, <2>7
  <2>9. semCount' = semCount /\ ~(semCount[s] > 0)
    BY <1>6, <1>7, <1>8, <1>12 DEF Supplies, l
  <2>10. Stepped({}, {l})
    BY <1>9, <2>8, <2>9, GrantStep DEF queueVars
  <2>11. QED
    BY <2>9, <2>10 DEF SemGranted, l
<1>13. QED
  BY <1>11, <1>12
-------------------------------------------------------------------------------
(* os_queue.c *)

\* A queue call that serves the first task waiting for what it brings.
LEMMA ServedHandled ==
    ASSUME NEW k, KernelInv(k), CurrentRuns(k), NEW l \in WaitLists,
           \A m \in Mutexes : l # MutexWaiters(m), WaitHead(k, l) # NoTask
    PROVE  LET w == WaitHead(k, l)
               told == SetResult(WaitPop(k, l), k.current, "OK")
           IN Handled(k, WaitMaybePreempt(WaitMakeReady(told, w, "OK"), w), {}, {l})
<1> DEFINE t == k.current
           w == WaitHead(k, l)
           popped == WaitPop(k, l)
           told == SetResult(popped, t, "OK")
           r == WaitMakeReady(told, w, "OK")
           s == WaitMaybePreempt(r, w)
<1>1. /\ t \in Tasks /\ k.started /\ Consistent(k, {}) /\ "OK" \in Statuses
  BY FieldTypes DEF KernelInv, Sound, Consistent, CurrentRuns, Statuses
<1>2. PoppedFrom(k, popped, w) /\ k.waitOn[w] = l /\ w \in Tasks /\ popped.owner = k.owner
  BY <1>1, PoppedHead
<1> HIDE DEF popped, w, t
<1>3. Consistent(popped, {w}) /\ popped \in Kernel
  BY <1>2 DEF PoppedFrom, Consistent, GoodKernel
<1>4. Consistent(told, {w})
  BY <1>1, <1>3, SetResultSound
<1>5. PoppedFrom(k, told, w) /\ told.owner = k.owner
  <2>1. /\ told.started = popped.started /\ told.state = popped.state
        /\ told.current = popped.current /\ told.tick = popped.tick
        /\ told.delayed = popped.delayed /\ told.overflow = popped.overflow
        /\ told.wake = popped.wake /\ told.waitOn = popped.waitOn /\ told.owner = popped.owner
    BY <1>3 DEF SetResult, Kernel
  <2> HIDE DEF told
  <2>2. QED
    BY <1>2, <1>4, <2>1 DEF PoppedFrom
<1> HIDE DEF told
<1>6. Handled(k, r, {}, {l}) /\ r.started = k.started
  BY <1>2, <1>5, GrantHandled
<1> HIDE DEF r
<1>7. Sound(s) /\ OnlySchedules(r, s)
  BY <1>6, WaitMaybePreemptSound DEF Handled
<1>8. s.started
  BY <1>1, <1>6, <1>7 DEF OnlySchedules
<1> HIDE DEF s
<1>9. Handled(k, s, {}, {l})
  BY <1>6, <1>7, <1>8, HandledThenSchedules
<1>10. QED
  BY <1>9 DEF s, r, told, popped, w, t

\* An empty wait list has nothing to pop.
LEMMA NothingToPop ==
    ASSUME NEW k, KernelInv(k), NEW l \in WaitLists, WaitHead(k, l) = NoTask
    PROVE  WaitPop(k, l) = k /\ NobodyWaits(k, l)
<1>1. Consistent(k, {})
  BY DEF KernelInv, Sound
<1>2. QED
  BY <1>1, WaitPopExact DEF NobodyWaits

\* A message put into, or taken out of, a ring: nobody waits for what the ring
\* then holds or has room for.
LEMMA RingStep ==
    ASSUME KernelInv(kernel), Supplies, UNCHANGED semCount, NEW lists, NEW q \in Queues,
           \A p \in Queues : p # q => ring'[p] = ring[p],
           ring'[q].count > 0 => NobodyWaits(kernel, ReceiveWaiters(q)),
           ring'[q].count < Capacity[q] => NobodyWaits(kernel, SendWaiters(q)),
           Handled(kernel, kernel', {}, {})
    PROVE  Stepped(lists, {})
<1>1. KernelInv(kernel')
  BY HandledKeeps
<1>2. \A h \in WaitLists : NobodyWaits(kernel, h) => NobodyWaits(kernel', h)
  BY QuietLists DEF Handled
<1>3. \A p \in Queues :
          /\ ring'[p].count > 0 => NobodyWaits(kernel', ReceiveWaiters(p))
          /\ ring'[p].count < Capacity[p] => NobodyWaits(kernel', SendWaiters(p))
  <2> SUFFICES ASSUME NEW p \in Queues
               PROVE  /\ ring'[p].count > 0 => NobodyWaits(kernel, ReceiveWaiters(p))
                      /\ ring'[p].count < Capacity[p] => NobodyWaits(kernel, SendWaiters(p))
    BY <1>2, ListsDiffer
  <2>1. CASE p = q
    BY <2>1
  <2>2. CASE p # q
    BY <2>2 DEF Supplies
  <2>3. QED
    BY <2>1, <2>2
<1>4. Supplies'
  BY <1>2, <1>3, ListsDiffer DEF Supplies
<1>5. QED
  BY <1>1, <1>4 DEF Stepped

\* What the rings hold.
RingsTyped == ring \in [Queues -> UNION {Ring(q) : q \in Queues}] /\ \A q \in Queues : ring[q] \in Ring(q)

\* The count of a ring after a message is put in or taken out.
LEMMA RingCounts ==
    ASSUME NEW q \in Queues, NEW r \in Ring(q), NEW message
    PROVE  /\ r.count \in Nat /\ Capacity[q] \in Nat /\ r.count <= Capacity[q]
           /\ Put(r, q, message).count = r.count + 1
           /\ TakeHead(r, q).count = r.count - 1
           /\ Put(TakeHead(r, q), q, message).count = r.count
<1>1. Capacity[q] \in Nat
  BY OsQueueAssumption
<1>2. r.count \in Nat /\ r.count <= Capacity[q]
  BY <1>1 DEF Ring
<1>3. Put(r, q, message).count = r.count + 1 /\ TakeHead(r, q).count = r.count - 1
  BY DEF Put, TakeHead, Ring
<1>4. Put(TakeHead(r, q), q, message).count = TakeHead(r, q).count + 1
  BY DEF Put, TakeHead, Ring
<1>5. QED
  BY <1>1, <1>2, <1>3, <1>4

\* os_QueueSendCurrent.
LEMMA QueueSendStep ==
    ASSUME KernelInv(kernel), Supplies, UNCHANGED semCount, RingsTyped, NEW q \in Queues,
           NEW message, NEW timeout \in Ticks, QueueSend(q, message, timeout)
    PROVE  Stepped({SendWaiters(q)}, {}) \/ Stepped({SendWaiters(q)}, {ReceiveWaiters(q)})
<1> DEFINE t == kernel.current
           l == ReceiveWaiters(q)
           w == WaitHead(kernel, l)
           k == SetResult(WaitPop(kernel, l), t, "OK")
<1>1. CurrentRuns(kernel) /\ "OK" \in Statuses /\ "TIMEOUT" \in Statuses
  BY DEF QueueSend, Statuses
<1>2. /\ l \in WaitLists /\ \A m \in Mutexes : l # MutexWaiters(m)
      /\ SendWaiters(q) \in WaitLists /\ \A m \in Mutexes : SendWaiters(q) # MutexWaiters(m)
  BY ListsDiffer
<1>3. /\ ring[q].count \in Nat /\ Capacity[q] \in Nat /\ ring[q].count <= Capacity[q]
      /\ Put(ring[q], q, message).count = ring[q].count + 1
  BY RingCounts DEF RingsTyped
<1>4. ASSUME w # NoTask, UNCHANGED ring,
             kernel' = WaitMaybePreempt(WaitMakeReady(k, w, "OK"), w)
      PROVE  Stepped({SendWaiters(q)}, {l})
  <2>1. Handled(kernel, kernel', {}, {l})
    BY <1>1, <1>2, <1>4, ServedHandled
  <2> HIDE DEF l
  <2>2. QED
    BY <1>2, <1>4, <2>1, GrantStep
<1>5. ASSUME w = NoTask, ring[q].count < Capacity[q], kernel' = k,
             ring' = [ring EXCEPT ![q] = Put(@, q, message)]
      PROVE  Stepped({SendWaiters(q)}, {})
  <2>1. kernel' = SetResult(kernel, t, "OK") /\ NobodyWaits(kernel, l)
    BY <1>2, <1>5, NothingToPop
  <2>2. Handled(kernel, kernel', {}, {})
    BY <1>1, <2>1, StatusHandled
  <2>3. /\ \A p \in Queues : p # q => ring'[p] = ring[p]
        /\ ring'[q].count = ring[q].count + 1
    BY <1>3, <1>5 DEF RingsTyped
  <2>4. NobodyWaits(kernel, SendWaiters(q))
    BY <1>5 DEF Supplies
  <2>5. QED
    BY <2>1, <2>2, <2>3, <2>4, RingStep
<1>6. ASSUME kernel' = SetResult(kernel, t, "TIMEOUT"), UNCHANGED ring PROVE Stepped({SendWaiters(q)}, {})
  <2>1. Handled(kernel, kernel', {}, {})
    BY <1>1, <1>6, StatusHandled
  <2>2. NobodyWaits(kernel, l) \/ ~(ring[q].count > 0)
    BY DEF Supplies
  <2>3. NobodyWaits(kernel, SendWaiters(q)) \/ ~(ring[q].count < Capacity[q])
    BY DEF Supplies
  <2>4. QED
    BY <1>6, <2>1, <2>2, <2>3, RingStep
<1>7. ASSUME ring[q].count >= Capacity[q], timeout # 0, UNCHANGED ring,
             kernel' = WaitBlockCurrent(kernel, SendWaiters(q), timeout)
      PROVE  Stepped({SendWaiters(q)}, {})
  <2> DEFINE h == SendWaiters(q)
  <2>1. Handled(kernel, kernel', {h}, {})
    BY <1>1, <1>2, <1>7, BlockHandled
  <2>2. ~(ring[q].count < Capacity[q])
    BY <1>3, <1>7
  <2>3. /\ \A s \in Semaphores : h # SemWaiters(s)
        /\ \A p \in Queues : h # ReceiveWaiters(p) /\ (h = SendWaiters(p) => p = q)
    BY ListsDiffer
  <2>4. \A m \in Mutexes : h # MutexWaiters(m)
    BY <1>2
  <2> HIDE DEF h
  <2>5. h \in WaitLists
    BY <1>2 DEF h
  <2>6. Stepped({h}, {})
    BY <1>7, <2>1, <2>2, <2>3, <2>4, <2>5, BlockStep
  <2>7. QED
    BY <2>6 DEF h
<1>8. QED
  BY <1>4, <1>5, <1>6, <1>7 DEF QueueSend

\* os_QueueReceiveCurrent.
LEMMA QueueReceiveStep ==
    ASSUME KernelInv(kernel), Supplies, UNCHANGED semCount, RingsTyped, NEW q \in Queues,
           NEW timeout \in Ticks, QueueReceive(q, timeout)
    PROVE  Stepped({ReceiveWaiters(q)}, {}) \/ Stepped({ReceiveWaiters(q)}, {SendWaiters(q)})
<1> DEFINE t == kernel.current
           l == SendWaiters(q)
           w == WaitHead(kernel, l)
           taken == TakeHead(ring[q], q)
           k == SetResult(WaitPop(kernel, l), t, "OK")
<1>1. CurrentRuns(kernel) /\ "OK" \in Statuses /\ "TIMEOUT" \in Statuses
  BY DEF QueueReceive, Statuses
<1>2. /\ l \in WaitLists /\ \A m \in Mutexes : l # MutexWaiters(m)
      /\ ReceiveWaiters(q) \in WaitLists /\ \A m \in Mutexes : ReceiveWaiters(q) # MutexWaiters(m)
  BY ListsDiffer
<1>3. /\ ring[q].count \in Nat /\ Capacity[q] \in Nat /\ ring[q].count <= Capacity[q]
      /\ taken.count = ring[q].count - 1
      /\ Put(taken, q, buffer[w]).count = ring[q].count
  BY RingCounts DEF RingsTyped
<1>4. ASSUME w # NoTask, ring' = [ring EXCEPT ![q] = Put(taken, q, buffer[w])],
             kernel' = WaitMaybePreempt(WaitMakeReady(k, w, "OK"), w)
      PROVE  Stepped({ReceiveWaiters(q)}, {l})
  <2>1. Handled(kernel, kernel', {}, {l})
    BY <1>1, <1>2, <1>4, ServedHandled
  <2>2. \A p \in Queues : ring'[p].count = ring[p].count
    BY <1>3, <1>4 DEF RingsTyped
  <2> HIDE DEF l
  <2>3. QED
    BY <1>2, <1>4, <2>1, <2>2, GrantStep
<1>5. ASSUME w = NoTask, ring[q].count > 0, kernel' = k, ring' = [ring EXCEPT ![q] = taken]
      PROVE  Stepped({ReceiveWaiters(q)}, {})
  <2>1. kernel' = SetResult(kernel, t, "OK") /\ NobodyWaits(kernel, l)
    BY <1>2, <1>5, NothingToPop
  <2>2. Handled(kernel, kernel', {}, {})
    BY <1>1, <2>1, StatusHandled
  <2>3. /\ \A p \in Queues : p # q => ring'[p] = ring[p]
        /\ ring'[q].count = ring[q].count - 1
    BY <1>3, <1>5 DEF RingsTyped
  <2>4. NobodyWaits(kernel, ReceiveWaiters(q))
    BY <1>5 DEF Supplies
  <2>5. QED
    BY <2>1, <2>2, <2>3, <2>4, RingStep
<1>6. ASSUME kernel' = SetResult(kernel, t, "TIMEOUT"), UNCHANGED ring PROVE Stepped({ReceiveWaiters(q)}, {})
  <2>1. Handled(kernel, kernel', {}, {})
    BY <1>1, <1>6, StatusHandled
  <2>2. NobodyWaits(kernel, ReceiveWaiters(q)) \/ ~(ring[q].count > 0)
    BY DEF Supplies
  <2>3. NobodyWaits(kernel, l) \/ ~(ring[q].count < Capacity[q])
    BY DEF Supplies
  <2>4. QED
    BY <1>6, <2>1, <2>2, <2>3, RingStep
<1>7. ASSUME ring[q].count = 0, timeout # 0, UNCHANGED ring,
             kernel' = WaitBlockCurrent(kernel, ReceiveWaiters(q), timeout)
      PROVE  Stepped({ReceiveWaiters(q)}, {})
  <2> DEFINE h == ReceiveWaiters(q)
  <2>1. Handled(kernel, kernel', {h}, {})
    BY <1>1, <1>2, <1>7, BlockHandled
  <2>2. ~(ring[q].count > 0)
    BY <1>7
  <2>3. /\ \A s \in Semaphores : h # SemWaiters(s)
        /\ \A p \in Queues : h # SendWaiters(p) /\ (h = ReceiveWaiters(p) => p = q)
    BY ListsDiffer
  <2>4. \A m \in Mutexes : h # MutexWaiters(m)
    BY <1>2
  <2> HIDE DEF h
  <2>5. h \in WaitLists
    BY <1>2 DEF h
  <2>6. Stepped({h}, {})
    BY <1>7, <2>1, <2>2, <2>3, <2>4, <2>5, BlockStep
  <2>7. QED
    BY <2>6 DEF h
<1>8. QED
  BY <1>4, <1>5, <1>6, <1>7 DEF QueueReceive
-------------------------------------------------------------------------------
(* The initial state, and every step *)

\* The kernel after the tasks below n have been created: those at n and above are
\* READY but on no list yet.
Filled(k, n) ==
    /\ Consistent(k, {t \in Tasks : t >= n})
    /\ ~k.started /\ k.current = NoTask /\ k.state = [t \in Tasks |-> "READY"]
    /\ k.waitOn = [t \in Tasks |-> NoWait] /\ k.delayed = <<>> /\ k.overflow = <<>>
    /\ k.owner = [m \in Mutexes |-> NoTask]
    /\ k.effective = BasePriority /\ k.nesting = 0 /\ k.result = [t \in Tasks |-> "BAD_STATE"]

\* No task is created yet.
LEMMA ResetFilled == Filled(ResetKernel, 0)
<1> DEFINE k == ResetKernel
           all == {t \in Tasks : t >= 0}
<1>1. all = Tasks /\ NoTask \notin Tasks
  BY OsKernelAssumption DEF Tasks, NoTask
<1>2. k \in GoodKernel
  <2>1. PICK after \in [0 .. TaskCount -> GoodKernel] : after[0] = ResetKernel
    BY CreatedKernelLoop
  <2>2. 0 \in 0 .. TaskCount
    BY OsKernelAssumption
  <2>3. QED
    BY <2>1, <2>2
<1>3. Exact(<<>>, {}) /\ \A f : Ranked(<<>>, f)
  BY EmptyExact DEF Ranked
<1>4. ToSet(<<>>) = {}
  BY DEF ToSet
<1>5. /\ \A p \in Priorities : k.ready[p] = <<>>
      /\ \A l \in WaitLists : k.waiters[l] = <<>>
      /\ k.delayed = <<>> /\ k.overflow = <<>>
      /\ \A t \in Tasks : k.state[t] = "READY"
  BY DEF ResetKernel
<1>6. ReadyExact(k, all)
  <2>1. \A p : {t \in Tasks \ all : k.state[t] = "READY" /\ k.effective[t] = p} = {}
    BY <1>1
  <2>2. QED
    BY <1>3, <1>5, <2>1 DEF ReadyExact
<1>7. WaitersExact(k, all)
  <2>1. \A l : {t \in Tasks \ all : k.waitOn[t] = l} = {}
    BY <1>1
  <2>2. QED
    BY <1>3, <1>5, <2>1 DEF WaitersExact
<1>8. DelaysExact(k)
  BY <1>3, <1>4, <1>5 DEF DelaysExact
<1>9. StatesAgree(k, all) /\ OneRuns(k)
  BY <1>1, <1>5 DEF StatesAgree, OneRuns
<1>10. Consistent(k, all)
  BY <1>2, <1>6, <1>7, <1>8, <1>9 DEF Consistent
<1>11. QED
  BY <1>10 DEF Filled, ResetKernel

\* os_TaskCreateInternal queues one more.
LEMMA FilledStep ==
    ASSUME NEW n \in Tasks, NEW k, Filled(k, n)
    PROVE  Filled(ReadyEnqueue(k, n), n + 1)
<1> DEFINE S == {t \in Tasks : t >= n}
           r == ReadyEnqueue(k, n)
<1>1. n \in S /\ S \ {n} = {t \in Tasks : t >= n + 1}
  BY OsKernelAssumption DEF Tasks
<1>2. /\ Consistent(k, S) /\ k.state[n] = "READY" /\ k.waitOn[n] = NoWait
  BY DEF Filled
<1>3. ~DelayLinked(k, n)
  BY DEF Filled, DelayLinked, ToSet
<1>4. r.nesting = k.nesting
  <2>1. k \in Kernel
    BY <1>2 DEF Consistent, GoodKernel
  <2>2. QED
    BY <2>1 DEF ReadyEnqueue, Kernel
<1> HIDE DEF S, r
<1>5. Consistent(r, S \ {n}) /\ SameTasks(k, r) /\ r.effective = k.effective
  BY <1>1, <1>2, <1>3, ReadyEnqueueExact DEF r
<1>6. QED
  BY <1>1, <1>4, <1>5 DEF Filled, SameTasks, r

\* Every task is on its queue when os_Start is called.
LEMMA CreatedFilled == Filled(CreatedKernel, TaskCount)
<1>1. PICK after \in [0 .. TaskCount -> GoodKernel] :
          /\ after[0] = ResetKernel
          /\ \A t \in Tasks : after[t + 1] = ReadyEnqueue(after[t], t)
          /\ CreatedKernel = after[TaskCount]
  BY CreatedKernelLoop
<1> DEFINE T == {n \in 0 .. TaskCount : Filled(after[n], n)}
<1>2. TaskCount \in Nat /\ 0 .. TaskCount - 1 = Tasks /\ 0 \in 0 .. TaskCount
  BY OsKernelAssumption DEF Tasks
<1>3. 0 \in T
  BY <1>1, <1>2, ResetFilled
<1>4. ASSUME NEW n \in 0 .. TaskCount - 1, n \in T PROVE n + 1 \in T
  <2>1. n \in Tasks /\ n + 1 \in 0 .. TaskCount /\ Filled(after[n], n)
    BY <1>2, <1>4
  <2>2. Filled(ReadyEnqueue(after[n], n), n + 1)
    BY <2>1, FilledStep
  <2>3. QED
    BY <1>1, <2>1, <2>2
<1> HIDE DEF T
<1>5. \A n \in 0 .. TaskCount : n \in T
  BY <1>2, <1>3, <1>4, LoopInduction
<1>6. TaskCount \in T
  BY <1>2, <1>5
<1>7. QED
  BY <1>1, <1>6 DEF T
-------------------------------------------------------------------------------
\* The inductive invariant.
SafeInv == TypeInv /\ KernelInv(kernel) /\ Supplies

\* It holds of the state os_Start is called in.
LEMMA InitSafe == Init => SafeInv
<1> SUFFICES ASSUME Init PROVE SafeInv
  OBVIOUS
<1>1. TypeInv /\ Filled(kernel, TaskCount)
  BY InitTypeInv, CreatedFilled DEF Init
<1>2. {t \in Tasks : t >= TaskCount} = {} /\ NoTask \notin Tasks
  BY OsKernelAssumption DEF Tasks, NoTask
<1>3. Sound(kernel)
  BY <1>1, <1>2 DEF Filled, Sound
<1>4. \A l \in WaitLists : NobodyWaits(kernel, l)
  BY <1>1 DEF Filled, NobodyWaits, NoWait, WaitLists, SemWaiters, SendWaiters,
              ReceiveWaiters, MutexWaiters
<1>5. Deadlines(kernel, kernel.tick + 1)
  BY <1>1 DEF Filled, Deadlines, Ranked, ToSet
<1>6. KernelInv(kernel)
  BY <1>1, <1>3, <1>4, <1>5, ListsDiffer DEF KernelInv, CanRelease, Filled
<1>7. Supplies
  BY <1>4, ListsDiffer DEF Supplies
<1>8. QED
  BY <1>1, <1>6, <1>7 DEF SafeInv

\* A call of a queue.
QueueCalled(q) ==
    \E ticks \in Timeouts : \/ QueueReceive(q, ticks)
                            \/ \E message \in Messages : QueueSend(q, message, ticks)

\* The wait lists of a queue.
ListsOf(q) == {SendWaiters(q), ReceiveWaiters(q)}

\* What every step does: it handles one call, tick or interrupt, a permit it hands to a
\* waiter is not counted, and only the calls of a queue start or serve waits for it.
LEMMA EveryStep ==
    ASSUME SafeInv, Next
    PROVE  \E lists, granted :
              /\ Stepped(lists, granted)
              /\ \A s \in Semaphores : SemWaiters(s) \in granted => semCount'[s] = 0
              /\ \A q \in Queues : QueueCalled(q) \/ ListsOf(q) \cap (lists \cup granted) = {}
<1>1. /\ KernelInv(kernel) /\ Supplies /\ semCount \in [Semaphores -> Nat] /\ RingsTyped
      /\ Delays \subseteq Ticks /\ Timeouts \subseteq Ticks
  BY MiniRtosAssumption DEF SafeInv, TypeInv, SemType, QueueType, RingsTyped
<1> DEFINE Goal == \E lists, granted :
               /\ Stepped(lists, granted)
               /\ \A s \in Semaphores : SemWaiters(s) \in granted => semCount'[s] = 0
               /\ \A q \in Queues : QueueCalled(q) \/ ListsOf(q) \cap (lists \cup granted) = {}
<1>2. Stepped({}, {}) => Goal
  OBVIOUS
<1>3. ASSUME NEW s \in Semaphores, SemGranted(s) PROVE Goal
  <2>1. CASE Stepped({}, {SemWaiters(s)}) /\ semCount'[s] = semCount[s] /\ ~(semCount[s] > 0)
    <3>1. semCount'[s] = 0
      BY <1>1, <2>1
    <3>2. \A z \in Semaphores : SemWaiters(z) \in {SemWaiters(s)} => semCount'[z] = 0
      BY <3>1, ListsDiffer
    <3>3. \A q \in Queues : ListsOf(q) \cap ({} \cup {SemWaiters(s)}) = {}
      BY ListsDiffer DEF ListsOf
    <3>4. QED
      BY <2>1, <3>2, <3>3
  <2>2. QED
    BY <1>2, <1>3, <2>1 DEF SemGranted
<1>4. ASSUME NEW lists, NEW granted, Stepped(lists, granted),
             \A s \in Semaphores : SemWaiters(s) \notin granted,
             \A q \in Queues : QueueCalled(q) \/ ListsOf(q) \cap (lists \cup granted) = {}
      PROVE  Goal
  <2>1. \A s \in Semaphores : SemWaiters(s) \in granted => semCount'[s] = 0
    BY <1>4
  <2>2. QED
    BY <1>4, <2>1
<1> HIDE DEF Goal
<1>5. ASSUME Start PROVE Goal
  BY <1>1, <1>2, <1>5, StartHandled, KernelOnlyStep DEF Start
<1>6. ASSUME Timer PROVE Goal
  BY <1>1, <1>2, <1>6, TickHandled, KernelOnlyStep DEF Timer
<1>7. ASSUME Interrupt PROVE Goal
  <2>1. PICK s \in Semaphores : SemGiveFromISR(s)
    BY <1>7 DEF Interrupt
  <2>2. UNCHANGED queueVars
    BY <1>7 DEF Interrupt
  <2>3. SemGranted(s)
    BY <1>1, <2>1, <2>2, SemGiveFromISRStep
  <2>4. QED
    BY <1>3, <2>3
<1>8. ASSUME NEW t \in Tasks, Scheduling(t) PROVE Goal
  <2>1. UNCHANGED <<semCount, ring, buffer>>
    BY <1>8 DEF Scheduling
  <2>2. ASSUME TaskYield(t) PROVE Goal
    BY <1>1, <1>2, <2>1, <2>2, YieldHandled, KernelOnlyStep
  <2>3. ASSUME TaskExit(t) PROVE Goal
    <3> DEFINE freed == {MutexWaiters(m) : m \in Mutexes}
    <3>1. Handled(kernel, kernel', {}, freed)
      BY <1>1, <2>3, ExitHandled
    <3>2. /\ \A s \in Semaphores : SemWaiters(s) \notin freed
          /\ \A q \in Queues : ListsOf(q) \cap ({} \cup freed) = {}
      BY ListsDiffer DEF ListsOf
    <3> HIDE DEF freed
    <3>3. Stepped({}, freed)
      BY <1>1, <2>1, <3>1, KernelOnlyStep
    <3>4. QED
      BY <1>4, <3>2, <3>3
  <2>4. ASSUME NEW ticks \in Delays, TaskDelay(t, ticks) PROVE Goal
    <3>1. ticks \in Ticks
      BY <1>1
    <3>2. Handled(kernel, kernel', {}, {})
      BY <1>1, <2>4, <3>1, DelayHandled
    <3>3. QED
      BY <1>1, <1>2, <2>1, <3>2, KernelOnlyStep
  <2>5. QED
    BY <1>8, <2>2, <2>3, <2>4 DEF Scheduling
<1>9. ASSUME NEW t \in Tasks, UserCall(t) PROVE Goal
  <2>1. ASSUME MutexCall PROVE Goal
    <3>1. UNCHANGED <<semCount, ring, buffer>>
      BY <2>1 DEF MutexCall
    <3>2. ASSUME NEW m \in Mutexes, MutexUnlock(m) PROVE Goal
      <4>1. Stepped({}, {MutexWaiters(m)})
        BY <1>1, <3>1, <3>2, MutexUnlockStep
      <4>2. /\ \A s \in Semaphores : SemWaiters(s) \notin {MutexWaiters(m)}
            /\ \A q \in Queues : ListsOf(q) \cap ({} \cup {MutexWaiters(m)}) = {}
        BY ListsDiffer DEF ListsOf
      <4>3. QED
        BY <1>4, <4>1, <4>2
    <3>3. ASSUME NEW m \in Mutexes, NEW ticks \in Timeouts, MutexLock(m, ticks) PROVE Goal
      <4>1. ticks \in Ticks
        BY <1>1
      <4>2. Stepped({MutexWaiters(m)}, {})
        BY <1>1, <3>1, <3>3, <4>1, MutexLockStep
      <4>3. \A q \in Queues : ListsOf(q) \cap ({MutexWaiters(m)} \cup {}) = {}
        BY ListsDiffer DEF ListsOf
      <4>4. QED
        BY <1>4, <4>2, <4>3
    <3>4. QED
      BY <2>1, <3>2, <3>3 DEF MutexCall
  <2>2. ASSUME SemCall PROVE Goal
    <3>1. UNCHANGED queueVars
      BY <2>2 DEF SemCall
    <3>2. ASSUME NEW s \in Semaphores, SemGive(s) PROVE Goal
      BY <1>1, <1>3, <3>1, <3>2, SemGiveStep
    <3>3. ASSUME NEW s \in Semaphores, NEW ticks \in Timeouts, SemTake(s, ticks) PROVE Goal
      <4>1. ticks \in Ticks
        BY <1>1
      <4>2. Stepped({SemWaiters(s)}, {})
        BY <1>1, <3>1, <3>3, <4>1, SemTakeStep
      <4>3. \A q \in Queues : ListsOf(q) \cap ({SemWaiters(s)} \cup {}) = {}
        BY ListsDiffer DEF ListsOf
      <4>4. QED
        BY <1>4, <4>2, <4>3
    <3>4. QED
      BY <2>2, <3>2, <3>3 DEF SemCall
  <2>3. ASSUME QueueCall PROVE Goal
    <3>1. UNCHANGED semCount
      BY <2>3 DEF QueueCall
    <3>2. ASSUME NEW q \in Queues, NEW ticks \in Timeouts, QueueReceive(q, ticks) PROVE Goal
      <4>1. ticks \in Ticks
        BY <1>1
      <4>2. Stepped({ReceiveWaiters(q)}, {}) \/ Stepped({ReceiveWaiters(q)}, {SendWaiters(q)})
        BY <1>1, <3>1, <3>2, <4>1, QueueReceiveStep
      <4>3. \A s \in Semaphores : SemWaiters(s) \notin {} /\ SemWaiters(s) \notin {SendWaiters(q)}
        BY ListsDiffer
      <4>4. \A p \in Queues : \/ QueueCalled(p)
                              \/ /\ ListsOf(p) \cap ({ReceiveWaiters(q)} \cup {}) = {}
                                 /\ ListsOf(p) \cap ({ReceiveWaiters(q)} \cup {SendWaiters(q)}) = {}
        <5>1. QueueCalled(q)
          BY <3>2 DEF QueueCalled
        <5>2. \A p \in Queues : p # q => /\ ListsOf(p) \cap ({ReceiveWaiters(q)} \cup {}) = {}
                                         /\ ListsOf(p) \cap ({ReceiveWaiters(q)} \cup {SendWaiters(q)}) = {}
          BY ListsDiffer DEF ListsOf
        <5>3. QED
          BY <5>1, <5>2
      <4>5. QED
        BY <1>4, <4>2, <4>3, <4>4
    <3>3. ASSUME NEW q \in Queues, NEW ticks \in Timeouts, NEW message \in Messages,
                 QueueSend(q, message, ticks)
          PROVE  Goal
      <4>1. ticks \in Ticks
        BY <1>1
      <4>2. Stepped({SendWaiters(q)}, {}) \/ Stepped({SendWaiters(q)}, {ReceiveWaiters(q)})
        BY <1>1, <3>1, <3>3, <4>1, QueueSendStep
      <4>3. \A s \in Semaphores : SemWaiters(s) \notin {} /\ SemWaiters(s) \notin {ReceiveWaiters(q)}
        BY ListsDiffer
      <4>4. \A p \in Queues : \/ QueueCalled(p)
                              \/ /\ ListsOf(p) \cap ({SendWaiters(q)} \cup {}) = {}
                                 /\ ListsOf(p) \cap ({SendWaiters(q)} \cup {ReceiveWaiters(q)}) = {}
        <5>1. QueueCalled(q)
          BY <3>3 DEF QueueCalled
        <5>2. \A p \in Queues : p # q => /\ ListsOf(p) \cap ({SendWaiters(q)} \cup {}) = {}
                                         /\ ListsOf(p) \cap ({SendWaiters(q)} \cup {ReceiveWaiters(q)}) = {}
          BY ListsDiffer DEF ListsOf
        <5>3. QED
          BY <5>1, <5>2
      <4>5. QED
        BY <1>4, <4>2, <4>3, <4>4
    <3>4. QED
      BY <2>3, <3>2, <3>3 DEF QueueCall
  <2>4. QED
    BY <1>9, <2>1, <2>2, <2>3 DEF UserCall
<1>10. Goal
  <2>1. Start \/ Timer \/ Interrupt \/ \E t \in Tasks : Scheduling(t) \/ UserCall(t)
    BY DEF Next
  <2>2. QED
    BY <1>5, <1>6, <1>7, <1>8, <1>9, <2>1
<1>11. QED
  BY <1>10 DEF Goal

\* The invariant is inductive.
LEMMA StepSafe == SafeInv /\ [Next]_vars => SafeInv'
<1> SUFFICES ASSUME SafeInv, [Next]_vars PROVE SafeInv'
  OBVIOUS
<1>1. TypeInv'
  BY StepTypeInv DEF SafeInv
<1>2. CASE Next
  <2>1. KernelInv(kernel') /\ Supplies'
    BY <1>2, EveryStep DEF Stepped
  <2>2. QED
    BY <1>1, <2>1 DEF SafeInv
<1>3. CASE UNCHANGED vars
  <2>1. UNCHANGED <<kernel, semCount, ring>>
    BY <1>3 DEF vars
  <2>2. QED
    BY <1>1, <2>1 DEF SafeInv, Supplies, NobodyWaits
<1>4. QED
  BY <1>2, <1>3

\* The invariant holds for ever.
LEMMA AlwaysSafe == Spec => []SafeInv
  BY InitSafe, StepSafe, PTL DEF Spec
-------------------------------------------------------------------------------
(* The properties *)

\* What the invariant says of the lists, in the words of MiniRtos.
LEMMA SafeContainers == SafeInv => ContainersExact
<1> SUFFICES ASSUME SafeInv PROVE ContainersExact
  OBVIOUS
<1> DEFINE k == kernel
<1>1. /\ Sound(k) /\ Consistent(k, {}) /\ k \in GoodKernel
      /\ ReadyExact(k, {}) /\ WaitersExact(k, {}) /\ DelaysExact(k)
      /\ StatesAgree(k, {}) /\ OneRuns(k)
  BY DEF SafeInv, KernelInv, Sound, Consistent
<1>2. /\ k.state \in [Tasks -> TaskStates] /\ NoTask \notin Tasks
      /\ k.current \in Tasks \cup {NoTask} /\ NoWait \notin WaitLists
  BY <1>1, FieldTypes
<1>3. ReadyQueuesValid
  <2>1. ASSUME NEW p \in Priorities
        PROVE  /\ IsSet(k.ready[p])
               /\ ToSet(k.ready[p]) = {t \in Tasks : k.state[t] = "READY" /\ k.effective[t] = p}
    <3> DEFINE Q == {t \in Tasks \ {} : k.state[t] = "READY" /\ k.effective[t] = p}
    <3>1. Exact(k.ready[p], Q) /\ Q \subseteq Tasks
      BY <1>1 DEF ReadyExact
    <3>2. Q = {t \in Tasks : k.state[t] = "READY" /\ k.effective[t] = p}
      OBVIOUS
    <3> HIDE DEF Q
    <3>3. IsInjective(k.ready[p]) /\ ToSet(k.ready[p]) = Q
      BY <3>1, ExactList
    <3>4. QED
      BY <3>2, <3>3 DEF IsSet
  <2>2. QED
    BY <1>1, <2>1 DEF ReadyQueuesValid, GoodKernel
<1>4. \A t \in Tasks : k.state[t] = "BLOCKED_OBJECT" <=> k.waitOn[t] # NoWait
  BY <1>1 DEF StatesAgree
<1>5. WaitListsValid
  <2>1. ASSUME NEW l \in WaitLists
        PROVE  /\ IsSet(k.waiters[l])
               /\ ToSet(k.waiters[l]) =
                     {t \in Tasks : k.state[t] = "BLOCKED_OBJECT" /\ k.waitOn[t] = l}
    <3> DEFINE Q == {t \in Tasks \ {} : k.waitOn[t] = l}
    <3>1. Exact(k.waiters[l], Q) /\ Q \subseteq Tasks
      BY <1>1 DEF WaitersExact
    <3>2. Q = {t \in Tasks : k.state[t] = "BLOCKED_OBJECT" /\ k.waitOn[t] = l}
      BY <1>2, <1>4
    <3> HIDE DEF Q
    <3>3. IsInjective(k.waiters[l]) /\ ToSet(k.waiters[l]) = Q
      BY <3>1, ExactList
    <3>4. QED
      BY <3>2, <3>3 DEF IsSet
  <2>2. QED
    BY <2>1 DEF WaitListsValid
<1>6. DelayListsValid
  <2> DEFINE a == k.delayed
             b == k.overflow
             c == a \o b
  <2>1. /\ a \in Seq(Tasks) /\ b \in Seq(Tasks) /\ ToSet(a) \cap ToSet(b) = {}
        /\ \A i, j \in 1 .. Len(a) : a[i] = a[j] => i = j
        /\ \A i, j \in 1 .. Len(b) : b[i] = b[j] => i = j
    BY <1>1 DEF DelaysExact, Exact
  <2> HIDE DEF a, b
  <2>2. /\ c \in Seq(Tasks) /\ Len(c) = Len(a) + Len(b)
        /\ \A j \in 1 .. Len(a) : c[j] = a[j]
        /\ \A j \in 1 .. Len(b) : c[Len(a) + j] = b[j]
    BY <2>1, ConcatElements
  <2>3. /\ \A i \in 1 .. Len(a) : a[i] \in ToSet(a)
        /\ \A i \in 1 .. Len(b) : b[i] \in ToSet(b)
    BY <2>1, OnList
  <2>4. Len(a) \in Nat /\ Len(b) \in Nat
    BY <2>1
  <2> HIDE DEF c
  <2>5. ASSUME NEW i \in 1 .. Len(c), NEW j \in 1 .. Len(c), c[i] = c[j] PROVE i = j
    <3>1. \A n \in 1 .. Len(c) : n \in 1 .. Len(a) \/ n - Len(a) \in 1 .. Len(b)
      BY <2>2, <2>4
    <3>2. \A n \in 1 .. Len(c) : n - Len(a) \in 1 .. Len(b) => c[n] = b[n - Len(a)]
      <4> SUFFICES ASSUME NEW n \in 1 .. Len(c), n - Len(a) \in 1 .. Len(b)
                   PROVE  c[n] = b[n - Len(a)]
        OBVIOUS
      <4>1. Len(a) + (n - Len(a)) = n
        BY <2>4
      <4>2. c[Len(a) + (n - Len(a))] = b[n - Len(a)]
        BY <2>2
      <4>3. QED
        BY <4>1, <4>2
    <3>3. CASE i \in 1 .. Len(a) /\ j \in 1 .. Len(a)
      BY <2>1, <2>2, <2>5, <3>3
    <3>4. CASE i \in 1 .. Len(a) /\ j - Len(a) \in 1 .. Len(b)
      <4>1. c[i] \in ToSet(a) /\ c[j] \in ToSet(b)
        BY <2>2, <2>3, <3>2, <3>4
      <4>2. QED
        BY <2>1, <2>5, <4>1
    <3>5. CASE i - Len(a) \in 1 .. Len(b) /\ j \in 1 .. Len(a)
      <4>1. c[i] \in ToSet(b) /\ c[j] \in ToSet(a)
        BY <2>2, <2>3, <3>2, <3>5
      <4>2. QED
        BY <2>1, <2>5, <4>1
    <3>6. CASE i - Len(a) \in 1 .. Len(b) /\ j - Len(a) \in 1 .. Len(b)
      <4>1. c[i] = b[i - Len(a)] /\ c[j] = b[j - Len(a)]
        BY <3>2, <3>6
      <4>2. i - Len(a) = j - Len(a)
        BY <2>1, <2>5, <3>6, <4>1
      <4>3. QED
        BY <2>4, <4>2
    <3>7. QED
      BY <3>1, <3>3, <3>4, <3>5, <3>6
  <2>6. IsInjective(c)
    BY <2>2, <2>5, OnList
  <2>7. \A t \in Tasks :
          /\ DelayLinked(k, t) => k.state[t] \in {"BLOCKED_DELAY", "BLOCKED_OBJECT"}
          /\ k.state[t] = "BLOCKED_DELAY" => DelayLinked(k, t)
    BY <1>1 DEF StatesAgree
  <2>8. QED
    BY <2>6, <2>7 DEF DelayListsValid, IsSet, a, b, c
<1>7. CurrentValid
  <2>1. \A t \in Tasks : k.state[t] = "RUNNING" <=> k.current = t
    BY <1>1, <1>2 DEF OneRuns, Sound
  <2>2. QED
    BY <1>4, <2>1 DEF CurrentValid
<1>8. QED
  BY <1>3, <1>5, <1>6, <1>7 DEF ContainersExact

\* The ready queues, the wait lists and the delay lists hold exactly the tasks
\* their states call for, once each, after every handler, tick and interrupt:
\* what os_KernelValidate samples, in full.
THEOREM ListsMatchStates == Spec => []ContainersExact
  BY AlwaysSafe, SafeContainers, PTL

\* Wait lists are ranked by effective priority.
LEMMA SafeWaitLists == SafeInv => WaitListsOrdered
<1> SUFFICES ASSUME SafeInv, NEW l \in WaitLists,
                    NEW i \in 1 .. Len(kernel.waiters[l]),
                    NEW j \in 1 .. Len(kernel.waiters[l]), i < j
             PROVE  kernel.effective[kernel.waiters[l][i]]
                      >= kernel.effective[kernel.waiters[l][j]]
  BY DEF WaitListsOrdered
<1> DEFINE u == kernel.waiters[l][i]
           v == kernel.waiters[l][j]
<1>1. /\ Ranked(kernel.waiters[l], Rank(kernel)) /\ kernel \in GoodKernel
  BY DEF SafeInv, KernelInv, Sound, Consistent, WaitersExact
<1>2. u \in Tasks /\ v \in Tasks
  <2>1. kernel.waiters[l] \in Seq(Tasks)
    BY <1>1, FieldTypes
  <2>2. QED
    BY <2>1
<1>3. kernel.effective[u] \in Int /\ kernel.effective[v] \in Int
  BY <1>1, <1>2, FieldTypes
<1>4. Rank(kernel)[u] <= Rank(kernel)[v]
  BY <1>1 DEF Ranked
<1> HIDE DEF u, v
<1>5. -kernel.effective[u] <= -kernel.effective[v]
  BY <1>2, <1>4 DEF Rank
<1>6. kernel.effective[u] >= kernel.effective[v]
  BY <1>3, <1>5
<1>7. QED
  BY <1>6 DEF u, v

\* os_WaitInsertByPriority's order survives every change of priority.
THEOREM WaitListsServeByPriority == Spec => []WaitListsOrdered
  BY AlwaysSafe, SafeWaitLists, PTL

\* Supplies and the free mutexes rule out a sleeper beside what it waits for.
LEMMA SafeWakeups == SafeInv => NoLostWakeup
<1> SUFFICES ASSUME SafeInv PROVE NoLostWakeup
  OBVIOUS
<1>1. KernelInv(kernel) /\ Supplies /\ Sound(kernel)
  BY DEF SafeInv, KernelInv
<1>2. \A l \in WaitLists : NobodyWaits(kernel, l) => kernel.waiters[l] = <<>>
  BY <1>1, EmptyList
<1>3. QED
  BY <1>1, <1>2, ListsDiffer DEF NoLostWakeup, Supplies, KernelInv

\* No call, tick or interrupt leaves a task waiting for a permit that is counted,
\* a message that is queued, a slot that is free or a mutex that has no owner.
THEOREM NoWakeupIsLost == Spec => []NoLostWakeup
  BY AlwaysSafe, SafeWakeups, PTL

\* CanRelease is the property.
LEMMA SafeOwners == SafeInv => OwnersCanRelease
  BY DEF SafeInv, KernelInv, CanRelease, OwnersCanRelease

\* No mutex is left with an owner that has ended or that waits for it.
THEOREM MutexesCanBeReleased == Spec => []OwnersCanRelease
  BY AlwaysSafe, SafeOwners, PTL

\* Between two ticks the next tick is the first that a deadline may have.
LEMMA SafeDeadlines == SafeInv => DeadlinesAhead
<1> SUFFICES ASSUME SafeInv PROVE DeadlinesAhead
  OBVIOUS
<1>1. Deadlines(kernel, kernel.tick + 1) /\ DelaysExact(kernel) /\ kernel \in GoodKernel
  BY DEF SafeInv, KernelInv, Sound, Consistent
<1>2. /\ kernel.tick \in Ticks /\ kernel.wake \in [Tasks -> Ticks]
      /\ ToSet(kernel.delayed) \subseteq Tasks
  BY <1>1, FieldTypes, DelayLists
<1>3. \A t \in ToSet(kernel.delayed) : kernel.wake[t] > kernel.tick
  <2> SUFFICES ASSUME NEW t \in ToSet(kernel.delayed) PROVE kernel.wake[t] > kernel.tick
    OBVIOUS
  <2>1. kernel.tick \in Int /\ kernel.wake[t] \in Int
    BY <1>2, TicksAreNumbers
  <2>2. kernel.wake[t] >= kernel.tick + 1
    BY <1>1 DEF Deadlines
  <2>3. QED
    BY <2>1, <2>2
<1>4. QED
  BY <1>1, <1>3 DEF Deadlines, DeadlinesAhead, Sorted, Ranked

\* Every deadline lies ahead, in the list of its period of the tick counter and
\* in order, whatever the width of the counter.
THEOREM NothingIsOverdue == Spec => []DeadlinesAhead
  BY AlwaysSafe, SafeDeadlines, PTL
-------------------------------------------------------------------------------
\* What a step can do to a task: its fate.
LEMMA StepFates ==
    ASSUME SafeInv, [Next]_vars
    PROVE  \/ UNCHANGED kernel
           \/ \E joined, granted :
                 /\ Fates(kernel, kernel', joined, granted) /\ OwnersMove(kernel, kernel')
                 /\ \A s \in Semaphores : SemWaiters(s) \in granted => semCount'[s] = 0
<1>1. CASE Next
  BY <1>1, EveryStep DEF Stepped, Handled
<1>2. CASE UNCHANGED vars
  BY <1>2 DEF vars
<1>3. QED
  BY <1>1, <1>2

\* A wait ends without OK only by the tick, which finds its deadline.
LEMMA StepEndsOnTime == SafeInv /\ [Next]_vars => EndsOnTime
<1> SUFFICES ASSUME SafeInv, [Next]_vars, NEW t \in Tasks,
                    \/ Ends(t, "BLOCKED_DELAY")
                    \/ Ends(t, "BLOCKED_OBJECT") /\ kernel'.result[t] = "TIMEOUT"
             PROVE  /\ DelayLinked(kernel, t)
                    /\ kernel'.tick = kernel.wake[t] /\ kernel'.tick # kernel.tick
  BY DEF EndsOnTime
<1>1. PICK joined, granted : Fates(kernel, kernel', joined, granted)
  BY StepFates DEF Ends
<1>2. \/ Kept(kernel, kernel', t)
      \/ TimedOut(kernel, kernel', t)
      \/ \E l \in granted : Ended(kernel, kernel', t, l, "OK")
      \/ Leaves(kernel, kernel', t)
  BY <1>1 DEF Fates
<1>3. TimedOut(kernel, kernel', t)
  BY <1>2 DEF Ends, Kept, Ended, Leaves
<1>4. DelayLinked(kernel, t) /\ kernel'.tick = kernel.wake[t]
  BY <1>3 DEF TimedOut
<1>5. kernel.wake[t] # kernel.tick
  <2>1. Deadlines(kernel, kernel.tick + 1) /\ kernel \in GoodKernel
    BY DEF SafeInv, KernelInv, Sound, Consistent
  <2>2. kernel.tick \in Int /\ kernel.wake[t] \in Int
    BY <2>1, FieldTypes, TicksAreNumbers
  <2>3. kernel.wake[t] >= kernel.tick + 1 \/ kernel.wake[t] < kernel.tick
    BY <1>4, <2>1 DEF Deadlines, DelayLinked
  <2>4. QED
    BY <2>2, <2>3
<1>6. QED
  BY <1>4, <1>5

\* A delay ends, and a wait times out, in the tick that reaches its deadline and
\* in no other step.
THEOREM WaitsEndOnTime == Spec => WakesExactlyOnTime
  BY AlwaysSafe, StepEndsOnTime, PTL DEF Spec, WakesExactlyOnTime

\* The fates of a step tell who ended a wait and what came with it.
LEMMA StepHandsOver == SafeInv /\ [Next]_vars => HandedOver
<1> SUFFICES ASSUME SafeInv, [Next]_vars PROVE HandedOver
  OBVIOUS
<1>1. CASE UNCHANGED kernel
  BY <1>1 DEF HandedOver, Obtained, Ends
<1>2. ASSUME NEW joined, NEW granted,
             Fates(kernel, kernel', joined, granted), OwnersMove(kernel, kernel'),
             \A s \in Semaphores : SemWaiters(s) \in granted => semCount'[s] = 0
      PROVE  HandedOver
  <2>1. ASSUME NEW t \in Tasks, Ends(t, "BLOCKED_OBJECT")
        PROVE  \/ kernel'.result[t] = "TIMEOUT"
               \/ \E l \in granted : Ended(kernel, kernel', t, l, "OK")
    <3>1. \/ Kept(kernel, kernel', t)
          \/ TimedOut(kernel, kernel', t)
          \/ \E l \in granted : Ended(kernel, kernel', t, l, "OK")
          \/ Leaves(kernel, kernel', t)
      BY <1>2 DEF Fates
    <3>2. QED
      BY <2>1, <3>1 DEF Ends, Kept, TimedOut, Leaves
  <2>2. \A t \in Tasks : Ends(t, "BLOCKED_OBJECT") => kernel'.result[t] \in {"OK", "TIMEOUT"}
    BY <2>1 DEF Ended
  <2>3. ASSUME NEW m \in Mutexes, kernel.owner[m] # NoTask,
               kernel'.owner[m] \notin {NoTask, kernel.owner[m]}
        PROVE  /\ Obtained(kernel'.owner[m])
               /\ kernel.waitOn[kernel'.owner[m]] = MutexWaiters(m)
    <3>1. PassedOn(kernel, kernel', m)
      BY <1>2, <2>3 DEF OwnersMove
    <3>2. Ended(kernel, kernel', kernel'.owner[m], MutexWaiters(m), "OK")
      BY <2>3, <3>1 DEF PassedOn
    <3>3. QED
      BY <3>2 DEF Ended, Obtained, Ends
  <2>4. ASSUME NEW t \in Tasks, NEW m \in Mutexes, Obtained(t),
               kernel.waitOn[t] = MutexWaiters(m)
        PROVE  kernel'.owner[m] = t
    <3>1. Ended(kernel, kernel', t, MutexWaiters(m), "OK")
      BY <2>1, <2>4 DEF Obtained, Ended
    <3>2. QED
      BY <1>2, <3>1 DEF OwnersMove
  <2>5. ASSUME NEW t \in Tasks, NEW s \in Semaphores, Obtained(t),
               kernel.waitOn[t] = SemWaiters(s)
        PROVE  semCount'[s] = 0
    <3>1. SemWaiters(s) \in granted
      BY <2>1, <2>5 DEF Obtained, Ended
    <3>2. QED
      BY <1>2, <3>1
  <2>6. QED
    BY <2>2, <2>3, <2>4, <2>5 DEF HandedOver
<1>3. QED
  BY <1>1, <1>2, StepFates

\* A wait that ends with OK ends with the object in hand, and a mutex changes
\* hands only to a task that waited for it.
THEOREM ObjectsAreHandedOver == Spec => DirectHandoff
  BY AlwaysSafe, StepHandsOver, PTL DEF Spec, DirectHandoff
-------------------------------------------------------------------------------
(***************************************************************************)
(* Priorities: the processor belongs to a task of the highest effective    *)
(* priority, effective priorities are exactly those inheritance asks for,  *)
(* and with that the kernel passes its own validation.                     *)
(*                                                                         *)
(* The passes of os_MutexWaitersChanged over the mutex pool compute, for   *)
(* each task, the highest base priority among the tasks that wait for it,  *)
(* directly or through other owners.  The lemmas up to                     *)
(* DesiredPriorityExact are about that computation alone, on wait graphs:  *)
(* functions from each task to the tasks that wait directly for one of     *)
(* its mutexes.  Those behind carry PriorityInv through every call, tick   *)
(* and interrupt.                                                          *)
(***************************************************************************)
WaitGraphs == [Tasks -> SUBSET Tasks]

\* Nobody outside S waits for a task of S.
Closed(R, S) == \A u \in S : R[u] \subseteq S

\* The tasks t holds up, t included: the least closed set with t in it.
Held(R, t) == {w \in Tasks : \A S \in SUBSET Tasks : t \in S /\ Closed(R, S) => w \in S}

\* Each task has the highest base priority among those it holds up.
Inherited(d, R) ==
    \A t \in Tasks :
        /\ \E w \in Held(R, t) : d[t] = BasePriority[w]
        /\ \A w \in Held(R, t) : d[t] >= BasePriority[w]

\* What a task holds up is the least closed set.
LEMMA HeldLeast ==
    ASSUME NEW R \in WaitGraphs, NEW t \in Tasks
    PROVE  /\ t \in Held(R, t) /\ Held(R, t) \subseteq Tasks
           /\ Closed(R, Held(R, t))
           /\ \A S \in SUBSET Tasks : t \in S /\ Closed(R, S) => Held(R, t) \subseteq S
<1>1. /\ t \in Held(R, t) /\ Held(R, t) \subseteq Tasks
      /\ \A S \in SUBSET Tasks : t \in S /\ Closed(R, S) => Held(R, t) \subseteq S
  BY DEF Held
<1>2. ASSUME NEW u \in Held(R, t), NEW w \in R[u] PROVE w \in Held(R, t)
  <2>1. u \in Tasks /\ w \in Tasks
    BY <1>1 DEF WaitGraphs
  <2>2. ASSUME NEW S \in SUBSET Tasks, t \in S, Closed(R, S) PROVE w \in S
    BY <1>1, <2>2 DEF Closed
  <2>3. QED
    BY <2>1, <2>2 DEF Held
<1>3. QED
  BY <1>1, <1>2 DEF Closed

\* Whoever a held-up task holds up is held up too.
LEMMA HeldTransitive ==
    ASSUME NEW R \in WaitGraphs, NEW t \in Tasks, NEW w \in Held(R, t)
    PROVE  Held(R, w) \subseteq Held(R, t)
  BY HeldLeast

\* Adding direct waiters TaskCount times reaches everyone who is held up: a round
\* that adds nobody is the last, and every other adds a task.
LEMMA RoundsReachAll ==
    ASSUME NEW R \in WaitGraphs, NEW t \in Tasks, NEW f \in [0 .. TaskCount -> SUBSET Tasks],
           f[0] = {t},
           \A n \in 0 .. TaskCount - 1 : f[n + 1] = f[n] \cup UNION {R[u] : u \in f[n]}
    PROVE  f[TaskCount] = Held(R, t)
<1>1. TaskCount \in Nat /\ Tasks = 0 .. TaskCount - 1
  BY OsKernelAssumption DEF Tasks
<1>2. IsFiniteSet(Tasks) /\ Cardinality(Tasks) = TaskCount
  <2>1. 0 \in Int /\ TaskCount - 1 \in Int /\ (TaskCount - 1) - 0 + 1 = TaskCount /\ TaskCount > 0
    BY <1>1, OsKernelAssumption
  <2>2. QED
    BY <1>1, <2>1, FS_Interval
<1>3. f[TaskCount] \subseteq Held(R, t)
  <2> DEFINE T == {n \in 0 .. TaskCount : f[n] \subseteq Held(R, t)}
  <2>1. 0 \in T
    BY <1>1, HeldLeast
  <2>2. ASSUME NEW n \in 0 .. TaskCount - 1, n \in T PROVE n + 1 \in T
    <3>1. n + 1 \in 0 .. TaskCount /\ f[n] \subseteq Held(R, t)
      BY <1>1, <2>2
    <3>2. UNION {R[u] : u \in f[n]} \subseteq Held(R, t)
      BY <3>1, HeldLeast DEF Closed
    <3>3. QED
      BY <3>1, <3>2
  <2> HIDE DEF T
  <2>3. TaskCount \in T
    BY <1>1, <2>1, <2>2, LoopInduction
  <2>4. QED
    BY <2>3 DEF T
<1>4. Closed(R, f[TaskCount])
  <2> DEFINE T == {n \in 0 .. TaskCount : Closed(R, f[n]) \/ Cardinality(f[n]) >= n + 1}
  <2>1. 0 \in T
    <3>1. Cardinality({t}) = 1
      BY FS_Singleton
    <3>2. Cardinality(f[0]) >= 0 + 1
      BY <3>1
    <3>3. 0 \in 0 .. TaskCount
      BY <1>1
    <3>4. QED
      BY <3>2, <3>3, Zenon
  <2>2. ASSUME NEW n \in 0 .. TaskCount - 1, n \in T PROVE n + 1 \in T
    <3>1. n + 1 \in 0 .. TaskCount /\ n \in 0 .. TaskCount /\ n \in Nat
      BY <1>1
    <3>2. f[n] \subseteq Tasks /\ f[n + 1] \subseteq Tasks
      BY <3>1
    <3>3. f[n + 1] = f[n] \cup UNION {R[u] : u \in f[n]}
      OBVIOUS
    <3>4. CASE Closed(R, f[n])
      <4>1. f[n + 1] = f[n]
        BY <3>3, <3>4 DEF Closed
      <4>2. QED
        BY <3>1, <3>4, <4>1
    <3>5. CASE ~Closed(R, f[n])
      <4>1. PICK u \in f[n] : \E w \in R[u] : w \notin f[n]
        BY <3>5 DEF Closed
      <4> PICK w \in R[u] : w \notin f[n]
        BY <4>1
      <4>2. w \in f[n + 1] /\ f[n] \cup {w} \subseteq f[n + 1]
        BY <3>3, <4>1
      <4>3. IsFiniteSet(f[n]) /\ IsFiniteSet(f[n + 1])
        BY <1>2, <3>2, FS_Subset
      <4>4. Cardinality(f[n] \cup {w}) = Cardinality(f[n]) + 1 /\ IsFiniteSet(f[n] \cup {w})
        BY <4>1, <4>3, FS_AddElement
      <4>5. Cardinality(f[n] \cup {w}) <= Cardinality(f[n + 1])
        BY <4>2, <4>3, FS_Subset
      <4>6. Cardinality(f[n]) >= n + 1
        BY <2>2, <3>5
      <4>7. Cardinality(f[n]) \in Nat /\ Cardinality(f[n + 1]) \in Nat
        BY <4>3, FS_CardinalityType
      <4>8. Cardinality(f[n + 1]) >= (n + 1) + 1
        BY <3>1, <4>4, <4>5, <4>6, <4>7
      <4>9. QED
        BY <3>1, <4>8
    <3>6. QED
      BY <3>4, <3>5
  <2> HIDE DEF T
  <2>3. TaskCount \in T
    BY <1>1, <2>1, <2>2, LoopInduction
  <2>4. f[TaskCount] \subseteq Tasks
    BY <1>1
  <2>5. Cardinality(f[TaskCount]) <= TaskCount /\ Cardinality(f[TaskCount]) \in Nat
    BY <1>2, <2>4, FS_Subset, FS_CardinalityType
  <2>6. ~(Cardinality(f[TaskCount]) >= TaskCount + 1)
    BY <1>1, <2>5
  <2>7. QED
    BY <2>3, <2>6 DEF T
<1>5. t \in f[TaskCount]
  <2> DEFINE T == {n \in 0 .. TaskCount : t \in f[n]}
  <2>1. 0 \in T
    BY <1>1
  <2>2. ASSUME NEW n \in 0 .. TaskCount - 1, n \in T PROVE n + 1 \in T
    <3>1. n + 1 \in 0 .. TaskCount
      BY <1>1
    <3>2. QED
      BY <2>2, <3>1
  <2> HIDE DEF T
  <2>3. TaskCount \in T
    BY <1>1, <2>1, <2>2, LoopInduction
  <2>4. QED
    BY <2>3 DEF T
<1>6. f[TaskCount] \subseteq Tasks
  BY <1>1
<1>7. QED
  BY <1>3, <1>4, <1>5, <1>6, HeldLeast
-------------------------------------------------------------------------------
(* The passes of os_MutexWaitersChanged. *)

\* The wait graph as the pass reads it: owners and the mutexes' wait lists.
ListGraph(k) ==
    [o \in Tasks |-> {w \in Tasks : \E m \in Mutexes :
                         k.owner[m] = o /\ w \in ToSet(k.waiters[MutexWaiters(m)])}]

\* A visit of one mutex raises its owner to a waiter's priority or leaves it.
LEMMA RaiseOwnerBounds ==
    ASSUME NEW k \in GoodKernel, NEW m \in Mutexes, NEW d \in Wishes
    PROVE  LET r == RaiseOwner(k, m, d)
               list == ToSet(k.waiters[MutexWaiters(m)])
           IN /\ \A t \in Tasks : r[t] >= d[t]
              /\ \A t \in Tasks : k.owner[m] = t => \A w \in list : r[t] >= d[w]
              /\ \A t \in Tasks : \/ r[t] = d[t]
                                  \/ k.owner[m] = t /\ \E w \in list : r[t] = d[w]
<1> DEFINE o == k.owner[m]
           list == ToSet(k.waiters[MutexWaiters(m)])
           S == {d[o]} \cup {d[w] : w \in list}
           top == Max(S)
<1>1. o \in Tasks \cup {NoTask} /\ NoTask \notin Tasks
  BY FieldTypes
<1>2. list \subseteq Tasks
  <2>1. MutexWaiters(m) \in WaitLists
    BY DEF WaitLists
  <2>2. k.waiters[MutexWaiters(m)] \in Seq(Tasks)
    BY <2>1, FieldTypes
  <2>3. QED
    BY <2>2 DEF ToSet
<1>3. \A t \in Tasks : d[t] \in Priorities /\ d[t] \in Int
  BY OsKernelAssumption DEF Wishes, Priorities
<1>4. RaiseOwner(k, m, d) = IF o = NoTask THEN d ELSE [d EXCEPT ![o] = top]
  BY DEF RaiseOwner
<1> HIDE DEF o, list
<1>5. ASSUME o # NoTask PROVE top \in S /\ \A y \in S : top >= y
  <2>1. S \subseteq Priorities /\ S # {}
    BY <1>1, <1>2, <1>3, <1>5
  <2> HIDE DEF S
  <2>2. PriorityCount - 1 \in Nat /\ S \subseteq 0 .. PriorityCount - 1
    BY <2>1, OsKernelAssumption DEF Priorities
  <2>3. QED
    BY <2>1, <2>2, MaximumOfRange
<1>6. ASSUME o # NoTask
      PROVE  /\ top >= d[o] /\ \A w \in list : top >= d[w]
             /\ top = d[o] \/ \E w \in list : top = d[w]
  BY <1>5, <1>6
<1> HIDE DEF top
<1> DEFINE r == RaiseOwner(k, m, d)
<1>7. \A t \in Tasks : r[t] = IF t = o THEN top ELSE d[t]
  BY <1>1, <1>4 DEF Wishes
<1> HIDE DEF r
<1>8. \A t \in Tasks : d[t] >= d[t]
  BY <1>3
<1>9. QED
  BY <1>1, <1>2, <1>6, <1>7, <1>8 DEF r, o, list

\* Each priority is the base priority of a task that is held up.
Earned(d, R) == \A t \in Tasks : \E w \in Held(R, t) : d[t] = BasePriority[w]

\* A pass over the pool lowers nobody, raises each owner to its direct waiters
\* at least, and to nobody it does not hold up.
LEMMA InheritPassBounds ==
    ASSUME NEW k \in GoodKernel, NEW d \in Wishes
    PROVE  LET r == InheritPass(k, d)
               R == ListGraph(k)
           IN /\ \A t \in Tasks : r[t] >= d[t]
              /\ \A t \in Tasks : \A w \in R[t] : r[t] >= d[w]
              /\ Earned(d, R) => Earned(r, R)
<1> DEFINE R == ListGraph(k)
<1>1. PICK after \in [0 .. MutexCount -> Wishes] :
         /\ after[0] = d
         /\ \A m \in Mutexes : after[m + 1] = RaiseOwner(k, m, after[m])
         /\ InheritPass(k, d) = after[MutexCount]
  BY InheritPassLoop
<1>2. MutexCount \in Nat /\ 0 .. MutexCount - 1 = Mutexes
  BY OsKernelAssumption DEF Mutexes
<1>3. R \in WaitGraphs
  BY DEF ListGraph, WaitGraphs
<1>4. \A e \in Wishes, t \in Tasks : e[t] \in Int
  BY OsKernelAssumption DEF Wishes, Priorities
<1>5. \A m \in Mutexes : m \in 0 .. MutexCount /\ m + 1 \in 0 .. MutexCount
  BY <1>2
<1> DEFINE \* what holds after the first n mutexes
           Raised(n) == /\ \A t \in Tasks : after[n][t] >= d[t]
                        /\ \A m \in Mutexes, t \in Tasks : m < n /\ k.owner[m] = t =>
                              \A w \in ToSet(k.waiters[MutexWaiters(m)]) : after[n][t] >= d[w]
                        /\ Earned(d, R) => Earned(after[n], R)
           T == {n \in 0 .. MutexCount : Raised(n)}
<1>6. 0 \in T
  <2>1. \A t \in Tasks : d[t] >= d[t]
    BY <1>4
  <2>2. \A m \in Mutexes : ~(m < 0)
    BY <1>2
  <2>3. Raised(0)
    BY <1>1, <2>1, <2>2
  <2> HIDE DEF Raised
  <2>4. QED
    BY <1>2, <2>3
<1>7. ASSUME NEW n \in 0 .. MutexCount - 1, n \in T PROVE n + 1 \in T
  <2> DEFINE list == ToSet(k.waiters[MutexWaiters(n)])
             a == after[n]
             b == after[n + 1]
  <2>1. n \in Mutexes /\ a \in Wishes /\ b \in Wishes /\ Raised(n) /\ n + 1 \in 0 .. MutexCount
    BY <1>2, <1>5, <1>7
  <2>2. b = RaiseOwner(k, n, a)
    BY <1>1, <2>1
  <2>3. list \subseteq Tasks
    <3>1. MutexWaiters(n) \in WaitLists
      BY <2>1 DEF WaitLists
    <3>2. k.waiters[MutexWaiters(n)] \in Seq(Tasks)
      BY <3>1, FieldTypes
    <3>3. QED
      BY <3>2 DEF ToSet
  <2>4. /\ \A t \in Tasks : a[t] >= d[t]
        /\ \A m \in Mutexes, t \in Tasks : m < n /\ k.owner[m] = t =>
              \A w \in ToSet(k.waiters[MutexWaiters(m)]) : a[t] >= d[w]
        /\ Earned(d, R) => Earned(a, R)
    BY <2>1
  <2> HIDE DEF a, b, list
  <2>5. /\ \A t \in Tasks : b[t] >= a[t]
        /\ \A t \in Tasks : k.owner[n] = t => \A w \in list : b[t] >= a[w]
        /\ \A t \in Tasks : \/ b[t] = a[t]
                            \/ k.owner[n] = t /\ \E w \in list : b[t] = a[w]
    BY <2>1, <2>2, RaiseOwnerBounds DEF list
  <2>6. \A t \in Tasks : a[t] \in Int /\ b[t] \in Int /\ d[t] \in Int
    BY <1>4, <2>1
  <2>7. \A t \in Tasks : b[t] >= d[t]
    BY <2>4, <2>5, <2>6
  <2>8. ASSUME NEW m \in Mutexes, NEW t \in Tasks, m < n + 1, k.owner[m] = t,
               NEW w \in ToSet(k.waiters[MutexWaiters(m)])
        PROVE  b[t] >= d[w]
    <3>1. MutexWaiters(m) \in WaitLists
      BY DEF WaitLists
    <3>2. k.waiters[MutexWaiters(m)] \in Seq(Tasks)
      BY <3>1, FieldTypes
    <3>3. w \in Tasks
      BY <3>2 DEF ToSet
    <3>4. m < n \/ m = n
      BY <1>2, <2>1, <2>8
    <3>5. ASSUME m < n PROVE b[t] >= d[w]
      <4>1. a[t] >= d[w] /\ b[t] >= a[t]
        BY <2>4, <2>5, <2>8, <3>5
      <4>2. QED
        BY <2>6, <3>3, <4>1
    <3>6. ASSUME m = n PROVE b[t] >= d[w]
      <4>1. b[t] >= a[w] /\ a[w] >= d[w]
        BY <2>4, <2>5, <2>8, <3>3, <3>6 DEF list
      <4>2. QED
        BY <2>6, <3>3, <4>1
    <3>7. QED
      BY <3>4, <3>5, <3>6
  <2>9. ASSUME Earned(a, R) PROVE Earned(b, R)
    <3>1. ASSUME NEW t \in Tasks PROVE \E w \in Held(R, t) : b[t] = BasePriority[w]
      <4>1. CASE b[t] = a[t]
        BY <2>9, <4>1 DEF Earned
      <4>2. CASE k.owner[n] = t /\ \E w \in list : b[t] = a[w]
        <5>1. PICK w \in list : b[t] = a[w]
          BY <4>2
        <5>2. w \in Tasks /\ w \in R[t]
          BY <2>1, <2>3, <4>2, <5>1 DEF ListGraph, list
        <5>3. w \in Held(R, t)
          BY <1>3, <5>2, HeldLeast DEF Closed
        <5>4. PICK v \in Held(R, w) : a[w] = BasePriority[v]
          BY <2>9, <5>2 DEF Earned
        <5>5. v \in Held(R, t)
          BY <1>3, <5>3, <5>4, HeldTransitive
        <5>6. QED
          BY <5>1, <5>4, <5>5
      <4>3. QED
        BY <2>5, <4>1, <4>2
    <3>2. QED
      BY <3>1 DEF Earned
  <2>10. Raised(n + 1)
    <3>1. Earned(d, R) => Earned(after[n + 1], R)
      BY <2>4, <2>9 DEF b
    <3>2. QED
      BY <2>7, <2>8, <3>1 DEF b
  <2> HIDE DEF Raised
  <2>11. QED
    BY <2>1, <2>10
<1>8. MutexCount \in T
  <2> HIDE DEF T
  <2>1. QED
    BY <1>2, <1>6, <1>7, LoopInduction
<1>9. Raised(MutexCount)
  BY <1>8
<1>10. ASSUME NEW t \in Tasks, NEW w \in R[t] PROVE after[MutexCount][t] >= d[w]
  <2>1. PICK m \in Mutexes : k.owner[m] = t /\ w \in ToSet(k.waiters[MutexWaiters(m)])
    BY <1>10 DEF ListGraph
  <2>2. m < MutexCount
    BY <1>2
  <2>3. QED
    BY <1>9, <2>1, <2>2
<1>11. QED
  BY <1>1, <1>9, <1>10

\* The rounds of RoundsReachAll exist.
LEMMA RoundsExist ==
    ASSUME NEW R \in WaitGraphs, NEW t \in Tasks
    PROVE  \E f \in [0 .. TaskCount -> SUBSET Tasks] :
              /\ f[0] = {t}
              /\ \A n \in 0 .. TaskCount - 1 : f[n + 1] = f[n] \cup UNION {R[u] : u \in f[n]}
<1> DEFINE F == [n \in 0 .. TaskCount - 1 |->
                    [S \in SUBSET Tasks |-> S \cup UNION {R[u] : u \in S}]]
<1>1. TaskCount \in Nat /\ {t} \in SUBSET Tasks
  BY OsKernelAssumption
<1>2. F \in [0 .. TaskCount - 1 -> [SUBSET Tasks -> SUBSET Tasks]]
  BY DEF WaitGraphs
<1>3. \A n \in 0 .. TaskCount - 1, S \in SUBSET Tasks : F[n][S] = S \cup UNION {R[u] : u \in S}
  OBVIOUS
<1> HIDE DEF F
<1>4. PICK f : Loops(f, TaskCount, SUBSET Tasks, {t}, F)
  BY <1>1, <1>2, LoopExists
<1>5. f \in [0 .. TaskCount -> SUBSET Tasks] /\ f[0] = {t}
  BY <1>4 DEF Loops
<1>6. ASSUME NEW n \in 0 .. TaskCount - 1
      PROVE  f[n + 1] = f[n] \cup UNION {R[u] : u \in f[n]}
  <2>1. n \in 0 .. TaskCount
    BY <1>1
  <2>2. f[n] \in SUBSET Tasks /\ f[n + 1] = F[n][f[n]]
    BY <1>4, <1>5, <2>1 DEF Loops
  <2>3. QED
    BY <1>3, <2>2
<1>7. QED
  BY <1>5, <1>6

\* The graph with its edges turned round leads from w to each task w is held up by.
Turned(R) == [w \in Tasks |-> {t \in Tasks : w \in R[t]}]

LEMMA HeldTurned ==
    ASSUME NEW R \in WaitGraphs, NEW t \in Tasks, NEW w \in Held(R, t)
    PROVE  t \in Held(Turned(R), w)
<1> DEFINE U == Turned(R)
           S == Tasks \ Held(U, w)
<1>1. U \in WaitGraphs /\ w \in Tasks
  BY DEF Turned, WaitGraphs, Held
<1>2. w \notin S
  BY <1>1, HeldLeast
<1>3. Closed(R, S)
  <2>1. ASSUME NEW u \in S, NEW v \in R[u] PROVE v \in S
    <3>1. u \in Tasks /\ v \in Tasks /\ u \in U[v]
      BY <2>1 DEF Turned, WaitGraphs
    <3>2. v \in Held(U, w) => u \in Held(U, w)
      BY <1>1, <3>1, HeldLeast DEF Closed
    <3>3. QED
      BY <3>1, <3>2
  <2>2. QED
    BY <2>1 DEF Closed
<1>4. t \in S => Held(R, t) \subseteq S
  BY <1>3, HeldLeast
<1>5. QED
  BY <1>2, <1>4

\* The OS_MAX_TASKS passes are enough: the result is the highest base priority
\* among the tasks held up, however long the chain of owners and whatever the
\* order of the mutexes in the pool.
LEMMA DesiredPriorityExact ==
    ASSUME NEW k \in GoodKernel
    PROVE  Inherited(DesiredPriority(k), ListGraph(k))
<1> DEFINE R == ListGraph(k)
<1>1. R \in WaitGraphs
  BY DEF ListGraph, WaitGraphs
<1>2. PICK after \in [0 .. MaxTasks -> Wishes] :
         /\ after[0] = BasePriority
         /\ \A n \in 0 .. MaxTasks - 1 : after[n + 1] = InheritPass(k, after[n])
         /\ DesiredPriority(k) = after[MaxTasks]
  BY DesiredPriorityLoop
<1>3. /\ TaskCount \in Nat /\ MaxTasks \in Nat /\ TaskCount <= MaxTasks
      /\ \A n \in 0 .. MaxTasks - 1 : n \in 0 .. MaxTasks /\ n + 1 \in 0 .. MaxTasks
      /\ MaxTasks \in 0 .. MaxTasks /\ TaskCount \in 0 .. MaxTasks
      /\ \A n \in 0 .. TaskCount - 1 : n \in 0 .. MaxTasks - 1
  BY OsKernelAssumption
<1>4. \A e \in Wishes, t \in Tasks : e[t] \in Int
  BY OsKernelAssumption DEF Wishes, Priorities
<1> HIDE DEF R
<1>5. \A n \in 0 .. MaxTasks - 1 :
         /\ \A t \in Tasks : after[n + 1][t] >= after[n][t]
         /\ \A t \in Tasks : \A w \in R[t] : after[n + 1][t] >= after[n][w]
         /\ Earned(after[n], R) => Earned(after[n + 1], R)
  BY <1>2, <1>3, InheritPassBounds DEF R
<1>6. Earned(after[MaxTasks], R)
  <2> DEFINE T == {n \in 0 .. MaxTasks : Earned(after[n], R)}
  <2>1. Earned(BasePriority, R)
    BY <1>1, HeldLeast DEF Earned
  <2>2. 0 \in T
    BY <1>2, <1>3, <2>1
  <2>3. ASSUME NEW n \in 0 .. MaxTasks - 1, n \in T PROVE n + 1 \in T
    BY <1>3, <1>5, <2>3
  <2> HIDE DEF T
  <2>4. MaxTasks \in T
    BY <1>3, <2>2, <2>3, LoopInduction
  <2>5. QED
    BY <2>4 DEF T
<1>7. ASSUME NEW t \in Tasks, NEW w \in Held(R, t)
      PROVE  after[MaxTasks][t] >= BasePriority[w]
  <2> DEFINE U == Turned(R)
  <2>1. U \in WaitGraphs /\ w \in Tasks
    BY <1>1 DEF Turned, WaitGraphs, Held
  <2>2. BasePriority[w] \in Int
    BY <2>1, OsKernelAssumption DEF Priorities
  <2>3. PICK f \in [0 .. TaskCount -> SUBSET Tasks] :
           /\ f[0] = {w}
           /\ \A n \in 0 .. TaskCount - 1 : f[n + 1] = f[n] \cup UNION {U[u] : u \in f[n]}
    BY <2>1, RoundsExist
  <2>4. t \in f[TaskCount]
    <3>1. f[TaskCount] = Held(U, w)
      BY <2>1, <2>3, RoundsReachAll
    <3>2. QED
      BY <1>1, <3>1, HeldTurned
  <2> DEFINE T == {n \in 0 .. TaskCount : \A u \in f[n] : after[n][u] >= BasePriority[w]}
  <2>5. 0 \in T
    BY <1>2, <1>3, <2>2, <2>3
  <2>6. ASSUME NEW n \in 0 .. TaskCount - 1, n \in T PROVE n + 1 \in T
    <3>1. /\ n \in 0 .. TaskCount /\ n + 1 \in 0 .. TaskCount
          /\ n \in 0 .. MaxTasks - 1 /\ n + 1 \in 0 .. MaxTasks /\ n \in 0 .. MaxTasks
      BY <1>3
    <3>2. after[n] \in Wishes /\ after[n + 1] \in Wishes /\ f[n] \subseteq Tasks /\ f[n + 1] \subseteq Tasks
      BY <3>1
    <3>3. ASSUME NEW u \in f[n + 1] PROVE after[n + 1][u] >= BasePriority[w]
      <4>1. u \in Tasks
        BY <3>2
      <4>2. u \in f[n] \/ \E v \in f[n] : u \in U[v]
        BY <2>3
      <4>3. CASE u \in f[n]
        <5>1. after[n][u] >= BasePriority[w] /\ after[n + 1][u] >= after[n][u]
          BY <1>5, <2>6, <3>1, <4>1, <4>3
        <5>2. QED
          BY <1>4, <2>2, <3>2, <4>1, <5>1
      <4>4. CASE \E v \in f[n] : u \in U[v]
        <5>1. PICK v \in f[n] : u \in U[v]
          BY <4>4
        <5>2. v \in Tasks /\ v \in R[u]
          BY <3>2, <5>1 DEF Turned
        <5>3. after[n][v] >= BasePriority[w] /\ after[n + 1][u] >= after[n][v]
          BY <1>5, <2>6, <3>1, <4>1, <5>1, <5>2
        <5>4. QED
          BY <1>4, <2>2, <3>2, <4>1, <5>2, <5>3
      <4>5. QED
        BY <4>2, <4>3, <4>4
    <3>4. QED
      BY <3>1, <3>3
  <2> HIDE DEF T
  <2>7. TaskCount \in T
    <3>1. \A n \in 0 .. TaskCount - 1 : n \in T => n + 1 \in T
      BY <2>6
    <3>2. \A n \in 0 .. TaskCount : n \in T
      BY <1>3, <2>5, <3>1, LoopInduction
    <3>3. QED
      BY <1>3, <3>2
  <2>8. after[TaskCount][t] >= BasePriority[w]
    BY <2>4, <2>7 DEF T
  \* the passes beyond TaskCount lower nothing
  <2> DEFINE V == {n \in 0 .. MaxTasks : n >= TaskCount => after[n][t] >= BasePriority[w]}
  <2>9. 0 \in V
    <3>1. 0 >= TaskCount => 0 = TaskCount
      BY <1>3
    <3>2. QED
      BY <1>3, <2>8, <3>1
  <2>10. ASSUME NEW n \in 0 .. MaxTasks - 1, n \in V PROVE n + 1 \in V
    <3>1. n \in 0 .. MaxTasks /\ n + 1 \in 0 .. MaxTasks
      BY <1>3
    <3>2. after[n][t] \in Int /\ after[n + 1][t] \in Int /\ after[n + 1][t] >= after[n][t]
      BY <1>4, <1>5, <3>1
    <3>3. n + 1 >= TaskCount => n >= TaskCount \/ n + 1 = TaskCount
      BY <1>3, <3>1
    <3>4. CASE n >= TaskCount
      BY <2>2, <2>10, <3>1, <3>2, <3>4
    <3>5. CASE n + 1 = TaskCount
      BY <2>8, <3>1, <3>5
    <3>6. QED
      BY <3>1, <3>3, <3>4, <3>5
  <2> HIDE DEF V
  <2>11. MaxTasks \in V
    BY <1>3, <2>9, <2>10, LoopInduction
  <2>12. QED
    BY <1>3, <2>11 DEF V
<1>8. QED
  BY <1>2, <1>6, <1>7 DEF Inherited, Earned, R

-------------------------------------------------------------------------------
(* The nesting of critical sections, which only their entry and exit change. *)

\* The operations on lists, and the switch.
LEMMA ListsKeepNesting ==
    ASSUME NEW k \in GoodKernel, NEW t \in Tasks
    PROVE  /\ ReadyEnqueue(k, t).nesting = k.nesting
           /\ ReadyRemove(k, t).nesting = k.nesting
           /\ SwitchToHighest(k).nesting = k.nesting
           /\ TimeDelayListRemove(k, t).nesting = k.nesting
           /\ \A target : TimeDelayListInsert(k, t, target).nesting = k.nesting
           /\ \A l : WaitInsertByPriority(k, l, t).nesting = k.nesting
           /\ \A l : WaitRemove(k, l, t).nesting = k.nesting
           /\ \A l : WaitPop(k, l).nesting = k.nesting
           /\ \A status : SetResult(k, t, status).nesting = k.nesting
<1>1. k \in Kernel
  BY DEF GoodKernel
<1>2. ReadyEnqueue(k, t).nesting = k.nesting
  BY <1>1 DEF ReadyEnqueue, Kernel
<1>3. ReadyRemove(k, t).nesting = k.nesting
  BY <1>1 DEF ReadyRemove, Kernel
<1>4. SwitchToHighest(k).nesting = k.nesting
  BY <1>1 DEF SwitchToHighest, Kernel
<1>5. TimeDelayListRemove(k, t).nesting = k.nesting
  BY <1>1 DEF TimeDelayListRemove, Kernel
<1>6. ASSUME NEW target PROVE TimeDelayListInsert(k, t, target).nesting = k.nesting
  BY <1>1 DEF TimeDelayListInsert, TimeDelayListRemove, Kernel
<1>7. \A l : WaitInsertByPriority(k, l, t).nesting = k.nesting
  BY <1>1 DEF WaitInsertByPriority, Kernel
<1>8. \A l : WaitRemove(k, l, t).nesting = k.nesting
  BY <1>1 DEF WaitRemove, Kernel
<1>9. \A l : WaitPop(k, l).nesting = k.nesting
  BY <1>1 DEF WaitPop, Kernel
<1>10. \A status : SetResult(k, t, status).nesting = k.nesting
  BY <1>1 DEF SetResult, Kernel
<1>11. QED
  BY <1>2, <1>3, <1>4, <1>5, <1>6, <1>7, <1>8, <1>9, <1>10

\* The scheduler's decisions.
LEMMA SchedulingKeepsNesting ==
    ASSUME NEW k \in GoodKernel
    PROVE  /\ \A rotate : SchedSchedule(k, rotate).nesting = k.nesting
           /\ SchedYieldCurrent(k).nesting = k.nesting
           /\ SchedCurrentBlocked(k).nesting = k.nesting
           /\ \A woken : WaitMaybePreempt(k, woken).nesting = k.nesting
<1>1. k \in Kernel
  BY DEF GoodKernel
<1>2. ASSUME CurrentRuns(k) PROVE SwitchToHighest(RequeueCurrent(k)).nesting = k.nesting
  <2> DEFINE t == k.current
             j == [k EXCEPT !.state[t] = "READY"]
  <2>1. t \in Tasks
    BY <1>1, <1>2 DEF CurrentRuns, Kernel
  <2>2. j \in GoodKernel /\ j.nesting = k.nesting
    BY <1>1, <2>1 DEF GoodKernel, Kernel, TaskStates
  <2>3. RequeueCurrent(k) = ReadyEnqueue(j, t)
    BY DEF RequeueCurrent
  <2> HIDE DEF j, t
  <2>4. ReadyEnqueue(j, t) \in GoodKernel /\ ReadyEnqueue(j, t).nesting = k.nesting
    BY <2>1, <2>2, ReadyEnqueueGood, ListsKeepNesting
  <2>5. QED
    BY <2>1, <2>3, <2>4, ListsKeepNesting
<1>3. Tasks # {}
  BY OsKernelAssumption DEF Tasks
<1>4. SwitchToHighest(k).nesting = k.nesting
  BY <1>3, ListsKeepNesting
<1>5. \A rotate : SchedSchedule(k, rotate).nesting = k.nesting
  BY <1>2, <1>4 DEF SchedSchedule
<1>6. SchedYieldCurrent(k).nesting = k.nesting /\ SchedCurrentBlocked(k).nesting = k.nesting
  BY <1>2, <1>4 DEF SchedYieldCurrent, SchedCurrentBlocked
<1>7. \A woken : WaitMaybePreempt(k, woken).nesting = k.nesting
  BY <1>1, <1>5 DEF WaitMaybePreempt, Kernel
<1>8. QED
  BY <1>5, <1>6, <1>7

\* A change of priority, a wake-up and the start of a wait.
LEMMA WaitingKeepsNesting ==
    ASSUME NEW k \in GoodKernel, NEW t \in Tasks
    PROVE  /\ \A x \in Int : TaskSetEffectivePriority(k, t, x).nesting = k.nesting
           /\ \A status \in Statuses : WaitMakeReady(k, t, status).nesting = k.nesting
           /\ \A l \in WaitLists : \A timeout \in Ticks :
                 WaitBlockCurrent(k, l, timeout).nesting = k.nesting
<1>1. k \in Kernel
  BY DEF GoodKernel
<1>2. ASSUME NEW x \in Int PROVE TaskSetEffectivePriority(k, t, x).nesting = k.nesting
  <2> DEFINE taken == ReadyRemove(k, t)
             moved == [taken EXCEPT !.effective[t] = x]
             l == k.waitOn[t]
             off == WaitRemove(k, l, t)
             changed == [off EXCEPT !.effective[t] = x]
             only == [k EXCEPT !.effective[t] = x]
  <2>1. TaskSetEffectivePriority(k, t, x) \in
            {k, ReadyEnqueue(moved, t), WaitInsertByPriority(changed, l, t), only}
    BY Zenon DEF TaskSetEffectivePriority
  <2>2. taken \in Kernel /\ off \in Kernel /\ taken.nesting = k.nesting /\ off.nesting = k.nesting
    BY ReadyRemoveGood, WaitRemoveGood, ListsKeepNesting DEF GoodKernel
  <2>3. only.nesting = k.nesting
    BY <1>1 DEF Kernel
  <2> HIDE DEF taken, off
  <2>4. moved.nesting = k.nesting /\ changed.nesting = k.nesting
    BY <2>2 DEF Kernel
  <2>5. ReadyEnqueue(moved, t).nesting = moved.nesting
    BY <2>2 DEF ReadyEnqueue, Kernel
  <2>6. WaitInsertByPriority(changed, l, t).nesting = changed.nesting
    BY <2>2 DEF WaitInsertByPriority, Kernel
  <2>7. QED
    BY <2>1, <2>3, <2>4, <2>5, <2>6
<1>3. ASSUME NEW status \in Statuses PROVE WaitMakeReady(k, t, status).nesting = k.nesting
  <2> DEFINE off == TimeDelayListRemove(k, t)
             ended == [off EXCEPT !.waitOn[t] = NoWait, !.result[t] = status, !.state[t] = "READY"]
  <2>1. WaitMakeReady(k, t, status) \in {k, ReadyEnqueue(ended, t)}
    BY Zenon DEF WaitMakeReady
  <2>2. off \in Kernel /\ off.nesting = k.nesting
    BY TimeDelayListRemoveGood, ListsKeepNesting DEF GoodKernel
  <2> HIDE DEF off
  <2>3. ended.nesting = k.nesting
    BY <2>2 DEF Kernel
  <2>4. ReadyEnqueue(ended, t).nesting = ended.nesting
    BY <2>2 DEF ReadyEnqueue, Kernel
  <2>5. QED
    BY <2>1, <2>3, <2>4
<1>4. ASSUME NEW l \in WaitLists, NEW timeout \in Ticks
      PROVE  WaitBlockCurrent(k, l, timeout).nesting = k.nesting
  <2>1. CASE ~CurrentRuns(k)
    BY <2>1 DEF WaitBlockCurrent
  <2>2. ASSUME CurrentRuns(k), NEW c \in Tasks, c = k.current
        PROVE  WaitBlockCurrent(k, l, timeout).nesting = k.nesting
    <3> DEFINE waits == [k EXCEPT !.waitOn[c] = l, !.result[c] = "BAD_STATE",
                                  !.state[c] = "BLOCKED_OBJECT"]
               blocked == WaitInsertByPriority(waits, l, c)
               target == (k.tick + Clamp(timeout)) % TickModulus
               timed == TimeDelayListInsert(blocked, c, target)
    <3>1. WaitBlockCurrent(k, l, timeout) \in {SchedCurrentBlocked(blocked), SchedCurrentBlocked(timed)}
      BY <2>2, Zenon DEF WaitBlockCurrent
    <3>2. waits \in GoodKernel /\ waits.nesting = k.nesting
      BY <1>1 DEF GoodKernel, Kernel, TaskStates, Statuses
    <3>3. target \in Ticks
      <4>1. Clamp(timeout) \in Int /\ k.tick \in Int
        BY <1>1, OsKernelAssumption DEF Clamp, MaxDelay, Ticks, Kernel
      <4>2. k.tick + Clamp(timeout) \in Int
        BY <4>1
      <4>3. QED
        BY <4>2, TickRange
    <3> HIDE DEF waits, target
    <3>4. blocked \in GoodKernel /\ blocked.nesting = k.nesting
      BY <3>2, WaitInsertByPriorityGood, ListsKeepNesting
    <3> HIDE DEF blocked
    <3>5. timed \in GoodKernel /\ timed.nesting = k.nesting
      BY <3>3, <3>4, TimeDelayListInsertGood, ListsKeepNesting
    <3> HIDE DEF timed
    <3>6. QED
      BY <3>1, <3>4, <3>5, SchedulingKeepsNesting
  <2>3. CurrentRuns(k) => k.current \in Tasks
    BY <1>1 DEF CurrentRuns, Kernel
  <2>4. QED
    BY <2>1, <2>2, <2>3
<1>5. QED
  BY <1>2, <1>3, <1>4

\* The loops over the tasks and over the mutexes.
LEMMA MutexesKeepNesting ==
    ASSUME NEW k \in GoodKernel
    PROVE  /\ MutexWaitersChanged(k).nesting = k.nesting
           /\ \A t \in Tasks : MutexReleaseTask(k, t).nesting = k.nesting
<1>1. ASSUME NEW j \in GoodKernel PROVE MutexWaitersChanged(j).nesting = j.nesting
  <2>1. PICK after \in [0 .. TaskCount -> GoodKernel], desired \in Wishes :
            /\ after[0] = j
            /\ \A t \in Tasks : after[t + 1] = TaskSetEffectivePriority(after[t], t, desired[t])
            /\ MutexWaitersChanged(j) = after[TaskCount]
    BY MutexWaitersChangedLoop
  <2> DEFINE T == {n \in 0 .. TaskCount : after[n].nesting = j.nesting}
  <2>2. TaskCount \in Nat /\ 0 .. TaskCount - 1 = Tasks
    BY OsKernelAssumption DEF Tasks
  <2>3. 0 \in T
    BY <2>1, <2>2
  <2>4. ASSUME NEW n \in 0 .. TaskCount - 1, n \in T PROVE n + 1 \in T
    <3>1. n \in Tasks /\ n \in 0 .. TaskCount /\ n + 1 \in 0 .. TaskCount /\ after[n] \in GoodKernel
      BY <2>2
    <3>2. desired[n] \in Int
      BY <3>1, OsKernelAssumption DEF Wishes, Priorities
    <3>3. TaskSetEffectivePriority(after[n], n, desired[n]).nesting = after[n].nesting
      BY <3>1, <3>2, WaitingKeepsNesting
    <3>4. QED
      BY <2>1, <2>4, <3>1, <3>3
  <2> HIDE DEF T
  <2>5. TaskCount \in T
    BY <2>2, <2>3, <2>4, LoopInduction
  <2>6. QED
    BY <2>1, <2>5 DEF T
<1>2. ASSUME NEW t \in Tasks, NEW j \in GoodKernel, NEW m \in Mutexes
      PROVE  HandOver(j, m, t).nesting = j.nesting
  <2> DEFINE l == MutexWaiters(m)
             w == WaitHead(j, l)
             popped == WaitPop(j, l)
             given == [popped EXCEPT !.owner[m] = w]
  <2>1. l \in WaitLists
    BY DEF WaitLists
  <2>2. w \in Tasks \cup {NoTask} /\ popped \in GoodKernel /\ popped.nesting = j.nesting
    <3>1. Tasks # {}
      OBVIOUS
    <3>2. QED
      BY <2>1, <3>1, WaitHeadType, WaitPopGood, ListsKeepNesting
  <2>3. HandOver(j, m, t) \in {j, given} \cup IF w = NoTask THEN {} ELSE {WaitMakeReady(given, w, "OK")}
    BY DEF HandOver
  <2> HIDE DEF w, popped
  <2>4. given \in GoodKernel /\ given.nesting = j.nesting
    BY <2>2 DEF GoodKernel, Kernel
  <2>5. w # NoTask => WaitMakeReady(given, w, "OK").nesting = given.nesting
    <3> HIDE DEF given
    <3>1. "OK" \in Statuses
      BY DEF Statuses
    <3>2. QED
      BY <2>2, <2>4, <3>1, WaitingKeepsNesting
  <2>6. QED
    BY <2>3, <2>4, <2>5
<1>3. ASSUME NEW t \in Tasks PROVE MutexReleaseTask(k, t).nesting = k.nesting
  <2>1. PICK after \in [0 .. MutexCount -> GoodKernel] :
            /\ after[0] = k
            /\ \A m \in Mutexes : after[m + 1] = HandOver(after[m], m, t)
            /\ MutexReleaseTask(k, t) = IF \E m \in Mutexes : k.owner[m] = t
                                        THEN MutexWaitersChanged(after[MutexCount]) ELSE k
    BY MutexReleaseTaskLoop
  <2> DEFINE T == {n \in 0 .. MutexCount : after[n].nesting = k.nesting}
  <2>2. MutexCount \in Nat /\ 0 .. MutexCount - 1 = Mutexes
    BY OsKernelAssumption DEF Mutexes
  <2>3. 0 \in T
    BY <2>1, <2>2
  <2>4. ASSUME NEW n \in 0 .. MutexCount - 1, n \in T PROVE n + 1 \in T
    <3>1. n \in Mutexes /\ n \in 0 .. MutexCount /\ n + 1 \in 0 .. MutexCount /\ after[n] \in GoodKernel
      BY <2>2
    <3>2. QED
      BY <1>2, <2>1, <2>4, <3>1
  <2> HIDE DEF T
  <2>5. MutexCount \in T
    BY <2>2, <2>3, <2>4, LoopInduction
  <2>6. after[MutexCount].nesting = k.nesting /\ after[MutexCount] \in GoodKernel
    BY <2>2, <2>5 DEF T
  <2>7. QED
    BY <1>1, <2>1, <2>6
<1>4. QED
  BY <1>1, <1>3

\* The tick.
LEMMA TickKeepsNesting ==
    ASSUME NEW k \in GoodKernel
    PROVE  /\ AdvanceTick(k).nesting = k.nesting
           /\ k.delayed # <<>> => WakeHead(k).nesting = k.nesting
           /\ UseSlice(k).nesting = k.nesting
           /\ \A wokeHigher : TickSwitch(k, wokeHigher).nesting = k.nesting
<1>1. k \in Kernel
  BY DEF GoodKernel
<1>2. AdvanceTick(k).nesting = k.nesting /\ UseSlice(k).nesting = k.nesting
  BY <1>1 DEF AdvanceTick, UseSlice, Kernel
<1>3. ASSUME NEW wokeHigher PROVE TickSwitch(k, wokeHigher).nesting = k.nesting
  <2> DEFINE rotated == SchedSchedule(k, TRUE)
  <2>1. TickSwitch(k, wokeHigher) \in {SchedSchedule(k, FALSE), k, rotated, [rotated EXCEPT !.slice = TimeSlice]}
    BY DEF TickSwitch
  <2>2. rotated \in Kernel /\ rotated.nesting = k.nesting /\ SchedSchedule(k, FALSE).nesting = k.nesting
    BY SchedScheduleGood, SchedulingKeepsNesting DEF GoodKernel
  <2> HIDE DEF rotated
  <2>3. [rotated EXCEPT !.slice = TimeSlice].nesting = k.nesting
    BY <2>2 DEF Kernel
  <2>4. QED
    BY <2>1, <2>2, <2>3
<1>4. ASSUME k.delayed # <<>> PROVE WakeHead(k).nesting = k.nesting
  <2> DEFINE t == Head(k.delayed)
             j == PopDelayed(k)
             l == j.waitOn[t]
             ended == [j EXCEPT !.state[t] = "READY"]
             off == WaitRemove(j, l, t)
             timedOut == WaitMakeReady(off, t, "TIMEOUT")
  <2>1. WakeHead(k) \in {ReadyEnqueue(ended, t), timedOut, MutexWaitersChanged(timedOut), j}
    BY DEF WakeHead, Wake
  <2>2. t \in Tasks /\ Tail(k.delayed) \in Seq(Tasks)
    BY <1>1, <1>4 DEF Kernel
  <2>3. j \in GoodKernel /\ j.nesting = k.nesting
    BY <1>1, <2>2, TickRange DEF PopDelayed, GoodKernel, Kernel
  <2> HIDE DEF j, t
  <2>4. ReadyEnqueue(ended, t).nesting = k.nesting
    BY <2>3 DEF ReadyEnqueue, GoodKernel, Kernel
  <2>5. off \in GoodKernel /\ off.nesting = k.nesting
    BY <2>2, <2>3, WaitRemoveGood, ListsKeepNesting
  <2>6. "TIMEOUT" \in Statuses
    BY DEF Statuses
  <2> HIDE DEF off
  <2>7. timedOut \in GoodKernel /\ timedOut.nesting = k.nesting
    BY <2>2, <2>5, <2>6, WaitMakeReadyGood, WaitingKeepsNesting
  <2> HIDE DEF timedOut
  <2>8. MutexWaitersChanged(timedOut).nesting = k.nesting
    BY <2>7, MutexesKeepNesting
  <2>9. QED
    BY <2>1, <2>3, <2>4, <2>7, <2>8
<1>5. QED
  BY <1>2, <1>3, <1>4

-------------------------------------------------------------------------------
(* The priorities that os_MutexWaitersChanged assigns. *)

\* Who waits for whom, by what each task waits on; a loose task has left its list.
WaitGraph(k, loose) ==
    [o \in Tasks |-> {w \in Tasks \ loose : \E m \in Mutexes :
                         k.waitOn[w] = MutexWaiters(m) /\ k.owner[m] = o}]

\* The lists tell the same as what the tasks wait on.
LEMMA ListsTellWaiting ==
    ASSUME NEW k, NEW S, Consistent(k, S)
    PROVE  ListGraph(k) = WaitGraph(k, S) /\ WaitGraph(k, S) \in WaitGraphs
<1>1. \A m \in Mutexes : MutexWaiters(m) \in WaitLists
  BY DEF WaitLists
<1>2. ASSUME NEW m \in Mutexes, NEW w \in Tasks
      PROVE  w \in ToSet(k.waiters[MutexWaiters(m)]) <=> w \notin S /\ k.waitOn[w] = MutexWaiters(m)
  <2>1. Exact(k.waiters[MutexWaiters(m)], {t \in Tasks \ S : k.waitOn[t] = MutexWaiters(m)})
    BY <1>1 DEF Consistent, WaitersExact
  <2>2. w \in {t \in Tasks \ S : k.waitOn[t] = MutexWaiters(m)} <=>
            w \in ToSet(k.waiters[MutexWaiters(m)])
    BY <2>1, ExactList
  <2>3. QED
    BY <2>2
<1>3. \A o \in Tasks : ListGraph(k)[o] = WaitGraph(k, S)[o]
  BY <1>2 DEF ListGraph, WaitGraph
<1>4. QED
  BY <1>3 DEF ListGraph, WaitGraph, WaitGraphs

\* A task for whose mutexes nobody waits holds up only itself.
LEMMA HeldAlone ==
    ASSUME NEW R \in WaitGraphs, NEW t \in Tasks, R[t] = {}
    PROVE  Held(R, t) = {t}
<1>1. {t} \in SUBSET Tasks /\ Closed(R, {t})
  BY DEF Closed
<1>2. QED
  BY <1>1, HeldLeast

\* What is inherited follows from who waits for whom.
LEMMA InheritedCompare ==
    ASSUME NEW R \in WaitGraphs, NEW Q \in WaitGraphs, NEW e \in Wishes, NEW f \in Wishes,
           Inherited(e, R), Inherited(f, Q), NEW x \in Tasks, NEW y \in Tasks, NEW z \in Tasks,
           Held(R, x) \subseteq Held(Q, y) \cup Held(Q, z)
    PROVE  e[x] <= f[y] \/ e[x] <= f[z]
<1>1. PICK w \in Held(R, x) : e[x] = BasePriority[w]
  BY DEF Inherited
<1>2. f[y] >= BasePriority[w] \/ f[z] >= BasePriority[w]
  BY DEF Inherited
<1>3. w \in Tasks
  BY HeldLeast
<1>4. e[x] \in Int /\ f[y] \in Int /\ f[z] \in Int /\ BasePriority[w] \in Int
  BY <1>3, OsKernelAssumption DEF Wishes, Priorities
<1>5. QED
  BY <1>1, <1>2, <1>4

\* One graph has one inheritance.
LEMMA InheritedUnique ==
    ASSUME NEW R \in WaitGraphs, NEW e \in Wishes, NEW f \in Wishes, Inherited(e, R), Inherited(f, R)
    PROVE  e = f
<1>1. ASSUME NEW x \in Tasks PROVE e[x] = f[x]
  <2>1. e[x] <= f[x] /\ f[x] <= e[x]
    BY InheritedCompare
  <2>2. e[x] \in Int /\ f[x] \in Int
    BY OsKernelAssumption DEF Wishes, Priorities
  <2>3. QED
    BY <2>1, <2>2
<1>2. QED
  BY <1>1 DEF Wishes

\* os_TaskSetEffectivePriority gives the task the priority, unless it is one that
\* an application's task cannot have.
LEMMA TaskSetEffectivePriorityIs ==
    ASSUME NEW k, NEW S, Consistent(k, S), NEW t \in Tasks, NEW x \in Priorities,
           k.state[t] = "READY" => t \notin S,
           x > IdlePriority \/ x = k.effective[t]
    PROVE  TaskSetEffectivePriority(k, t, x).effective = [k.effective EXCEPT ![t] = x]
<1> DEFINE taken == ReadyRemove(k, t)
           moved == [taken EXCEPT !.effective[t] = x]
           l == k.waitOn[t]
           off == WaitRemove(k, l, t)
           changed == [off EXCEPT !.effective[t] = x]
           only == [k EXCEPT !.effective[t] = x]
           r == TaskSetEffectivePriority(k, t, x)
<1>1. k \in Kernel /\ k.effective \in [Tasks -> Priorities]
  BY DEF Consistent, GoodKernel, Kernel
<1>2. k.state[t] = "READY" => ScheduleLinked(k, t)
  BY WhoIsLinked
<1>3. CASE x = k.effective[t]
  <2>1. r = k
    BY <1>3, Zenon DEF TaskSetEffectivePriority
  <2>2. QED
    BY <1>1, <1>3, <2>1
<1>4. CASE x # k.effective[t]
  <2>1. ~(x <= IdlePriority \/ x >= PriorityCount \/ k.effective[t] = x)
    <3>1. x \in Int /\ x < PriorityCount /\ IdlePriority \in Int /\ PriorityCount \in Int
      BY OsKernelAssumption DEF Priorities, IdlePriority
    <3>2. x > IdlePriority
      BY <1>4
    <3>3. QED
      BY <1>4, <3>1, <3>2
  <2>2. r \in {ReadyEnqueue(moved, t), WaitInsertByPriority(changed, l, t), only}
    BY <1>2, <2>1, Zenon DEF TaskSetEffectivePriority
  <2>3. taken \in Kernel /\ off \in Kernel /\ taken.effective = k.effective /\ off.effective = k.effective
    <3>1. k \in GoodKernel
      BY DEF Consistent
    <3>2. taken \in Kernel /\ off \in Kernel
      BY <3>1, ReadyRemoveGood, WaitRemoveGood DEF GoodKernel
    <3>3. taken.effective = k.effective
      BY <1>1 DEF ReadyRemove, Kernel
    <3>4. off.effective = k.effective
      BY <1>1 DEF WaitRemove, Kernel
    <3>5. QED
      BY <3>2, <3>3, <3>4
  <2>4. only.effective = [k.effective EXCEPT ![t] = x]
    BY <1>1 DEF Kernel
  <2> HIDE DEF taken, off
  <2>5. moved.effective = [k.effective EXCEPT ![t] = x] /\ changed.effective = [k.effective EXCEPT ![t] = x]
    BY <2>3 DEF Kernel
  <2>6. ReadyEnqueue(moved, t).effective = moved.effective
    BY <2>3 DEF ReadyEnqueue, Kernel
  <2>7. WaitInsertByPriority(changed, l, t).effective = changed.effective
    BY <2>3 DEF WaitInsertByPriority, Kernel
  <2>8. QED
    BY <2>2, <2>4, <2>5, <2>6, <2>7
<1>5. QED
  BY <1>3, <1>4

\* The Idle task takes no mutexes and waits for none.
IdleApart(k) ==
    \A t \in Tasks : IsIdle(t) =>
        /\ k.state[t] \in {"READY", "RUNNING"}
        /\ \A m \in Mutexes : k.owner[m] # t

\* os_MutexWaitersChanged makes every priority the inherited one.
LEMMA MutexWaitersChangedInherits ==
    ASSUME NEW k, NEW S, Consistent(k, S),
           \A t \in Tasks : t \in S => k.state[t] # "READY",
           \A t \in Tasks : IsIdle(t) => k.effective[t] = IdlePriority /\ \A m \in Mutexes : k.owner[m] # t
    PROVE  Inherited(MutexWaitersChanged(k).effective, WaitGraph(k, S))
<1> DEFINE R == WaitGraph(k, S)
<1>1. k \in GoodKernel /\ R \in WaitGraphs /\ ListGraph(k) = R
  BY ListsTellWaiting DEF Consistent
<1>2. PICK after \in [0 .. TaskCount -> GoodKernel], desired \in Wishes :
          /\ desired = DesiredPriority(k)
          /\ after[0] = k
          /\ \A t \in Tasks : after[t + 1] = TaskSetEffectivePriority(after[t], t, desired[t])
          /\ MutexWaitersChanged(k) = after[TaskCount]
  BY <1>1, MutexWaitersChangedLoop
<1>3. Inherited(desired, R)
  BY <1>1, <1>2, DesiredPriorityExact
<1>4. ASSUME NEW t \in Tasks
      PROVE  desired[t] > IdlePriority \/ desired[t] = k.effective[t]
  <2>1. CASE IsIdle(t)
    <3>1. R[t] = {}
      BY <2>1 DEF WaitGraph
    <3> HIDE DEF R
    <3>2. Held(R, t) = {t}
      BY <1>1, <3>1, HeldAlone
    <3>3. desired[t] = BasePriority[t]
      BY <1>3, <3>2 DEF Inherited
    <3>4. QED
      BY <2>1, <3>3 DEF IsIdle
  <2>2. CASE ~IsIdle(t)
    <3> HIDE DEF R
    <3>1. t \in Held(R, t)
      BY <1>1, HeldLeast
    <3>2. desired[t] >= BasePriority[t]
      BY <1>3, <3>1 DEF Inherited
    <3>3. desired[t] \in Nat /\ BasePriority[t] \in Nat /\ BasePriority[t] # IdlePriority
      BY <2>2, OsKernelAssumption DEF Wishes, Priorities, IsIdle
    <3>4. QED
      BY <3>2, <3>3 DEF IdlePriority
  <2>3. QED
    BY <2>1, <2>2
<1> HIDE DEF R
<1>5. TaskCount \in Nat /\ 0 .. TaskCount - 1 = Tasks
  BY OsKernelAssumption DEF Tasks
<1> DEFINE Assigned(j, n) ==
               /\ Consistent(j, S) /\ j.state = k.state
               /\ \A t \in Tasks : j.effective[t] = IF t < n THEN desired[t] ELSE k.effective[t]
           T == {n \in 0 .. TaskCount : Assigned(after[n], n)}
<1>6. 0 \in T
  <2>1. \A t \in Tasks : ~(t < 0)
    BY <1>5
  <2>2. QED
    BY <1>2, <1>5, <2>1
<1>7. ASSUME NEW n \in 0 .. TaskCount - 1, n \in T PROVE n + 1 \in T
  <2>1. n \in Tasks /\ n \in 0 .. TaskCount /\ n + 1 \in 0 .. TaskCount /\ n \in Int
    BY <1>5
  <2> DEFINE j == after[n]
             x == desired[n]
             r == TaskSetEffectivePriority(j, n, x)
  <2>2. after[n + 1] = r
    BY <1>2, <2>1
  <2>3. Assigned(j, n) /\ x \in Priorities
    BY <1>7, <2>1 DEF Wishes
  <2>4. j.effective[n] = k.effective[n] /\ j.effective \in [Tasks -> Priorities]
    <3>1. ~(n < n)
      BY <2>1
    <3>2. j.effective[n] = k.effective[n]
      BY <2>1, <2>3, <3>1
    <3>3. QED
      BY <2>3, <3>2, FieldTypes DEF Consistent
  <2>5. x > IdlePriority \/ x = j.effective[n]
    BY <1>4, <2>1, <2>4
  <2>6. j.state[n] = "READY" => n \notin S
    BY <2>1, <2>3
  <2> HIDE DEF j, x
  <2>7. r.effective = [j.effective EXCEPT ![n] = x]
    BY <2>1, <2>3, <2>5, <2>6, TaskSetEffectivePriorityIs
  <2>8. Consistent(r, S) /\ r.state = k.state
    BY <2>1, <2>3, TaskSetEffectivePriorityExact DEF SameTasks
  <2>9. ASSUME NEW t \in Tasks
        PROVE  r.effective[t] = IF t < n + 1 THEN desired[t] ELSE k.effective[t]
    <3>1. t \in Int
      BY <1>5
    <3>2. CASE t = n
      BY <2>1, <2>4, <2>7, <3>1, <3>2 DEF x
    <3>3. CASE t # n
      <4>1. r.effective[t] = j.effective[t]
        BY <2>4, <2>7, <3>3
      <4>2. t < n + 1 <=> t < n
        BY <2>1, <3>1, <3>3
      <4>3. QED
        BY <2>3, <4>1, <4>2
    <3>4. QED
      BY <3>2, <3>3
  <2>10. Assigned(r, n + 1)
    BY <2>8, <2>9
  <2> HIDE DEF r, Assigned
  <2>11. QED
    BY <2>1, <2>2, <2>10
<1> HIDE DEF T
<1>8. TaskCount \in T
  BY <1>5, <1>6, <1>7, LoopInduction
<1>9. Assigned(after[TaskCount], TaskCount)
  BY <1>8 DEF T
<1>10. \A t \in Tasks : after[TaskCount].effective[t] = desired[t]
  <2>1. \A t \in Tasks : t < TaskCount
    BY <1>5
  <2>2. QED
    BY <1>9, <2>1
<1>11. QED
  BY <1>2, <1>3, <1>10 DEF Inherited, R

-------------------------------------------------------------------------------
(* Who runs. *)

\* No READY task outranks the one that runs.
Highest(k) ==
    \A t \in Tasks : k.state[t] = "READY" =>
        k.current # NoTask /\ k.effective[t] <= k.effective[k.current]

\* The bitmap knows of every READY task.
LEMMA ReadyBits ==
    ASSUME NEW k, Consistent(k, {}), NEW t \in Tasks, k.state[t] = "READY"
    PROVE  /\ k.effective[t] \in k.bitmap
           /\ Max(k.bitmap) \in k.bitmap /\ k.effective[t] <= Max(k.bitmap)
<1>1. k \in GoodKernel /\ k \in Kernel /\ k.effective[t] \in Priorities
  BY FieldTypes DEF Consistent, GoodKernel
<1> DEFINE Q == {u \in Tasks \ {} : k.state[u] = "READY" /\ k.effective[u] = k.effective[t]}
           list == k.ready[k.effective[t]]
<1>2. Exact(list, Q)
  BY <1>1 DEF Consistent, ReadyExact
<1>3. t \in Q \cap Tasks
  OBVIOUS
<1> HIDE DEF Q, list
<1>4. list # <<>>
  BY <1>2, <1>3, EmptyExact
<1>5. k.effective[t] \in k.bitmap
  BY <1>1, <1>4 DEF GoodKernel, list
<1>6. k.bitmap \subseteq 0 .. PriorityCount - 1 /\ PriorityCount - 1 \in Nat
  BY <1>1, OsKernelAssumption DEF Kernel, Priorities
<1>7. Max(k.bitmap) \in k.bitmap /\ \A y \in k.bitmap : Max(k.bitmap) >= y
  BY <1>5, <1>6, MaximumOfRange
<1>8. Max(k.bitmap) \in Int /\ k.effective[t] \in Int
  BY <1>5, <1>6, <1>7
<1>9. QED
  BY <1>5, <1>7, <1>8

\* A switch puts the first of the highest on the processor.
LEMMA SwitchToHighestRuns ==
    ASSUME NEW k, Consistent(k, {})
    PROVE  Highest(SwitchToHighest(k))
<1> DEFINE r == SwitchToHighest(k)
           p == Max(k.bitmap)
           next == Head(k.ready[p])
<1>1. k \in GoodKernel /\ k \in Kernel /\ k.state \in [Tasks -> TaskStates] /\ NoTask \notin Tasks
  BY FieldTypes DEF Consistent, GoodKernel
<1>2. SUFFICES ASSUME NEW t \in Tasks, r.state[t] = "READY"
               PROVE  r.current # NoTask /\ r.effective[t] <= r.effective[r.current]
  BY DEF Highest
<1>3. CASE k.bitmap = {}
  <2>1. r.state = k.state
    BY <1>1, <1>3 DEF SwitchToHighest, Kernel
  <2>2. k.state[t] = "READY"
    BY <1>2, <2>1
  <2>3. QED
    BY <1>3, <2>2, ReadyBits
<1>4. CASE k.bitmap # {}
  <2>1. /\ r.state = [k.state EXCEPT ![next] = "RUNNING"] /\ r.current = next
        /\ r.effective = k.effective
    <3> DEFINE rest == Tail(k.ready[p])
               bits == IF rest = <<>> THEN k.bitmap \ {p} ELSE k.bitmap
    <3>1. r = [k EXCEPT !.ready[p] = rest, !.bitmap = bits, !.state[next] = "RUNNING",
                        !.current = next, !.slice = TimeSlice]
      BY <1>4 DEF SwitchToHighest
    <3> HIDE DEF p, next, rest, bits
    <3>2. QED
      BY <1>1, <3>1 DEF Kernel
  <2> HIDE DEF r
  <2>2. k.state[t] = "READY"
    BY <1>1, <1>2, <2>1
  <2>3. p \in k.bitmap /\ k.effective[t] <= p
    BY <2>2, ReadyBits
  <2> HIDE DEF p
  <2>4. p \in Priorities /\ k.ready[p] # <<>>
    BY <1>1, <2>3 DEF GoodKernel
  <2> DEFINE Q == {u \in Tasks \ {} : k.state[u] = "READY" /\ k.effective[u] = p}
  <2>5. Exact(k.ready[p], Q)
    BY <2>4 DEF Consistent, ReadyExact
  <2>6. next \in Q
    <3> HIDE DEF Q
    <3>1. QED
      BY <2>4, <2>5, PopExact
  <2>7. next \in Tasks /\ k.effective[next] = p
    BY <2>6
  <2>8. QED
    BY <1>1, <2>1, <2>3, <2>7
<1>5. QED
  BY <1>3, <1>4

\* The highest bit is not below any other.
LEMMA HighestBit ==
    ASSUME NEW N \in Nat, NEW k, k.bitmap \subseteq 0 .. N, NEW y \in k.bitmap
    PROVE  ReadyHighestPriority(k) >= y /\ ReadyHighestPriority(k) \in Int
<1> DEFINE B == k.bitmap \cup {-1}
<1>1. B \subseteq Int /\ \A z \in B : z <= N
  OBVIOUS
<1>2. \E x \in B : \A z \in B : x >= z
  <2>1. Max(k.bitmap) \in k.bitmap /\ \A z \in k.bitmap : Max(k.bitmap) >= z
    BY MaximumOfRange
  <2>2. Max(k.bitmap) >= -1 /\ Max(k.bitmap) \in B
    BY <1>1, <2>1
  <2>3. QED
    BY <2>1, <2>2
<1>3. Max(B) \in B /\ \A z \in B : Max(B) >= z
  BY <1>2 DEF Max
<1>4. QED
  BY <1>1, <1>3 DEF ReadyHighestPriority

\* So do the decisions that end in one; os_SchedSchedule may keep the running task.
LEMMA DecisionsRun ==
    ASSUME NEW k, Consistent(k, {})
    PROVE  /\ CurrentRuns(k) => Highest(SchedYieldCurrent(k))
           /\ k.current # NoTask /\ ~CurrentRuns(k) => Highest(SchedCurrentBlocked(k))
           /\ k.started => \A rotate : Highest(SchedSchedule(k, rotate))
<1>1. CurrentRuns(k) => Highest(SwitchToHighest(RequeueCurrent(k)))
  BY RequeueCurrentExact, SwitchToHighestRuns
<1>2. CurrentRuns(k) => Highest(SchedYieldCurrent(k))
  BY <1>1 DEF SchedYieldCurrent
<1>3. k.current # NoTask /\ ~CurrentRuns(k) => Highest(SchedCurrentBlocked(k))
  BY SwitchToHighestRuns DEF SchedCurrentBlocked
<1>4. ASSUME k.started, NEW rotate PROVE Highest(SchedSchedule(k, rotate))
  <2> DEFINE highest == ReadyHighestPriority(k)
             running == k.effective[k.current]
  <2>1. CASE ~CurrentRuns(k)
    BY <1>4, <2>1, SwitchToHighestRuns DEF SchedSchedule
  <2>2. CASE CurrentRuns(k)
    <3>1. CASE highest > running \/ (rotate /\ highest = running)
      BY <1>1, <1>4, <2>2, <3>1 DEF SchedSchedule
    <3>2. CASE ~(highest > running \/ (rotate /\ highest = running))
      <4>1. SchedSchedule(k, rotate) = k
        BY <1>4, <2>2, <3>2 DEF SchedSchedule
      <4>2. ASSUME NEW t \in Tasks, k.state[t] = "READY"
            PROVE  k.effective[t] <= k.effective[k.current]
        <5>1. k.bitmap \subseteq 0 .. PriorityCount - 1 /\ PriorityCount - 1 \in Nat
              /\ k.current \in Tasks
          BY <2>2, OsKernelAssumption DEF Consistent, GoodKernel, Kernel, Priorities, CurrentRuns
        <5>2. k.effective[t] \in k.bitmap
          BY <4>2, ReadyBits
        <5>3. highest >= k.effective[t] /\ highest \in Int
          BY <5>1, <5>2, HighestBit
        <5>4. running \in Int /\ k.effective[t] \in Int
          <6>1. k \in GoodKernel
            BY DEF Consistent
          <6>2. QED
            BY <5>1, <6>1, FieldTypes
        <5>5. ~(highest > running)
          BY <3>2
        <5>6. QED
          BY <5>3, <5>4, <5>5
      <4>3. k.current # NoTask
        BY <2>2 DEF CurrentRuns
      <4>4. Highest(k)
        BY <4>2, <4>3 DEF Highest
      <4>5. QED
        BY <4>1, <4>4
    <3>3. QED
      BY <3>1, <3>2
  <2>3. QED
    BY <2>1, <2>2
<1>5. QED
  BY <1>2, <1>3, <1>4

\* os_WaitMaybePreempt outside a critical section.
LEMMA PreemptRuns ==
    ASSUME NEW k, Consistent(k, {}), k.started, NEW w \in Tasks, k.nesting = 0,
           k.current # NoTask /\ k.effective[w] <= k.effective[k.current] => Highest(k)
    PROVE  Highest(WaitMaybePreempt(k, w))
<1>1. CASE k.current # NoTask /\ k.effective[w] <= k.effective[k.current]
  BY <1>1 DEF WaitMaybePreempt
<1>2. CASE ~(k.current # NoTask /\ k.effective[w] <= k.effective[k.current])
  <2>1. ~(k.nesting > 0)
    OBVIOUS
  <2>2. WaitMaybePreempt(k, w) = SchedSchedule(k, FALSE)
    BY <1>2, <2>1 DEF WaitMaybePreempt
  <2>3. QED
    BY <2>2, DecisionsRun
<1>3. QED
  BY <1>1, <1>2

\* The end of a critical section takes the switch that was deferred in it.
LEMMA ExitCriticalRuns ==
    ASSUME NEW k, Consistent(k, {}), k.nesting = 1
    PROVE  /\ ExitCritical(k).nesting = 0
           /\ k.started /\ (k.pending \/ Highest(k)) => Highest(ExitCritical(k))
<1> DEFINE out == [k EXCEPT !.nesting = 0, !.pending = FALSE]
           only == [k EXCEPT !.nesting = @ - 1]
<1>1. k \in Kernel /\ k.bitmap = {p \in Priorities : k.ready[p] # <<>>}
  BY DEF Consistent, GoodKernel
<1>2. ExitCritical(k) = IF k.pending THEN SchedSchedule(out, FALSE) ELSE only
  BY DEF ExitCritical
<1>3. CASE k.pending
  <2>1. /\ out \in Kernel /\ out.started = k.started /\ out.nesting = 0
        /\ out.state = k.state /\ out.current = k.current /\ out.effective = k.effective
        /\ out.ready = k.ready /\ out.waiters = k.waiters /\ out.delayed = k.delayed
        /\ out.overflow = k.overflow /\ out.waitOn = k.waitOn /\ out.bitmap = k.bitmap
    BY <1>1 DEF Kernel
  <2>2. ExitCritical(k) = SchedSchedule(out, FALSE)
    BY <1>2, <1>3
  <2> HIDE DEF out
  <2>3. out \in GoodKernel
    BY <1>1, <2>1 DEF GoodKernel
  <2>4. Consistent(out, {})
    BY <2>1, <2>3, FreeChange
  <2>5. SchedSchedule(out, FALSE).nesting = 0
    BY <2>1, <2>3, SchedulingKeepsNesting
  <2>6. out.started => Highest(SchedSchedule(out, FALSE))
    BY <2>4, DecisionsRun
  <2>7. QED
    BY <2>1, <2>2, <2>5, <2>6
<1>4. CASE ~k.pending
  <2>1. /\ only.state = k.state /\ only.current = k.current /\ only.effective = k.effective
        /\ only.nesting = 0
    BY <1>1 DEF Kernel
  <2>2. ExitCritical(k) = only
    BY <1>2, <1>4
  <2> HIDE DEF only
  <2>3. Highest(k) => Highest(only)
    BY <2>1 DEF Highest
  <2>4. QED
    BY <1>4, <2>1, <2>2, <2>3
<1>5. QED
  BY <1>3, <1>4

\* os_WaitMaybePreempt inside a critical section leaves the switch to its end.
LEMMA DeferredPreemptRuns ==
    ASSUME NEW k, Consistent(k, {}), NEW w \in Tasks, k.nesting = 1,
           k.current # NoTask /\ k.effective[w] <= k.effective[k.current] => Highest(k)
    PROVE  LET j == WaitMaybePreempt(k, w) IN j.pending \/ Highest(j)
<1> DEFINE j == WaitMaybePreempt(k, w)
<1>1. k \in Kernel
  BY DEF Consistent, GoodKernel
<1>2. CASE k.current # NoTask /\ k.effective[w] <= k.effective[k.current]
  <2>1. j = k
    BY <1>2 DEF WaitMaybePreempt
  <2>2. QED
    BY <1>2, <2>1
<1>3. CASE ~(k.current # NoTask /\ k.effective[w] <= k.effective[k.current])
  <2>1. j = [k EXCEPT !.pending = TRUE]
    BY <1>3 DEF WaitMaybePreempt
  <2> HIDE DEF j
  <2>2. j.pending
    BY <1>1, <2>1 DEF Kernel
  <2>3. QED
    BY <2>2 DEF j
<1>4. QED
  BY <1>2, <1>3

\* What a task holds up when nobody but w waits in more places.
LEMMA HeldWithOneMore ==
    ASSUME NEW R \in WaitGraphs, NEW Q \in WaitGraphs, NEW w \in Tasks,
           \A u \in Tasks : Q[u] \subseteq R[u] \cup {w}
    PROVE  \A x \in Tasks : Held(Q, x) \subseteq Held(R, x) \cup Held(R, w)
<1> SUFFICES ASSUME NEW x \in Tasks
             PROVE  Held(Q, x) \subseteq Held(R, x) \cup Held(R, w)
  OBVIOUS
<1> DEFINE S == Held(R, x) \cup Held(R, w)
<1>1. /\ x \in Held(R, x) /\ Held(R, x) \subseteq Tasks /\ Closed(R, Held(R, x))
      /\ w \in Held(R, w) /\ Held(R, w) \subseteq Tasks /\ Closed(R, Held(R, w))
  BY HeldLeast
<1>2. ASSUME NEW u \in S PROVE Q[u] \subseteq S
  <2>1. u \in Tasks
    BY <1>1
  <2>2. R[u] \subseteq S
    BY <1>1 DEF Closed
  <2>3. Q[u] \subseteq R[u] \cup {w}
    BY <2>1
  <2>4. QED
    BY <1>1, <2>2, <2>3
<1>3. x \in S /\ S \in SUBSET Tasks
  BY <1>1
<1> HIDE DEF S
<1>4. Held(Q, x) \subseteq S
  BY <1>2, <1>3, HeldLeast DEF Closed
<1>5. QED
  BY <1>4 DEF S

\* ... and when nobody does.
LEMMA HeldFewer ==
    ASSUME NEW R \in WaitGraphs, NEW Q \in WaitGraphs,
           \A u \in Tasks : Q[u] \subseteq R[u]
    PROVE  \A x \in Tasks : Held(Q, x) \subseteq Held(R, x)
<1> SUFFICES ASSUME NEW x \in Tasks PROVE Held(Q, x) \subseteq Held(R, x)
  OBVIOUS
<1>1. x \in Held(R, x) /\ Held(R, x) \in SUBSET Tasks /\ Closed(R, Held(R, x))
  BY HeldLeast
<1>2. Closed(Q, Held(R, x))
  <2>1. ASSUME NEW u \in Held(R, x) PROVE Q[u] \subseteq Held(R, x)
    BY <1>1 DEF Closed
  <2>2. QED
    BY <2>1 DEF Closed
<1>3. QED
  BY <1>1, <1>2, HeldLeast

\* The inheritance never falls when more tasks wait.
LEMMA InheritedGrows ==
    ASSUME NEW R \in WaitGraphs, NEW Q \in WaitGraphs, NEW e \in Wishes, NEW f \in Wishes,
           Inherited(e, R), Inherited(f, Q), \A u \in Tasks : R[u] \subseteq Q[u]
    PROVE  \A x \in Tasks : e[x] <= f[x]
<1> SUFFICES ASSUME NEW x \in Tasks PROVE e[x] <= f[x]
  OBVIOUS
<1>1. Held(R, x) \subseteq Held(Q, x) \cup Held(Q, x)
  BY HeldFewer
<1>2. QED
  BY <1>1, InheritedCompare

\* A task that starts or ends a wait changes a priority to no more than its own.
LEMMA InheritedWithOneMore ==
    ASSUME NEW R \in WaitGraphs, NEW Q \in WaitGraphs, NEW e \in Wishes, NEW f \in Wishes,
           Inherited(e, R), Inherited(f, Q), NEW w \in Tasks,
           \A u \in Tasks : R[u] \subseteq Q[u] \cup {w}
    PROVE  \A x \in Tasks : e[x] <= f[x] \/ e[x] <= f[w]
<1> SUFFICES ASSUME NEW x \in Tasks PROVE e[x] <= f[x] \/ e[x] <= f[w]
  OBVIOUS
<1>1. Held(R, x) \subseteq Held(Q, x) \cup Held(Q, w)
  BY HeldWithOneMore
<1>2. QED
  BY <1>1, InheritedCompare

\* An owner is not below a task that waits for it.
LEMMA OwnerNotBelow ==
    ASSUME NEW R \in WaitGraphs, NEW e \in Wishes, Inherited(e, R),
           NEW o \in Tasks, NEW w \in Tasks, w \in R[o]
    PROVE  e[w] <= e[o]
<1>1. w \in Held(R, o)
  BY HeldLeast DEF Closed
<1>2. Held(R, w) \subseteq Held(R, o) \cup Held(R, o)
  BY <1>1, HeldTransitive
<1>3. QED
  BY <1>2, InheritedCompare

\* A task that holds up nobody has its base priority.
LEMMA InheritedAlone ==
    ASSUME NEW R \in WaitGraphs, NEW e \in Wishes, Inherited(e, R), NEW t \in Tasks, R[t] = {}
    PROVE  e[t] = BasePriority[t]
<1>1. Held(R, t) = {t}
  BY HeldAlone
<1>2. QED
  BY <1>1 DEF Inherited

\* The Idle task inherits nothing.
LEMMA IdleInheritsNothing ==
    ASSUME NEW k, NEW S, Consistent(k, S), Inherited(k.effective, WaitGraph(k, S)),
           NEW t \in Tasks, IsIdle(t), \A m \in Mutexes : k.owner[m] # t
    PROVE  k.effective[t] = IdlePriority
<1>1. WaitGraph(k, S) \in WaitGraphs
  BY ListsTellWaiting
<1>2. WaitGraph(k, S)[t] = {}
  BY DEF WaitGraph
<1>3. k.effective \in Wishes
  BY FieldTypes DEF Consistent, Wishes
<1>4. k.effective[t] = BasePriority[t]
  BY <1>1, <1>2, <1>3, InheritedAlone
<1>5. QED
  BY <1>4 DEF IsIdle


-----------------------------------------------------------------------------


\* Nobody starts or ends a wait for a mutex, and no mutex changes hands.
SameWaits(k, r) ==
    /\ r.owner = k.owner
    /\ \A u \in Tasks, m \in Mutexes :
          r.waitOn[u] = MutexWaiters(m) <=> k.waitOn[u] = MutexWaiters(m)

\* Every priority is the inherited one.
Exactly(k) == Inherited(k.effective, WaitGraph(k, {}))

\* The part of the inductive invariant that is about priorities.
PriorityInv(k) ==
    /\ Exactly(k) /\ IdleApart(k)
    /\ k.nesting = 0 /\ (k.started => Highest(k))

\* Who waits for whom tells the priorities.
LEMMA SameWaitsKeep ==
    ASSUME NEW k, NEW r, SameWaits(k, r)
    PROVE  /\ WaitGraph(r, {}) = WaitGraph(k, {})
           /\ r.effective = k.effective /\ Exactly(k) => Exactly(r)
<1>1. WaitGraph(r, {}) = WaitGraph(k, {})
  BY DEF SameWaits, WaitGraph
<1>2. QED
  BY <1>1 DEF Exactly

\* A scheduling decision.
LEMMA SchedulingKeepsApart ==
    ASSUME NEW k, NEW r, OnlySchedules(k, r)
    PROVE  SameWaits(k, r) /\ (IdleApart(k) => IdleApart(r))
  BY DEF OnlySchedules, SameWaits, IdleApart

\* The Idle task never leaves the processor by a call of its own.
LEMMA IdleStaysApart ==
    ASSUME NEW k, Sound(k), IdleApart(k), NEW r, NEW joined, NEW granted,
           Fates(k, r, joined, granted),
           \A u \in Tasks : IsIdle(u) => ~Leaves(k, r, u),
           \A u \in Tasks, m \in Mutexes : IsIdle(u) /\ r.owner[m] = u => k.owner[m] = u
    PROVE  IdleApart(r)
<1> SUFFICES ASSUME NEW u \in Tasks, IsIdle(u)
             PROVE  r.state[u] \in {"READY", "RUNNING"} /\ \A m \in Mutexes : r.owner[m] # u
  BY DEF IdleApart
<1>1. k.state[u] \in {"READY", "RUNNING"} /\ \A m \in Mutexes : k.owner[m] # u
  BY DEF IdleApart
<1>2. ~TimedOut(k, r, u)
  BY <1>1 DEF TimedOut
<1>3. \A l : ~Ended(k, r, u, l, "OK")
  BY <1>1 DEF Ended
<1>4. Kept(k, r, u)
  BY <1>2, <1>3 DEF Fates
<1>5. QED
  BY <1>1, <1>4 DEF Kept

\* Where nobody but the caller leaves the processor.
LEMMA CallerIsNotIdle ==
    ASSUME NEW k, ~IsIdle(k.current), NEW r
    PROVE  \A u \in Tasks : IsIdle(u) => ~Leaves(k, r, u)
  BY DEF Leaves

\* os_SchedStart.
LEMMA StartPriorities ==
    ASSUME KernelInv(kernel), PriorityInv(kernel), SchedStart
    PROVE  PriorityInv(kernel')
<1> DEFINE j == [kernel EXCEPT !.started = TRUE]
           r == SwitchToHighest(j)
<1>1. Sound(kernel) /\ Consistent(kernel, {}) /\ kernel \in GoodKernel /\ kernel \in Kernel
  BY DEF KernelInv, Sound, Consistent, GoodKernel
<1>2. /\ j \in GoodKernel /\ j.started /\ j.nesting = kernel.nesting
      /\ j.state = kernel.state /\ j.current = kernel.current /\ j.effective = kernel.effective
      /\ j.ready = kernel.ready /\ j.waiters = kernel.waiters /\ j.delayed = kernel.delayed
      /\ j.overflow = kernel.overflow /\ j.waitOn = kernel.waitOn /\ j.owner = kernel.owner
  BY <1>1 DEF GoodKernel, Kernel
<1>3. kernel' = r
  BY DEF SchedStart
<1> HIDE DEF j
<1>4. Consistent(j, {})
  BY <1>1, <1>2, FreeChange
<1>5. j.current = NoTask
  BY <1>2 DEF SchedStart, KernelInv
<1>6. \A t \in Tasks : j.state[t] # "RUNNING"
  BY <1>4, <1>5, NobodyRuns DEF CurrentRuns
<1>7. OnlySchedules(j, r) /\ r.effective = j.effective
  BY <1>4, <1>6, SwitchToHighestSound
<1>8. Highest(r)
  BY <1>4, SwitchToHighestRuns
<1>9. r.nesting = j.nesting
  <2>1. 0 \in Tasks
    BY OsKernelAssumption DEF Tasks
  <2>2. QED
    BY <1>2, <2>1, ListsKeepNesting
<1> HIDE DEF r
<1>10. SameWaits(kernel, j) /\ (IdleApart(kernel) => IdleApart(j))
  BY <1>2 DEF SameWaits, IdleApart
<1>11. Exactly(j) /\ IdleApart(j)
  BY <1>2, <1>10, SameWaitsKeep DEF PriorityInv
<1>12. Exactly(r) /\ IdleApart(r)
  BY <1>7, <1>11, SameWaitsKeep, SchedulingKeepsApart
<1>13. PriorityInv(r)
  BY <1>2, <1>8, <1>9, <1>12 DEF PriorityInv
<1>14. QED
  BY <1>3, <1>13

\* vTaskYield.
LEMMA YieldPriorities ==
    ASSUME KernelInv(kernel), PriorityInv(kernel), NEW t, TaskYield(t)
    PROVE  PriorityInv(kernel')
<1> DEFINE r == SchedYieldCurrent(kernel)
<1>1. Sound(kernel) /\ Consistent(kernel, {}) /\ kernel \in GoodKernel /\ CurrentRuns(kernel)
  BY DEF KernelInv, Sound, Consistent, TaskYield
<1>2. kernel' = r
  BY DEF TaskYield
<1>3. OnlySchedules(kernel, r) /\ r.effective = kernel.effective
  BY <1>1, SchedYieldCurrentSound
<1>4. Highest(r)
  BY <1>1, DecisionsRun
<1>5. r.nesting = kernel.nesting
  BY <1>1, SchedulingKeepsNesting
<1> HIDE DEF r
<1>6. Exactly(r) /\ IdleApart(r)
  BY <1>3, SameWaitsKeep, SchedulingKeepsApart DEF PriorityInv
<1>7. PriorityInv(r)
  BY <1>4, <1>5, <1>6 DEF PriorityInv
<1>8. QED
  BY <1>2, <1>7

\* A call that only returns a status.
LEMMA StatusPriorities ==
    ASSUME NEW k, Sound(k), PriorityInv(k), NEW t \in Tasks, NEW status \in Statuses
    PROVE  PriorityInv(SetResult(k, t, status))
<1> DEFINE r == SetResult(k, t, status)
<1>1. Consistent(k, {}) /\ k \in GoodKernel
  BY DEF Sound, Consistent
<1>2. /\ r.started = k.started /\ r.state = k.state /\ r.current = k.current
      /\ r.waitOn = k.waitOn /\ r.owner = k.owner /\ r.effective = k.effective
  BY <1>1 DEF SetResult, GoodKernel, Kernel
<1>3. r.nesting = k.nesting
  BY <1>1, ListsKeepNesting
<1> HIDE DEF r
<1>4. SameWaits(k, r) /\ (IdleApart(k) => IdleApart(r)) /\ (Highest(k) => Highest(r))
  BY <1>2 DEF SameWaits, IdleApart, Highest
<1>5. Exactly(r)
  BY <1>2, <1>4, SameWaitsKeep DEF PriorityInv
<1>6. PriorityInv(r)
  BY <1>2, <1>3, <1>4, <1>5 DEF PriorityInv
<1>7. QED
  BY <1>6 DEF r

\* A wait that is not for a mutex starts: SemTake, QueueSend, QueueReceive.
LEMMA BlockPriorities ==
    ASSUME NEW k, KernelInv(k), PriorityInv(k), CurrentRuns(k), ~IsIdle(k.current),
           NEW l \in WaitLists, \A m \in Mutexes : l # MutexWaiters(m),
           NEW timeout \in Ticks, timeout # 0
    PROVE  PriorityInv(WaitBlockCurrent(k, l, timeout))
<1> DEFINE r == WaitBlockCurrent(k, l, timeout)
           t == k.current
<1>1. Sound(k) /\ Consistent(k, {}) /\ k \in GoodKernel /\ k.state[t] = "RUNNING"
  BY DEF KernelInv, Sound, Consistent, CurrentRuns
<1>2. t \in Tasks /\ k.waitOn \in [Tasks -> WaitLists \cup {NoWait}] /\ NoWait \notin WaitLists
  BY <1>1, FieldTypes DEF CurrentRuns
<1>3. k.waitOn[t] = NoWait
  BY <1>1, <1>2 DEF Consistent, StatesAgree
<1>4. Sound(r) /\ Blocks(k, r, t, l) /\ r.effective = k.effective /\ SwitchedAway(r)
  BY <1>1, WaitBlockCurrentSound
<1>5. r.nesting = k.nesting
  BY <1>1, <1>2, WaitingKeepsNesting
<1>6. Highest(r)
  BY <1>4, DecisionsRun DEF SwitchedAway
<1> HIDE DEF r, t
<1>7. SameWaits(k, r)
  <2>1. \A m \in Mutexes : MutexWaiters(m) \in WaitLists
    BY ListsDiffer
  <2>2. r.waitOn = [k.waitOn EXCEPT ![t] = l] /\ r.owner = k.owner
    BY <1>4 DEF Blocks
  <2>3. QED
    BY <1>2, <1>3, <2>1, <2>2 DEF SameWaits
<1>8. ASSUME NEW u \in Tasks, IsIdle(u)
      PROVE  r.state[u] = k.state[u] \/ {k.state[u], r.state[u]} \subseteq {"READY", "RUNNING"}
  <2>1. u # t
    BY <1>8 DEF t
  <2>2. QED
    BY <1>4, <2>1 DEF Blocks
<1>9. IdleApart(r)
  BY <1>7, <1>8 DEF PriorityInv, IdleApart, SameWaits
<1>10. Exactly(r)
  BY <1>4, <1>7, SameWaitsKeep DEF PriorityInv
<1>11. PriorityInv(r)
  BY <1>5, <1>6, <1>9, <1>10 DEF PriorityInv
<1>12. QED
  BY <1>11 DEF r

\* vTaskDelay.
LEMMA DelayPriorities ==
    ASSUME KernelInv(kernel), PriorityInv(kernel), NEW t, ~IsIdle(t),
           NEW ticks \in Ticks, TaskDelay(t, ticks)
    PROVE  PriorityInv(kernel')
<1> DEFINE asleep == [kernel EXCEPT !.state[t] = "BLOCKED_DELAY"]
           target == (kernel.tick + Clamp(ticks)) % TickModulus
           timed == TimeDelayListInsert(asleep, t, target)
           r == SchedCurrentBlocked(timed)
<1>1. Sound(kernel) /\ Consistent(kernel, {}) /\ kernel \in GoodKernel /\ kernel \in Kernel
  BY DEF KernelInv, Sound, Consistent, GoodKernel
<1>2. t = kernel.current /\ CurrentRuns(kernel)
  BY DEF TaskDelay
<1>3. CASE ticks = 0 /\ TaskYield(t)
  BY <1>3, YieldPriorities
<1>4. CASE ticks # 0 /\ kernel' = r
  <2>1. t \in Tasks
    BY <1>1, <1>2, FieldTypes DEF CurrentRuns
  <2>2. /\ Sound(r) /\ Fates(kernel, r, {}, {}) /\ r.owner = kernel.owner
        /\ r.effective = kernel.effective /\ r.waitOn = kernel.waitOn /\ SwitchedAway(r)
    BY <1>1, <1>2, <1>4, DelaySound
  <2>3. r.nesting = kernel.nesting
    <3>1. asleep \in GoodKernel /\ asleep.nesting = kernel.nesting
      BY <1>1, <2>1 DEF GoodKernel, Kernel, TaskStates
    <3>2. target \in Ticks
      <4>1. Clamp(ticks) \in 1 .. MaxDelay /\ kernel.tick \in Ticks
        BY <1>1, <1>4, ClampRange, FieldTypes
      <4>2. kernel.tick + Clamp(ticks) \in Int
        <5> DEFINE d == Clamp(ticks)
                   now == kernel.tick
        <5>1. d \in 1 .. MaxDelay /\ now \in Ticks
          BY <4>1
        <5> HIDE DEF d, now
        <5>2. now + d \in Int
          BY <5>1, TicksAreNumbers
        <5>3. QED
          BY <5>2 DEF d, now
      <4>3. QED
        BY <4>2, TickRange
    <3> HIDE DEF asleep, target
    <3>3. timed \in GoodKernel /\ timed.nesting = asleep.nesting
      BY <2>1, <3>1, <3>2, TimeDelayListInsertGood, ListsKeepNesting
    <3> HIDE DEF timed
    <3>4. QED
      BY <3>1, <3>3, SchedulingKeepsNesting
  <2>4. Highest(r)
    BY <2>2, DecisionsRun DEF SwitchedAway
  <2> HIDE DEF r
  <2>5. IdleApart(r)
    <3>1. \A u \in Tasks : IsIdle(u) => ~Leaves(kernel, r, u)
      BY <1>2, CallerIsNotIdle
    <3>2. QED
      BY <1>1, <2>2, <3>1, IdleStaysApart DEF PriorityInv
  <2>6. SameWaits(kernel, r)
    BY <2>2 DEF SameWaits
  <2>7. Exactly(r)
    BY <2>2, <2>6, SameWaitsKeep DEF PriorityInv
  <2>8. PriorityInv(r)
    BY <2>3, <2>4, <2>5, <2>7 DEF PriorityInv
  <2>9. QED
    BY <1>4, <2>8
<1>5. QED
  <2>1. \/ ticks = 0 /\ TaskYield(t)
        \/ ticks > 0 /\ kernel' = r
    BY DEF TaskDelay
  <2>2. ticks > 0 => ticks # 0
    OBVIOUS
  <2>3. QED
    BY <1>3, <1>4, <2>1, <2>2

\* A handler makes w ready, whose wait was not for a mutex, and changes no priority.
Served(k, r, w) ==
    /\ r.state = [k.state EXCEPT ![w] = "READY"] /\ r.waitOn = [k.waitOn EXCEPT ![w] = NoWait]
    /\ k.state[w] = "BLOCKED_OBJECT" /\ \A m \in Mutexes : k.waitOn[w] # MutexWaiters(m)
    /\ r.started = k.started /\ r.current = k.current /\ r.nesting = k.nesting
    /\ r.owner = k.owner /\ r.effective = k.effective

\* What is left to do before another task may take the processor.
LEMMA ServedPriorities ==
    ASSUME NEW k, Sound(k), Exactly(k), IdleApart(k), k.started => Highest(k),
           NEW w \in Tasks, NEW r, Served(k, r, w)
    PROVE  /\ Exactly(r) /\ IdleApart(r)
           /\ r.started /\ r.current # NoTask /\ r.effective[w] <= r.effective[r.current] => Highest(r)
<1>1. /\ k.state \in [Tasks -> TaskStates] /\ k.waitOn \in [Tasks -> WaitLists \cup {NoWait}]
      /\ NoWait \notin WaitLists /\ \A m \in Mutexes : MutexWaiters(m) \in WaitLists
  BY FieldTypes, ListsDiffer DEF Sound, Consistent
<1>2. SameWaits(k, r)
  BY <1>1 DEF Served, SameWaits
<1>3. Exactly(r)
  BY <1>2, SameWaitsKeep DEF Served
<1>4. IdleApart(r)
  BY <1>1 DEF Served, IdleApart
<1>5. ASSUME r.started, r.current # NoTask, r.effective[w] <= r.effective[r.current]
      PROVE  Highest(r)
  BY <1>1, <1>5 DEF Served, Highest
<1>6. QED
  BY <1>3, <1>4, <1>5

\* os_WaitMaybePreempt, outside a critical section and in one.
LEMMA PreemptPriorities ==
    ASSUME NEW k, Sound(k), Exactly(k), IdleApart(k), NEW w \in Tasks,
           k.started /\ k.current # NoTask /\ k.effective[w] <= k.effective[k.current] => Highest(k)
    PROVE  LET r == WaitMaybePreempt(k, w) IN
           /\ k.nesting = 0 => PriorityInv(r)
           /\ k.nesting = 1 => PriorityInv(ExitCritical(r))
<1> DEFINE r == WaitMaybePreempt(k, w)
           x == ExitCritical(r)
<1>1. Consistent(k, {}) /\ k \in GoodKernel
  BY DEF Sound, Consistent
<1>2. /\ Sound(r) /\ OnlySchedules(k, r) /\ r.effective = k.effective
      /\ Sound(x) /\ OnlySchedules(r, x) /\ x.effective = r.effective
  <2>1. Sound(r) /\ OnlySchedules(k, r) /\ r.effective = k.effective
    BY WaitMaybePreemptSound
  <2> HIDE DEF r
  <2>2. Sound(x) /\ OnlySchedules(r, x) /\ x.effective = r.effective
    BY <2>1, CriticalSound
  <2>3. QED
    BY <2>1, <2>2
<1>3. r.nesting = k.nesting
  BY <1>1, SchedulingKeepsNesting
<1>4. /\ Exactly(r) /\ IdleApart(r) /\ Exactly(x) /\ IdleApart(x)
      /\ r.started = k.started /\ x.started = k.started
  <2>1. Exactly(r) /\ IdleApart(r)
    BY <1>2, SameWaitsKeep, SchedulingKeepsApart
  <2>2. Exactly(x) /\ IdleApart(x)
    BY <1>2, <2>1, SameWaitsKeep, SchedulingKeepsApart
  <2>3. QED
    BY <1>2, <2>1, <2>2 DEF OnlySchedules
<1>5. ASSUME k.nesting = 0 PROVE PriorityInv(r)
  <2>1. k.started => Highest(r)
    BY <1>1, <1>5, PreemptRuns
  <2>2. QED
    BY <1>3, <1>4, <1>5, <2>1 DEF PriorityInv
<1>6. ASSUME k.nesting = 1 PROVE PriorityInv(x)
  <2>1. k.started => r.pending \/ Highest(r)
    BY <1>1, <1>6, DeferredPreemptRuns
  <2>2. Consistent(r, {})
    BY <1>2 DEF Sound
  <2> HIDE DEF r
  <2>3. x.nesting = 0 /\ (k.started => Highest(x))
    BY <1>3, <1>4, <1>6, <2>1, <2>2, ExitCriticalRuns
  <2>4. QED
    BY <1>4, <2>3 DEF PriorityInv
<1>7. QED
  BY <1>5, <1>6

\* A waiter taken off the list of a semaphore or a queue, before the switch.
LEMMA PoppedServes ==
    ASSUME NEW k, Sound(k), NEW v, NEW w, PoppedFrom(k, v, w), v.owner = k.owner,
           v.effective = k.effective, v.nesting = k.nesting,
           \A m \in Mutexes : k.waitOn[w] # MutexWaiters(m)
    PROVE  LET r == WaitMakeReady(v, w, "OK") IN Sound(r) /\ Served(k, r, w)
<1> DEFINE r == WaitMakeReady(v, w, "OK")
<1>1. Consistent(v, {w}) /\ w \in Tasks /\ v \in GoodKernel
  BY DEF PoppedFrom, Consistent
<1>2. Sound(r) /\ r.nesting = v.nesting
  BY <1>1, GrantSound, WaitingKeepsNesting DEF Statuses
<1>3. Readied(v, r, w, "OK")
  <2>1. w \in {w} /\ v.state[w] = "BLOCKED_OBJECT" /\ "OK" \in Statuses
    BY DEF PoppedFrom, Statuses
  <2>2. QED
    BY <1>1, <2>1, WaitMakeReadyExact
<1> HIDE DEF r
<1>4. Served(k, r, w)
  BY <1>2, <1>3 DEF Served, PoppedFrom, Readied
<1>5. QED
  BY <1>2, <1>4 DEF r

\* ... with the caller's status written first, as the queues do, or not yet.
LEMMA GrantServes ==
    ASSUME NEW k, Sound(k), NEW l \in WaitLists, \A m \in Mutexes : l # MutexWaiters(m),
           WaitHead(k, l) # NoTask, NEW t \in Tasks
    PROVE  LET w == WaitHead(k, l)
               v == WaitPop(k, l)
               r == WaitMakeReady(v, w, "OK")
               q == WaitMakeReady(SetResult(v, t, "OK"), w, "OK")
           IN w \in Tasks /\ Sound(r) /\ Served(k, r, w) /\ Sound(q) /\ Served(k, q, w)
<1> DEFINE w == WaitHead(k, l)
           v == WaitPop(k, l)
           told == SetResult(v, t, "OK")
<1>1. Consistent(k, {}) /\ k \in GoodKernel
  BY DEF Sound, Consistent
<1>2. /\ PoppedFrom(k, v, w) /\ k.waitOn[w] = l /\ w \in Tasks /\ v.owner = k.owner
      /\ v.effective = k.effective
  BY <1>1, PoppedHead, WaitPopExact
<1>3. v.nesting = k.nesting
  BY <1>1, <1>2, ListsKeepNesting
<1> HIDE DEF v, w
<1>4. Consistent(v, {w}) /\ v \in Kernel /\ "OK" \in Statuses
  BY <1>2 DEF PoppedFrom, Consistent, GoodKernel, Statuses
<1>5. Consistent(told, {w})
  BY <1>4, SetResultSound
<1>6. /\ told.started = v.started /\ told.state = v.state /\ told.current = v.current
      /\ told.tick = v.tick /\ told.delayed = v.delayed /\ told.overflow = v.overflow
      /\ told.wake = v.wake /\ told.waitOn = v.waitOn /\ told.owner = v.owner
      /\ told.effective = v.effective /\ told.nesting = v.nesting
  BY <1>4 DEF SetResult, Kernel
<1> HIDE DEF told
<1>7. PoppedFrom(k, told, w)
  BY <1>2, <1>5, <1>6 DEF PoppedFrom
<1>8. LET r == WaitMakeReady(v, w, "OK") IN Sound(r) /\ Served(k, r, w)
  BY <1>2, <1>3, PoppedServes
<1>9. LET q == WaitMakeReady(told, w, "OK") IN Sound(q) /\ Served(k, q, w)
  BY <1>2, <1>3, <1>6, <1>7, PoppedServes
<1>10. QED
  BY <1>2, <1>8, <1>9 DEF w, v, told

\* A status written before or after changes none of this.
LEMMA ServedThenStatus ==
    ASSUME NEW k, NEW r, Sound(r), NEW w, Served(k, r, w), NEW t \in Tasks, NEW status \in Statuses
    PROVE  Sound(SetResult(r, t, status)) /\ Served(k, SetResult(r, t, status), w)
<1> DEFINE j == SetResult(r, t, status)
<1>1. Consistent(r, {}) /\ r \in GoodKernel
  BY DEF Sound, Consistent
<1>2. Sound(j)
  BY <1>1, SetResultSound
<1>3. /\ j.started = r.started /\ j.state = r.state /\ j.current = r.current /\ j.nesting = r.nesting
      /\ j.waitOn = r.waitOn /\ j.owner = r.owner /\ j.effective = r.effective
  BY <1>1 DEF SetResult, GoodKernel, Kernel
<1> HIDE DEF j
<1>4. Served(k, j, w)
  BY <1>3 DEF Served
<1>5. QED
  BY <1>2, <1>4 DEF j

\* The switch that may follow a served waiter.
LEMMA ServedThenPreempted ==
    ASSUME NEW k, Sound(k), PriorityInv(k), NEW w \in Tasks, NEW r, Sound(r), Served(k, r, w)
    PROVE  PriorityInv(WaitMaybePreempt(r, w))
<1>1. /\ Exactly(r) /\ IdleApart(r) /\ r.nesting = 0
      /\ r.started /\ r.current # NoTask /\ r.effective[w] <= r.effective[r.current] => Highest(r)
  BY ServedPriorities DEF PriorityInv, Served
<1>2. QED
  BY <1>1, PreemptPriorities

\* os_SemTakeCurrent.
LEMMA SemTakePriorities ==
    ASSUME KernelInv(kernel), PriorityInv(kernel), ~IsIdle(kernel.current),
           NEW s \in Semaphores, NEW timeout \in Ticks, SemTake(s, timeout)
    PROVE  PriorityInv(kernel')
<1>1. CurrentRuns(kernel)
  BY DEF SemTake
<1>2. /\ Sound(kernel) /\ kernel.current \in Tasks
      /\ {"OK", "TIMEOUT", "LIMIT_REACHED"} \subseteq Statuses
  BY <1>1, Caller
<1>3. CASE \E status \in {"OK", "TIMEOUT"} : kernel' = SetResult(kernel, kernel.current, status)
  BY <1>2, <1>3, StatusPriorities
<1>4. CASE timeout # 0 /\ kernel' = WaitBlockCurrent(kernel, SemWaiters(s), timeout)
  <2>1. SemWaiters(s) \in WaitLists /\ \A m \in Mutexes : SemWaiters(s) # MutexWaiters(m)
    BY ListsDiffer
  <2>2. QED
    BY <1>1, <1>4, <2>1, BlockPriorities
<1>5. QED
  BY <1>3, <1>4 DEF SemTake

\* os_SemGiveCurrent.
LEMMA SemGivePriorities ==
    ASSUME KernelInv(kernel), PriorityInv(kernel), NEW s \in Semaphores, SemGive(s)
    PROVE  PriorityInv(kernel')
<1> DEFINE l == SemWaiters(s)
           w == WaitHead(kernel, l)
           r == WaitMakeReady(WaitPop(kernel, l), w, "OK")
           t == kernel.current
<1>1. CurrentRuns(kernel)
  BY DEF SemGive
<1>2. Sound(kernel) /\ t \in Tasks /\ {"OK", "TIMEOUT", "LIMIT_REACHED"} \subseteq Statuses
  BY <1>1, Caller
<1>3. l \in WaitLists /\ \A m \in Mutexes : l # MutexWaiters(m)
  BY ListsDiffer
<1>4. CASE w = NoTask
  <2>1. \E status \in {"OK", "LIMIT_REACHED"} : kernel' = SetResult(kernel, t, status)
    BY <1>4 DEF SemGive, GiveOutcome
  <2>2. QED
    BY <1>2, <2>1, StatusPriorities
<1>5. CASE w # NoTask
  <2>1. kernel' = WaitMaybePreempt(SetResult(r, t, "OK"), w)
    BY <1>5 DEF SemGive, GiveOutcome
  <2>2. w \in Tasks /\ Sound(r) /\ Served(kernel, r, w)
    BY <1>2, <1>3, <1>5, GrantServes
  <2> HIDE DEF r, w
  <2>3. Sound(SetResult(r, t, "OK")) /\ Served(kernel, SetResult(r, t, "OK"), w)
    BY <1>2, <2>2, ServedThenStatus
  <2>4. PriorityInv(WaitMaybePreempt(SetResult(r, t, "OK"), w))
    BY <1>2, <2>2, <2>3, ServedThenPreempted
  <2>5. QED
    BY <2>1, <2>4
<1>6. QED
  BY <1>4, <1>5

\* xSemaphoreGiveFromISR: the critical section it opens defers the switch.
LEMMA SemGiveFromISRPriorities ==
    ASSUME KernelInv(kernel), PriorityInv(kernel), NEW s \in Semaphores, SemGiveFromISR(s)
    PROVE  PriorityInv(kernel')
<1> DEFINE l == SemWaiters(s)
           e == EnterCritical(kernel)
           w == WaitHead(e, l)
           r == WaitMakeReady(WaitPop(e, l), w, "OK")
<1>1. Sound(kernel) /\ kernel \in Kernel
  BY DEF KernelInv, Sound, Consistent, GoodKernel
<1>2. l \in WaitLists /\ \A m \in Mutexes : l # MutexWaiters(m)
  BY ListsDiffer
<1>3. Sound(e) /\ SameTasks(kernel, e) /\ e.effective = kernel.effective
  BY <1>1, CriticalSound
<1>4. e.nesting = 1
  BY <1>1 DEF EnterCritical, Kernel, PriorityInv
<1>5. CASE w = NoTask
  <2>1. kernel' = ExitCritical(e)
    BY <1>5 DEF SemGiveFromISR, GiveOutcome
  <2>2. Sound(ExitCritical(e)) /\ OnlySchedules(e, ExitCritical(e)) /\ ExitCritical(e).effective = e.effective
    BY <1>3, CriticalSound
  <2> HIDE DEF e, l
  <2>3. /\ SameWaits(kernel, e) /\ (IdleApart(kernel) => IdleApart(e))
        /\ (Highest(kernel) => Highest(e)) /\ e.started = kernel.started
    BY <1>3 DEF SameTasks, SameWaits, IdleApart, Highest
  <2>4. Exactly(e) /\ IdleApart(e)
    BY <1>3, <2>3, SameWaitsKeep DEF PriorityInv
  <2>5. Exactly(ExitCritical(e)) /\ IdleApart(ExitCritical(e))
    BY <2>2, <2>4, SameWaitsKeep, SchedulingKeepsApart
  <2>6. Consistent(e, {}) /\ ExitCritical(e).started = e.started
    BY <1>3, <2>2 DEF Sound, OnlySchedules
  <2>7. /\ ExitCritical(e).nesting = 0
        /\ e.started /\ Highest(e) => Highest(ExitCritical(e))
    BY <1>4, <2>6, ExitCriticalRuns
  <2>8. PriorityInv(ExitCritical(e))
    BY <2>3, <2>5, <2>6, <2>7 DEF PriorityInv
  <2>9. QED
    BY <2>1, <2>8
<1>6. CASE w # NoTask
  <2>1. kernel' = ExitCritical(WaitMaybePreempt(r, w))
    BY <1>6 DEF SemGiveFromISR, GiveOutcome
  <2>2. 0 \in Tasks
    BY OsKernelAssumption DEF Tasks
  <2>3. w \in Tasks /\ Sound(r) /\ Served(e, r, w)
    BY <1>2, <1>3, <1>6, <2>2, GrantServes
  <2> HIDE DEF r, w, e, l
  <2>4. /\ SameWaits(kernel, e) /\ (IdleApart(kernel) => IdleApart(e))
        /\ (Highest(kernel) => Highest(e)) /\ e.started = kernel.started
    BY <1>3 DEF SameTasks, SameWaits, IdleApart, Highest
  <2>5. Exactly(e) /\ IdleApart(e) /\ (e.started => Highest(e))
    BY <1>3, <2>4, SameWaitsKeep DEF PriorityInv
  <2>6. /\ Exactly(r) /\ IdleApart(r) /\ r.nesting = 1
        /\ r.started /\ r.current # NoTask /\ r.effective[w] <= r.effective[r.current] => Highest(r)
    BY <1>3, <1>4, <2>3, <2>5, ServedPriorities DEF Served
  <2>7. PriorityInv(ExitCritical(WaitMaybePreempt(r, w)))
    BY <2>3, <2>6, PreemptPriorities
  <2>8. QED
    BY <2>1, <2>7
<1>7. QED
  BY <1>5, <1>6

\* A queue call that serves the first task waiting for what it brings.
LEMMA ServedCall ==
    ASSUME NEW k, Sound(k), PriorityInv(k), CurrentRuns(k), NEW t \in Tasks, NEW l \in WaitLists,
           \A m \in Mutexes : l # MutexWaiters(m), WaitHead(k, l) # NoTask
    PROVE  LET w == WaitHead(k, l)
               told == SetResult(WaitPop(k, l), t, "OK")
           IN PriorityInv(WaitMaybePreempt(WaitMakeReady(told, w, "OK"), w))
<1> DEFINE w == WaitHead(k, l)
           q == WaitMakeReady(SetResult(WaitPop(k, l), t, "OK"), w, "OK")
<1>1. w \in Tasks /\ Sound(q) /\ Served(k, q, w)
  BY GrantServes
<1> HIDE DEF w, q
<1>2. PriorityInv(WaitMaybePreempt(q, w))
  BY <1>1, ServedThenPreempted
<1>3. QED
  BY <1>2 DEF w, q

\* os_QueueSendCurrent.
LEMMA QueueSendPriorities ==
    ASSUME KernelInv(kernel), PriorityInv(kernel), ~IsIdle(kernel.current),
           NEW q \in Queues, NEW message, NEW timeout \in Ticks, QueueSend(q, message, timeout)
    PROVE  PriorityInv(kernel')
<1> DEFINE t == kernel.current
           l == ReceiveWaiters(q)
           told == SetResult(WaitPop(kernel, l), t, "OK")
           w == WaitHead(kernel, l)
<1>1. CurrentRuns(kernel)
  BY DEF QueueSend
<1>2. Sound(kernel) /\ t \in Tasks /\ {"OK", "TIMEOUT", "LIMIT_REACHED"} \subseteq Statuses
  BY <1>1, Caller
<1>3. /\ l \in WaitLists /\ \A m \in Mutexes : l # MutexWaiters(m)
      /\ SendWaiters(q) \in WaitLists /\ \A m \in Mutexes : SendWaiters(q) # MutexWaiters(m)
  BY ListsDiffer
<1>4. CASE w # NoTask /\ kernel' = WaitMaybePreempt(WaitMakeReady(told, w, "OK"), w)
  BY <1>1, <1>2, <1>3, <1>4, ServedCall
<1>5. CASE w = NoTask /\ kernel' = told
  <2>1. WaitPop(kernel, l) = kernel
    BY <1>3, <1>5, NothingToPop
  <2>2. QED
    BY <1>2, <1>5, <2>1, StatusPriorities
<1>6. CASE kernel' = SetResult(kernel, t, "TIMEOUT")
  BY <1>2, <1>6, StatusPriorities
<1>7. CASE timeout # 0 /\ kernel' = WaitBlockCurrent(kernel, SendWaiters(q), timeout)
  BY <1>1, <1>3, <1>7, BlockPriorities
<1>8. QED
  BY <1>4, <1>5, <1>6, <1>7 DEF QueueSend

\* os_QueueReceiveCurrent.
LEMMA QueueReceivePriorities ==
    ASSUME KernelInv(kernel), PriorityInv(kernel), ~IsIdle(kernel.current),
           NEW q \in Queues, NEW timeout \in Ticks, QueueReceive(q, timeout)
    PROVE  PriorityInv(kernel')
<1> DEFINE t == kernel.current
           l == SendWaiters(q)
           told == SetResult(WaitPop(kernel, l), t, "OK")
           w == WaitHead(kernel, l)
<1>1. CurrentRuns(kernel)
  BY DEF QueueReceive
<1>2. Sound(kernel) /\ t \in Tasks /\ {"OK", "TIMEOUT", "LIMIT_REACHED"} \subseteq Statuses
  BY <1>1, Caller
<1>3. /\ l \in WaitLists /\ \A m \in Mutexes : l # MutexWaiters(m)
      /\ ReceiveWaiters(q) \in WaitLists /\ \A m \in Mutexes : ReceiveWaiters(q) # MutexWaiters(m)
  BY ListsDiffer
<1>4. CASE w # NoTask /\ kernel' = WaitMaybePreempt(WaitMakeReady(told, w, "OK"), w)
  BY <1>1, <1>2, <1>3, <1>4, ServedCall
<1>5. CASE w = NoTask /\ kernel' = told
  <2>1. WaitPop(kernel, l) = kernel
    BY <1>3, <1>5, NothingToPop
  <2>2. QED
    BY <1>2, <1>5, <2>1, StatusPriorities
<1>6. CASE kernel' = SetResult(kernel, t, "TIMEOUT")
  BY <1>2, <1>6, StatusPriorities
<1>7. CASE timeout # 0 /\ kernel' = WaitBlockCurrent(kernel, ReceiveWaiters(q), timeout)
  BY <1>1, <1>3, <1>7, BlockPriorities
<1>8. QED
  BY <1>4, <1>5, <1>6, <1>7 DEF QueueReceive

\* os_MutexWaitersChanged, of a kernel with the tasks of S on the move.
LEMMA Recomputed ==
    ASSUME NEW k, NEW S, Consistent(k, S), \A t \in Tasks : t \in S => k.state[t] # "READY",
           \A t \in Tasks : IsIdle(t) => k.effective[t] = IdlePriority /\ \A m \in Mutexes : k.owner[m] # t
    PROVE  LET r == MutexWaitersChanged(k) IN
           /\ Consistent(r, S) /\ SameTasks(k, r) /\ r.nesting = k.nesting
           /\ WaitGraph(r, S) = WaitGraph(k, S) /\ Inherited(r.effective, WaitGraph(k, S))
<1> DEFINE r == MutexWaitersChanged(k)
<1>1. Consistent(r, S) /\ SameTasks(k, r)
  BY MutexWaitersChangedExact
<1>2. Inherited(r.effective, WaitGraph(k, S))
  BY MutexWaitersChangedInherits
<1>3. r.nesting = k.nesting
  BY MutexesKeepNesting DEF Consistent
<1> HIDE DEF r
<1>4. WaitGraph(r, S) = WaitGraph(k, S)
  BY <1>1 DEF SameTasks, WaitGraph
<1>5. QED
  BY <1>1, <1>2, <1>3, <1>4 DEF r

\* The Idle task's priority, and that it owns nothing, between handlers.
LEMMA IdleBetweenHandlers ==
    ASSUME NEW k, Consistent(k, {}), Exactly(k), IdleApart(k)
    PROVE  \A t \in Tasks : IsIdle(t) =>
              k.effective[t] = IdlePriority /\ \A m \in Mutexes : k.owner[m] # t
  BY IdleInheritsNothing DEF Exactly, IdleApart

\* A consistent kernel's graph and priorities are of the types the lemmas ask for.
LEMMA GraphTypes ==
    ASSUME NEW k, NEW S, Consistent(k, S)
    PROVE  WaitGraph(k, S) \in WaitGraphs /\ k.effective \in Wishes
           /\ k.effective \in [Tasks -> Int]
<1>1. k.effective \in [Tasks -> Priorities] /\ Priorities \subseteq Int
  BY FieldTypes DEF Consistent
<1>2. QED
  BY <1>1, ListsTellWaiting DEF Wishes

\* os_MutexLockCurrent of a mutex nobody owns: nobody waits for it either.
LEMMA FreeLockPriorities ==
    ASSUME NEW k, KernelInv(k), PriorityInv(k), NEW t \in Tasks, ~IsIdle(t),
           NEW m \in Mutexes, k.owner[m] = NoTask
    PROVE  PriorityInv(SetResult([k EXCEPT !.owner[m] = t], t, "OK"))
<1> DEFINE r == SetResult([k EXCEPT !.owner[m] = t], t, "OK")
<1>1. k \in Kernel /\ k.owner \in [Mutexes -> Tasks \cup {NoTask}] /\ NoTask \notin Tasks
  BY FieldTypes DEF KernelInv, Sound, Consistent, GoodKernel
<1>2. /\ r.started = k.started /\ r.state = k.state /\ r.current = k.current
      /\ r.waitOn = k.waitOn /\ r.effective = k.effective /\ r.nesting = k.nesting
      /\ r.owner = [k.owner EXCEPT ![m] = t]
  BY <1>1 DEF SetResult, Kernel
<1>3. \A u \in Tasks : k.waitOn[u] # MutexWaiters(m)
  BY DEF KernelInv, NobodyWaits
<1> HIDE DEF r
<1>4. ASSUME NEW o \in Tasks, NEW u \in Tasks
      PROVE  u \in WaitGraph(r, {})[o] <=> u \in WaitGraph(k, {})[o]
  BY <1>1, <1>2, <1>3 DEF WaitGraph
<1>5. WaitGraph(r, {}) = WaitGraph(k, {})
  <2>1. \A o \in Tasks : WaitGraph(r, {})[o] \subseteq Tasks /\ WaitGraph(k, {})[o] \subseteq Tasks
    BY DEF WaitGraph
  <2>2. \A o \in Tasks : WaitGraph(r, {})[o] = WaitGraph(k, {})[o]
    BY <1>4, <2>1
  <2>3. QED
    BY <2>2 DEF WaitGraph
<1>6. IdleApart(r)
  BY <1>1, <1>2 DEF PriorityInv, IdleApart
<1>7. PriorityInv(r)
  BY <1>2, <1>5, <1>6 DEF PriorityInv, Exactly, Highest
<1>8. QED
  BY <1>7 DEF r

\* The kernel of os_MutexLockCurrent when its caller has blocked and its owner
\* has inherited: no priority fell, and none rose above the owner's.
LEMMA BlockedLock ==
    ASSUME NEW k, KernelInv(k), PriorityInv(k), CurrentRuns(k), ~IsIdle(k.current),
           NEW m \in Mutexes, k.owner[m] \notin {NoTask, k.current},
           NEW timeout \in Ticks, timeout # 0
    PROVE  LET t == k.current
               o == k.owner[m]
               v == MutexWaitersChanged(WaitBlockCurrent(k, MutexWaiters(m), timeout))
           IN /\ Sound(v) /\ Exactly(v) /\ IdleApart(v) /\ v.nesting = 0 /\ o \in Tasks
              /\ v.started = k.started
              /\ v.current = NoTask \/ v.effective[o] <= v.effective[v.current] => Highest(v)
<1> DEFINE t == k.current
           o == k.owner[m]
           l == MutexWaiters(m)
           j == WaitBlockCurrent(k, l, timeout)
           v == MutexWaitersChanged(j)
<1>1. Sound(k) /\ Consistent(k, {}) /\ k \in GoodKernel /\ k.state[t] = "RUNNING" /\ t # NoTask
  BY DEF KernelInv, Sound, Consistent, CurrentRuns
<1>2. /\ t \in Tasks /\ k.waitOn \in [Tasks -> WaitLists \cup {NoWait}] /\ NoWait \notin WaitLists
      /\ o \in Tasks /\ o # t /\ l \in WaitLists /\ \A n \in Mutexes : MutexWaiters(n) \in WaitLists
      /\ NoTask \notin Tasks
  BY <1>1, FieldTypes, ListsDiffer DEF CurrentRuns
<1>3. k.waitOn[t] = NoWait
  BY <1>1, <1>2 DEF Consistent, StatesAgree
<1>4. Sound(j) /\ Blocks(k, j, t, l) /\ j.effective = k.effective /\ SwitchedAway(j)
  BY <1>1, <1>2, WaitBlockCurrentSound
<1>5. j.nesting = 0
  BY <1>1, <1>2, WaitingKeepsNesting DEF PriorityInv
<1>6. Highest(j)
  BY <1>4, DecisionsRun DEF SwitchedAway
<1> HIDE DEF j
<1>7. /\ j.waitOn = [k.waitOn EXCEPT ![t] = l] /\ j.owner = k.owner /\ j.started = k.started
      /\ \A u \in Tasks : u # t =>
            j.state[u] = k.state[u] \/ {k.state[u], j.state[u]} \subseteq {"READY", "RUNNING"}
  BY <1>4 DEF Blocks
<1>8. IdleApart(j)
  BY <1>7 DEF PriorityInv, IdleApart, t
<1>9. \A u \in Tasks : IsIdle(u) => j.effective[u] = IdlePriority /\ \A n \in Mutexes : j.owner[n] # u
  BY <1>1, <1>4, <1>7, IdleBetweenHandlers DEF PriorityInv
<1> DEFINE R == WaitGraph(k, {})
           Q == WaitGraph(j, {})
<1>10. /\ Consistent(v, {}) /\ SameTasks(j, v) /\ v.nesting = j.nesting
       /\ WaitGraph(v, {}) = Q /\ Inherited(v.effective, Q)
  BY <1>4, <1>9, Recomputed DEF Sound
<1> HIDE DEF v
<1>11. /\ R \in WaitGraphs /\ Q \in WaitGraphs /\ k.effective \in Wishes /\ v.effective \in Wishes
       /\ k.effective \in [Tasks -> Int] /\ v.effective \in [Tasks -> Int]
       /\ Inherited(k.effective, R)
  BY <1>1, <1>4, <1>10, GraphTypes DEF Sound, PriorityInv, Exactly
<1>12. /\ \A u \in Tasks : R[u] \subseteq Q[u] /\ Q[u] \subseteq R[u] \cup {t}
       /\ t \in Q[o]
  BY <1>2, <1>3, <1>7 DEF WaitGraph
<1> HIDE DEF R, Q, o, l
<1>13. /\ \A x \in Tasks : k.effective[x] <= v.effective[x]
       /\ \A x \in Tasks : v.effective[x] <= k.effective[x] \/ v.effective[x] <= k.effective[t]
       /\ v.effective[t] <= v.effective[o]
  <2>1. \A x \in Tasks : k.effective[x] <= v.effective[x]
    BY <1>10, <1>11, <1>12, InheritedGrows
  <2>2. \A x \in Tasks : v.effective[x] <= k.effective[x] \/ v.effective[x] <= k.effective[t]
    BY <1>2, <1>10, <1>11, <1>12, InheritedWithOneMore
  <2>3. v.effective[t] <= v.effective[o]
    BY <1>2, <1>10, <1>11, <1>12, OwnerNotBelow
  <2>4. QED
    BY <2>1, <2>2, <2>3
<1>14. v.state = j.state /\ v.current = j.current /\ v.owner = j.owner /\ v.started = j.started
  BY <1>10 DEF SameTasks
<1>15. Sound(v) /\ Exactly(v) /\ IdleApart(v)
  BY <1>4, <1>8, <1>10, <1>14 DEF Sound, Exactly, IdleApart
<1>16. ASSUME v.current = NoTask \/ v.effective[o] <= v.effective[v.current] PROVE Highest(v)
  <2> SUFFICES ASSUME NEW x \in Tasks, v.state[x] = "READY"
               PROVE  v.current # NoTask /\ v.effective[x] <= v.effective[v.current]
    BY DEF Highest
  <2> DEFINE c == v.current
  <2>1. c # NoTask /\ k.effective[x] <= k.effective[c]
    BY <1>4, <1>6, <1>14 DEF Highest
  <2>2. c \in Tasks
    BY <1>10, <2>1, FieldTypes DEF Consistent
  <2>3. v.effective[o] <= v.effective[c]
    BY <1>16, <2>1
  <2> HIDE DEF c
  <2>4. /\ k.effective[x] \in Int /\ k.effective[c] \in Int /\ k.effective[t] \in Int
        /\ v.effective[x] \in Int /\ v.effective[c] \in Int /\ v.effective[t] \in Int
        /\ v.effective[o] \in Int
    BY <1>2, <1>11, <2>2
  <2>5. /\ k.effective[c] <= v.effective[c] /\ k.effective[t] <= v.effective[t]
        /\ v.effective[t] <= v.effective[o]
        /\ v.effective[x] <= k.effective[x] \/ v.effective[x] <= k.effective[t]
    BY <1>2, <1>13, <2>2
  <2>6. v.effective[x] <= v.effective[c]
    BY <2>1, <2>3, <2>4, <2>5
  <2>7. QED
    BY <2>1, <2>6 DEF c
<1>17. QED
  BY <1>2, <1>5, <1>7, <1>10, <1>14, <1>15, <1>16 DEF v, j, o, l, t

\* os_MutexLockCurrent.
LEMMA MutexLockPriorities ==
    ASSUME KernelInv(kernel), PriorityInv(kernel), ~IsIdle(kernel.current),
           NEW m \in Mutexes, NEW timeout \in Ticks, MutexLock(m, timeout)
    PROVE  PriorityInv(kernel')
<1> DEFINE t == kernel.current
           o == kernel.owner[m]
           v == MutexWaitersChanged(WaitBlockCurrent(kernel, MutexWaiters(m), timeout))
<1>1. CurrentRuns(kernel)
  BY DEF MutexLock
<1>2. Sound(kernel) /\ t \in Tasks /\ {"BAD_STATE", "TIMEOUT"} \subseteq Statuses
  BY <1>1, Caller DEF Statuses
<1>3. CASE o = NoTask /\ kernel' = SetResult([kernel EXCEPT !.owner[m] = t], t, "OK")
  BY <1>2, <1>3, FreeLockPriorities
<1>4. CASE \E status \in {"BAD_STATE", "TIMEOUT"} : kernel' = SetResult(kernel, t, status)
  BY <1>2, <1>4, StatusPriorities
<1>5. CASE /\ o \notin {NoTask, t} /\ timeout # 0
           /\ kernel' = IF v.current # NoTask /\ v.effective[o] > v.effective[v.current]
                        THEN SchedSchedule(v, FALSE) ELSE v
  <2>1. /\ Sound(v) /\ Exactly(v) /\ IdleApart(v) /\ v.nesting = 0 /\ o \in Tasks
        /\ v.started = kernel.started
        /\ v.current = NoTask \/ v.effective[o] <= v.effective[v.current] => Highest(v)
    BY <1>1, <1>5, BlockedLock
  <2> HIDE DEF v
  <2>2. CASE v.current # NoTask /\ v.effective[o] > v.effective[v.current]
    <3> DEFINE r == SchedSchedule(v, FALSE)
    <3>1. OnlySchedules(v, r) /\ r.effective = v.effective
      BY <2>1, SchedScheduleSound
    <3>2. Consistent(v, {}) /\ v \in GoodKernel
      BY <2>1 DEF Sound, Consistent
    <3>3. v.started => Highest(r)
      BY <3>2, DecisionsRun
    <3>4. r.nesting = 0
      BY <2>1, <3>2, SchedulingKeepsNesting
    <3>5. kernel' = r
      BY <1>5, <2>2
    <3> HIDE DEF r
    <3>6. Exactly(r) /\ IdleApart(r) /\ r.started = v.started
      BY <2>1, <3>1, SameWaitsKeep, SchedulingKeepsApart DEF OnlySchedules
    <3>7. PriorityInv(r)
      BY <3>3, <3>4, <3>6 DEF PriorityInv
    <3>8. QED
      BY <3>5, <3>7
  <2>3. CASE ~(v.current # NoTask /\ v.effective[o] > v.effective[v.current])
    <3>1. kernel' = v
      BY <1>5, <2>3
    <3>2. v.current = NoTask \/ v.effective[o] <= v.effective[v.current]
      <4>1. v.effective \in [Tasks -> Int] /\ v.current \in Tasks \cup {NoTask}
        <5>1. Consistent(v, {}) /\ v \in GoodKernel
          BY <2>1 DEF Sound, Consistent
        <5>2. QED
          BY <5>1, GraphTypes, FieldTypes
      <4>2. CASE v.current \in Tasks
        <5>1. v.effective[o] \in Int /\ v.effective[v.current] \in Int
          BY <2>1, <4>1, <4>2
        <5>2. QED
          BY <2>3, <5>1
      <4>3. QED
        BY <4>1, <4>2
    <3>3. PriorityInv(v)
      BY <2>1, <3>2 DEF PriorityInv
    <3>4. QED
      BY <3>1, <3>3
  <2>4. QED
    BY <2>2, <2>3
<1>6. QED
  BY <1>3, <1>4, <1>5 DEF MutexLock

\* os_MutexUnlockCurrent when nobody waits: no priority changes.
LEMMA UnlockAlone ==
    ASSUME NEW k, KernelInv(k), PriorityInv(k), NEW t \in Tasks, NEW m \in Mutexes,
           WaitHead(k, MutexWaiters(m)) = NoTask
    PROVE  PriorityInv(MutexGiven(k, m, t))
<1> DEFINE passed == MutexPassed(k, m, t)
           v == MutexWaitersChanged(passed)
<1>1. Sound(k) /\ Consistent(k, {}) /\ k \in GoodKernel
  BY DEF KernelInv, Sound, Consistent
<1>2. k.owner \in [Mutexes -> Tasks \cup {NoTask}] /\ NoTask \notin Tasks
  BY <1>1, FieldTypes
<1>3. /\ Consistent(passed, {}) /\ passed.started = k.started /\ passed.state = k.state
      /\ passed.current = k.current /\ passed.waitOn = k.waitOn
      /\ passed.owner = [k.owner EXCEPT ![m] = NoTask]
      /\ passed.effective = k.effective /\ passed.nesting = k.nesting
      /\ NobodyWaits(k, MutexWaiters(m))
  <2> DEFINE l == MutexWaiters(m)
             w == WaitHead(k, l)
  <2>1. /\ Consistent(passed, IF w = NoTask THEN {} ELSE {w}) /\ w \in Tasks \cup {NoTask}
        /\ passed.started = k.started /\ passed.state = k.state /\ passed.current = k.current
        /\ passed.tick = k.tick /\ passed.delayed = k.delayed /\ passed.overflow = k.overflow
        /\ passed.wake = k.wake /\ passed.waitOn = k.waitOn
        /\ passed.owner = [k.owner EXCEPT ![m] = w]
        /\ passed.effective = k.effective /\ passed.nesting = k.nesting
        /\ w # NoTask => k.waitOn[w] = l /\ k.state[w] = "BLOCKED_OBJECT"
        /\ w = NoTask => NobodyWaits(k, l)
    BY <1>1, MutexPassedSound
  <2>2. w = NoTask
    OBVIOUS
  <2> HIDE DEF passed, w
  <2>3. QED
    BY <2>1, <2>2
<1> HIDE DEF passed
<1>4. \A u \in Tasks : IsIdle(u) =>
          passed.effective[u] = IdlePriority /\ \A n \in Mutexes : passed.owner[n] # u
  BY <1>1, <1>2, <1>3, IdleBetweenHandlers DEF PriorityInv
<1>5. /\ Consistent(v, {}) /\ SameTasks(passed, v) /\ v.nesting = passed.nesting
      /\ WaitGraph(v, {}) = WaitGraph(passed, {}) /\ Inherited(v.effective, WaitGraph(passed, {}))
  <2>1. \A u \in Tasks : u \in {} => passed.state[u] # "READY"
    OBVIOUS
  <2>2. QED
    BY <1>3, <1>4, <2>1, Recomputed
<1> HIDE DEF v
<1>6. ASSUME NEW o \in Tasks, NEW u \in Tasks
      PROVE  u \in WaitGraph(passed, {})[o] <=> u \in WaitGraph(k, {})[o]
  BY <1>2, <1>3 DEF WaitGraph, NobodyWaits
<1>7. WaitGraph(passed, {}) = WaitGraph(k, {})
  <2>1. \A o \in Tasks : WaitGraph(passed, {})[o] \subseteq Tasks /\ WaitGraph(k, {})[o] \subseteq Tasks
    BY DEF WaitGraph
  <2>2. \A o \in Tasks : WaitGraph(passed, {})[o] = WaitGraph(k, {})[o]
    BY <1>6, <2>1
  <2>3. QED
    BY <2>2 DEF WaitGraph
<1>8. v.effective = k.effective
  BY <1>1, <1>5, <1>7, GraphTypes, InheritedUnique DEF PriorityInv, Exactly
<1>9. IdleApart(v)
  BY <1>2, <1>3, <1>5 DEF PriorityInv, IdleApart, SameTasks
<1>10. Exactly(v) /\ v.nesting = 0 /\ (v.started => Highest(v))
  BY <1>3, <1>5, <1>8 DEF PriorityInv, Exactly, Highest, SameTasks
<1>11. PriorityInv(v)
  BY <1>9, <1>10 DEF PriorityInv
<1>12. QED
  BY <1>11 DEF v, passed, MutexGiven

\* When a mutex passes from c, which runs, to its first waiter w, the others that
\* wait for it wait for w now: what c held up, c and w hold up between them, and
\* nobody else holds up more than before.
LEMMA PassedGraph ==
    ASSUME NEW R \in WaitGraphs, NEW Q \in WaitGraphs, NEW c \in Tasks, NEW w \in Tasks,
           \A u \in Tasks : c \notin R[u] /\ (w \in R[u] => u = c),
           \A u \in Tasks : u # w => Q[u] \subseteq R[u],
           \A u \in Tasks : R[u] \subseteq Q[u] \cup Q[w] \cup {w}
    PROVE  /\ Held(R, c) \subseteq Held(Q, c) \cup Held(Q, w)
           /\ \A x \in Tasks \ {c, w} : Held(Q, x) \subseteq Held(R, x)
<1>1. Held(R, c) \subseteq Held(Q, c) \cup Held(Q, w)
  <2> DEFINE S == Held(Q, c) \cup Held(Q, w)
  <2>1. c \in Held(Q, c) /\ Held(Q, c) \subseteq Tasks /\ Closed(Q, Held(Q, c))
    BY HeldLeast
  <2>2. w \in Held(Q, w) /\ Held(Q, w) \subseteq Tasks /\ Closed(Q, Held(Q, w))
    BY HeldLeast
  <2>3. ASSUME NEW u \in S PROVE R[u] \subseteq S
    <3>1. u \in Tasks /\ Q[w] \subseteq S /\ w \in S
      BY <2>1, <2>2 DEF Closed
    <3>2. Q[u] \subseteq S
      BY <2>1, <2>2, <2>3 DEF Closed
    <3>3. R[u] \subseteq Q[u] \cup Q[w] \cup {w}
      BY <3>1
    <3> HIDE DEF S
    <3>4. QED
      BY <3>1, <3>2, <3>3
  <2>4. Closed(R, S) /\ c \in S /\ S \in SUBSET Tasks
    BY <2>1, <2>2, <2>3 DEF Closed
  <2> HIDE DEF S
  <2>5. Held(R, c) \subseteq S
    BY <2>4, HeldLeast
  <2>6. QED
    BY <2>5 DEF S
<1>2. ASSUME NEW x \in Tasks \ {c, w} PROVE Held(Q, x) \subseteq Held(R, x)
  <2> DEFINE H == Held(R, x)
             S == H \ {c, w}
  <2>1. /\ x \in H /\ H \subseteq Tasks /\ Closed(R, H)
        /\ \A T \in SUBSET Tasks : x \in T /\ Closed(R, T) => H \subseteq T
    BY HeldLeast
  <2> HIDE DEF H
  <2>2. Closed(R, S)
    <3> SUFFICES ASSUME NEW u \in S, NEW y \in R[u] PROVE y \in S
      BY DEF Closed
    <3>1. u \in Tasks /\ u # c /\ y \in H
      BY <2>1 DEF Closed
    <3>2. QED
      BY <3>1
  <2>3. x \in S /\ S \in SUBSET Tasks
    BY <2>1
  <2>4. w \notin H
    BY <2>1, <2>2, <2>3
  <2>5. Closed(Q, H)
    <3> SUFFICES ASSUME NEW u \in H PROVE Q[u] \subseteq H
      BY DEF Closed
    <3>1. u \in Tasks /\ u # w /\ R[u] \subseteq H
      BY <2>1, <2>4 DEF Closed
    <3>2. QED
      BY <3>1
  <2>6. H \in SUBSET Tasks /\ x \in H
    BY <2>1
  <2>7. Held(Q, x) \subseteq H
    BY <2>5, <2>6, HeldLeast
  <2>8. QED
    BY <2>7 DEF H
<1>3. QED
  BY <1>1, <1>2

\* os_MutexUnlockCurrent when a task waits: the caller may lose what it inherited,
\* and the new owner takes over what the other waiters lend.
LEMMA UnlockServed ==
    ASSUME NEW k, KernelInv(k), PriorityInv(k), CurrentRuns(k),
           NEW m \in Mutexes, k.owner[m] = k.current,
           NEW w, w = WaitHead(k, MutexWaiters(m)), w # NoTask
    PROVE  PriorityInv(WaitMaybePreempt(WaitMakeReady(MutexGiven(k, m, k.current), w, "OK"), w))
<1> DEFINE c == k.current
           passed == MutexPassed(k, m, c)
           v == MutexWaitersChanged(passed)
           r == WaitMakeReady(v, w, "OK")
<1>1. Sound(k) /\ Consistent(k, {}) /\ k \in GoodKernel /\ k.started
  BY DEF KernelInv, Sound, Consistent, CurrentRuns
<1>2. /\ k.owner \in [Mutexes -> Tasks \cup {NoTask}] /\ NoTask \notin Tasks
      /\ c \in Tasks /\ k.state[c] = "RUNNING"
      /\ k.state \in [Tasks -> TaskStates] /\ k.waitOn \in [Tasks -> WaitLists \cup {NoWait}]
      /\ NoWait \notin WaitLists /\ \A n \in Mutexes : MutexWaiters(n) \in WaitLists
  BY <1>1, FieldTypes, ListsDiffer DEF CurrentRuns
<1>3. k.waitOn[c] = NoWait
  BY <1>1, <1>2 DEF Consistent, StatesAgree
<1> HIDE DEF c
<1>4. /\ Consistent(passed, {w}) /\ w \in Tasks
      /\ passed.started = k.started /\ passed.state = k.state /\ passed.current = k.current
      /\ passed.tick = k.tick /\ passed.delayed = k.delayed /\ passed.overflow = k.overflow
      /\ passed.wake = k.wake /\ passed.waitOn = k.waitOn
      /\ passed.owner = [k.owner EXCEPT ![m] = w]
      /\ passed.effective = k.effective /\ passed.nesting = k.nesting
      /\ k.waitOn[w] = MutexWaiters(m) /\ k.state[w] = "BLOCKED_OBJECT"
  <2> DEFINE l == MutexWaiters(m)
             head == WaitHead(k, l)
  <2>1. /\ Consistent(passed, IF head = NoTask THEN {} ELSE {head}) /\ head \in Tasks \cup {NoTask}
        /\ passed.started = k.started /\ passed.state = k.state /\ passed.current = k.current
        /\ passed.tick = k.tick /\ passed.delayed = k.delayed /\ passed.overflow = k.overflow
        /\ passed.wake = k.wake /\ passed.waitOn = k.waitOn
        /\ passed.owner = [k.owner EXCEPT ![m] = head]
        /\ passed.effective = k.effective /\ passed.nesting = k.nesting
        /\ head # NoTask => k.waitOn[head] = l /\ k.state[head] = "BLOCKED_OBJECT"
        /\ head = NoTask => NobodyWaits(k, l)
    BY <1>1, <1>2, MutexPassedSound
  <2>2. head = w
    OBVIOUS
  <2> HIDE DEF passed, head
  <2>3. QED
    BY <2>1, <2>2
<1> HIDE DEF passed
<1>5. w # c /\ ~IsIdle(w)
  BY <1>2, <1>4 DEF PriorityInv, IdleApart
<1>6. \A u \in Tasks : IsIdle(u) =>
          passed.effective[u] = IdlePriority /\ \A n \in Mutexes : passed.owner[n] # u
  BY <1>1, <1>2, <1>4, <1>5, IdleBetweenHandlers DEF PriorityInv
<1>7. /\ Consistent(v, {w}) /\ SameTasks(passed, v) /\ v.nesting = passed.nesting
      /\ WaitGraph(v, {w}) = WaitGraph(passed, {w}) /\ Inherited(v.effective, WaitGraph(passed, {w}))
  <2>1. \A u \in Tasks : u \in {w} => passed.state[u] # "READY"
    BY <1>4
  <2>2. QED
    BY <1>4, <1>6, <2>1, Recomputed
<1> HIDE DEF v
<1>8. v \in GoodKernel /\ v.state[w] = "BLOCKED_OBJECT" /\ "OK" \in Statuses /\ w \in {w} /\ {w} \ {w} = {}
  BY <1>4, <1>7 DEF Consistent, SameTasks, Statuses
<1>9. Consistent(r, {}) /\ Readied(v, r, w, "OK") /\ r.nesting = 0
  <2>1. Consistent(r, {w} \ {w}) /\ Readied(v, r, w, "OK")
    BY <1>4, <1>7, <1>8, WaitMakeReadyExact
  <2>2. r.nesting = v.nesting
    BY <1>4, <1>8, WaitingKeepsNesting
  <2>3. QED
    BY <1>4, <1>7, <1>8, <2>1, <2>2 DEF PriorityInv
<1> HIDE DEF r
<1>10. /\ r.state = [k.state EXCEPT ![w] = "READY"] /\ r.waitOn = [k.waitOn EXCEPT ![w] = NoWait]
       /\ r.current = c /\ r.started /\ r.owner = [k.owner EXCEPT ![m] = w]
       /\ r.effective = v.effective
  BY <1>1, <1>4, <1>7, <1>9 DEF Readied, SameTasks, c
<1>11. Sound(r)
  BY <1>2, <1>4, <1>5, <1>9, <1>10 DEF Sound
<1> DEFINE R == WaitGraph(k, {})
           Q == WaitGraph(passed, {w})
<1>12. WaitGraph(r, {}) = Q
  <2>1. ASSUME NEW o \in Tasks, NEW u \in Tasks
        PROVE  u \in WaitGraph(r, {})[o] <=> u \in Q[o]
    BY <1>2, <1>4, <1>10 DEF WaitGraph
  <2>2. \A o \in Tasks : WaitGraph(r, {})[o] \subseteq Tasks /\ Q[o] \subseteq Tasks
    BY DEF WaitGraph
  <2>3. \A o \in Tasks : WaitGraph(r, {})[o] = Q[o]
    BY <2>1, <2>2
  <2>4. QED
    BY <2>3 DEF WaitGraph
<1>13. /\ R \in WaitGraphs /\ Q \in WaitGraphs /\ k.effective \in Wishes /\ r.effective \in Wishes
       /\ k.effective \in [Tasks -> Int] /\ r.effective \in [Tasks -> Int]
       /\ Inherited(k.effective, R) /\ Inherited(r.effective, Q)
  BY <1>1, <1>4, <1>7, <1>9, <1>10, GraphTypes DEF PriorityInv, Exactly
<1>14. /\ Held(R, c) \subseteq Held(Q, c) \cup Held(Q, w)
       /\ \A x \in Tasks \ {c, w} : Held(Q, x) \subseteq Held(R, x)
  <2>1. k.owner[m] = c /\ passed.owner[m] = w /\ \A n \in Mutexes : n # m => passed.owner[n] = k.owner[n]
    BY <1>2, <1>4 DEF c
  <2>2. /\ \A n \in Mutexes : MutexWaiters(n) = k.waitOn[w] => n = m
        /\ \A n \in Mutexes : k.waitOn[c] # MutexWaiters(n)
    BY <1>2, <1>3, <1>4, ListsDiffer
  <2>3. \A u, y \in Tasks : y \in R[u] <=>
            \E n \in Mutexes : k.waitOn[y] = MutexWaiters(n) /\ k.owner[n] = u
    BY DEF WaitGraph
  <2>4. \A u, y \in Tasks : y \in Q[u] <=>
            y # w /\ \E n \in Mutexes : k.waitOn[y] = MutexWaiters(n) /\ passed.owner[n] = u
    BY <1>4 DEF WaitGraph
  <2> HIDE DEF R, Q
  <2>5. /\ R \in WaitGraphs /\ Q \in WaitGraphs /\ c \in Tasks /\ w \in Tasks
        /\ \A u \in Tasks : R[u] \subseteq Tasks /\ Q[u] \subseteq Tasks
    BY <1>2, <1>4, <1>13 DEF WaitGraphs
  <2>6. \A u \in Tasks : c \notin R[u] /\ (w \in R[u] => u = c)
    BY <2>1, <2>2, <2>3, <2>5
  <2>7. \A u \in Tasks : u # w => Q[u] \subseteq R[u]
    <3> SUFFICES ASSUME NEW u \in Tasks, u # w, NEW y \in Q[u] PROVE y \in R[u]
      OBVIOUS
    <3>1. y \in Tasks
      BY <2>5
    <3>2. PICK n \in Mutexes : k.waitOn[y] = MutexWaiters(n) /\ passed.owner[n] = u
      BY <2>4, <3>1
    <3>3. k.owner[n] = u
      BY <2>1, <3>2
    <3>4. QED
      BY <2>3, <3>1, <3>2, <3>3
  <2>8. \A u \in Tasks : R[u] \subseteq Q[u] \cup Q[w] \cup {w}
    <3> SUFFICES ASSUME NEW u \in Tasks, NEW y \in R[u], y # w PROVE y \in Q[u] \/ y \in Q[w]
      OBVIOUS
    <3>1. y \in Tasks
      BY <2>5
    <3>2. PICK n \in Mutexes : k.waitOn[y] = MutexWaiters(n) /\ k.owner[n] = u
      BY <2>3, <3>1
    <3>3. passed.owner[n] = u \/ passed.owner[n] = w
      BY <2>1, <3>2
    <3>4. QED
      BY <2>4, <2>5, <3>1, <3>2, <3>3
  <2>9. QED
    BY <2>5, <2>6, <2>7, <2>8, PassedGraph
<1>15. Exactly(r)
  BY <1>12, <1>13 DEF Exactly
<1>16. IdleApart(r)
  <2> SUFFICES ASSUME NEW u \in Tasks, IsIdle(u)
               PROVE  r.state[u] \in {"READY", "RUNNING"} /\ \A n \in Mutexes : r.owner[n] # u
    BY DEF IdleApart
  <2>1. u # w /\ k.state[u] \in {"READY", "RUNNING"} /\ \A n \in Mutexes : k.owner[n] # u
    BY <1>5 DEF PriorityInv, IdleApart
  <2>2. QED
    BY <1>2, <1>10, <2>1
<1> HIDE DEF R, Q
<1>17. ASSUME r.effective[w] <= r.effective[c] PROVE Highest(r)
  <2> DEFINE e == k.effective
             f == r.effective
  <2>1. e[c] <= f[c] \/ e[c] <= f[w]
    BY <1>2, <1>4, <1>13, <1>14, InheritedCompare
  <2>2. e[c] \in Int /\ f[c] \in Int /\ f[w] \in Int
    BY <1>2, <1>4, <1>13
  <2>3. e[c] <= f[c]
    <3> HIDE DEF e, f
    <3>1. f[w] <= f[c]
      BY <1>17 DEF f
    <3>2. QED
      BY <2>1, <2>2, <3>1
  <2>4. ASSUME NEW x \in Tasks, r.state[x] = "READY" PROVE f[x] <= f[c]
    <3>1. CASE x = w
      BY <1>17, <3>1
    <3>2. CASE x # w
      <4>1. k.state[x] = "READY" /\ x # c
        BY <1>2, <1>4, <1>10, <2>4, <3>2
      <4>2. e[x] <= e[c]
        BY <1>1, <4>1 DEF PriorityInv, Highest, c
      <4>3. Held(Q, x) \subseteq Held(R, x) \cup Held(R, x)
        BY <1>14, <3>2, <4>1
      <4>4. f[x] <= e[x]
        BY <1>13, <4>3, InheritedCompare
      <4>5. e[x] \in Int /\ f[x] \in Int
        BY <1>13
      <4> HIDE DEF e, f
      <4>6. QED
        BY <2>2, <2>3, <4>2, <4>4, <4>5
    <3>3. QED
      BY <3>1, <3>2
  <2>5. r.current # NoTask
    BY <1>2, <1>10
  <2>6. QED
    BY <1>10, <2>4, <2>5 DEF Highest
<1>18. PriorityInv(WaitMaybePreempt(r, w))
  <2>1. r.started /\ r.current # NoTask /\ r.effective[w] <= r.effective[r.current] => Highest(r)
    BY <1>10, <1>17
  <2>2. QED
    BY <1>4, <1>9, <1>11, <1>15, <1>16, <2>1, PreemptPriorities
<1>19. QED
  BY <1>18 DEF r, v, passed, c, MutexGiven

\* os_MutexUnlockCurrent.
LEMMA MutexUnlockPriorities ==
    ASSUME KernelInv(kernel), PriorityInv(kernel), NEW m \in Mutexes, MutexUnlock(m)
    PROVE  PriorityInv(kernel')
<1> DEFINE t == kernel.current
           w == WaitHead(kernel, MutexWaiters(m))
           v == MutexGiven(kernel, m, t)
<1>1. CurrentRuns(kernel)
  BY DEF MutexUnlock
<1>2. Sound(kernel) /\ t \in Tasks /\ "NOT_OWNER" \in Statuses
  BY <1>1, Caller DEF Statuses
<1>3. CASE kernel' = SetResult(kernel, t, "NOT_OWNER")
  BY <1>2, <1>3, StatusPriorities
<1>4. CASE w = NoTask /\ kernel' = v
  BY <1>2, <1>4, UnlockAlone
<1>5. CASE /\ kernel.owner[m] = t /\ w # NoTask
           /\ kernel' = WaitMaybePreempt(WaitMakeReady(v, w, "OK"), w)
  BY <1>1, <1>5, UnlockServed
<1>6. QED
  BY <1>3, <1>4, <1>5 DEF MutexUnlock, MutexGiven, MutexPassed

\* One more mutex of a task that ends: the next owner is not the Idle task.
LEMMA HandOverApart ==
    ASSUME NEW k, Consistent(k, {}), IdleApart(k), NEW m \in Mutexes, NEW t \in Tasks
    PROVE  LET r == HandOver(k, m, t) IN
           Consistent(r, {}) /\ IdleApart(r) /\ r.effective = k.effective
<1> DEFINE r == HandOver(k, m, t)
           l == MutexWaiters(m)
           w == WaitHead(k, l)
           mine == [k EXCEPT !.owner[m] = w]
<1>1. /\ Consistent(r, {})
      /\ k.owner[m] # t => r = k
      /\ k.owner[m] = t => r.owner = [k.owner EXCEPT ![m] = w]
      /\ k.owner[m] = t /\ w = NoTask => SameTasks(mine, r)
      /\ w = NoTask => \A u \in Tasks : k.waitOn[u] # l
      /\ k.owner[m] = t /\ w # NoTask => /\ w \in Tasks /\ k.waitOn[w] = l
                       /\ k.state[w] = "BLOCKED_OBJECT"
                       /\ Readied(mine, r, w, "OK")
      /\ \A first \in Int : Deadlines(k, first) => Deadlines(r, first)
  BY HandOverSound
<1>2. /\ mine.state = k.state /\ mine.effective = k.effective
      /\ k.state \in [Tasks -> TaskStates] /\ k.owner \in [Mutexes -> Tasks \cup {NoTask}]
      /\ NoTask \notin Tasks
  <2>1. k \in GoodKernel /\ k \in Kernel
    BY DEF Consistent, GoodKernel
  <2> HIDE DEF w
  <2>2. mine.state = k.state /\ mine.effective = k.effective
    BY <2>1 DEF Kernel
  <2>3. QED
    BY <2>1, <2>2, FieldTypes
<1>3. CASE k.owner[m] # t
  BY <1>1, <1>3
<1>4. CASE k.owner[m] = t /\ w = NoTask
  <2>1. r.effective = k.effective
    <3>1. l \in WaitLists
      BY DEF WaitLists
    <3> HIDE DEF l
    <3>2. w = NoTask => WaitPop(k, l) = k
      BY <3>1, WaitPopExact DEF w
    <3>3. r = [k EXCEPT !.owner[m] = NoTask]
      BY <1>4, <3>2 DEF HandOver, w, l
    <3>4. k \in Kernel
      BY DEF Consistent, GoodKernel
    <3> HIDE DEF r
    <3>5. QED
      BY <3>3, <3>4 DEF Kernel
  <2>2. r.state = k.state /\ r.owner = [k.owner EXCEPT ![m] = NoTask]
    BY <1>1, <1>2, <1>4 DEF SameTasks
  <2> HIDE DEF r, w, mine
  <2>3. IdleApart(r)
    BY <1>2, <2>2 DEF IdleApart
  <2>4. QED
    BY <1>1, <2>1, <2>3 DEF r
<1>5. CASE k.owner[m] = t /\ w # NoTask
  <2>1. /\ r.state = [k.state EXCEPT ![w] = "READY"] /\ r.owner = [k.owner EXCEPT ![m] = w]
        /\ r.effective = k.effective /\ w \in Tasks /\ k.state[w] = "BLOCKED_OBJECT"
    BY <1>1, <1>2, <1>5 DEF Readied
  <2>2. ~IsIdle(w)
    BY <2>1 DEF IdleApart
  <2> HIDE DEF r, w, mine
  <2>3. IdleApart(r)
    BY <1>2, <2>1, <2>2 DEF IdleApart
  <2>4. QED
    BY <1>1, <2>1, <2>3 DEF r
<1>6. QED
  BY <1>3, <1>4, <1>5

\* os_MutexReleaseTask recomputes the priorities when it has passed a mutex on.
LEMMA ReleasedPriorities ==
    ASSUME NEW k, Consistent(k, {}), Exactly(k), IdleApart(k), NEW t \in Tasks
    PROVE  LET r == MutexReleaseTask(k, t) IN
           r \in GoodKernel /\ Exactly(r) /\ r.nesting = k.nesting
<1> DEFINE r == MutexReleaseTask(k, t)
<1>1. k \in GoodKernel
  BY DEF Consistent
<1>2. r \in GoodKernel /\ r.nesting = k.nesting
  BY <1>1, MutexReleaseTaskGood, MutexesKeepNesting
<1>3. PICK after \in [0 .. MutexCount -> GoodKernel] :
         /\ after[0] = k
         /\ \A m \in Mutexes : after[m + 1] = HandOver(after[m], m, t)
         /\ r = IF \E m \in Mutexes : k.owner[m] = t
                THEN MutexWaitersChanged(after[MutexCount]) ELSE k
  BY <1>1, MutexReleaseTaskLoop
<1> HIDE DEF r
<1> DEFINE Apart(j) == Consistent(j, {}) /\ IdleApart(j) /\ j.effective = k.effective
           T == {n \in 0 .. MutexCount : Apart(after[n])}
<1>4. MutexCount \in Nat /\ 0 .. MutexCount - 1 = Mutexes /\ MutexCount \in 0 .. MutexCount
  BY OsKernelAssumption DEF Mutexes
<1>5. 0 \in T
  <2>1. Apart(after[0])
    BY <1>3
  <2> HIDE DEF Apart
  <2>2. QED
    BY <1>4, <2>1
<1>6. ASSUME NEW n \in 0 .. MutexCount - 1, n \in T PROVE n + 1 \in T
  <2>1. n \in Mutexes /\ n + 1 \in 0 .. MutexCount /\ after[n + 1] = HandOver(after[n], n, t)
    BY <1>3, <1>4
  <2>2. Consistent(after[n], {}) /\ IdleApart(after[n]) /\ after[n].effective = k.effective
    BY <1>6
  <2> DEFINE j == after[n]
             q == HandOver(j, n, t)
  <2>3. Consistent(j, {}) /\ IdleApart(j) /\ n \in Mutexes
    BY <2>1, <2>2
  <2> HIDE DEF j
  <2>4. Consistent(q, {}) /\ IdleApart(q) /\ q.effective = j.effective
    BY <2>3, HandOverApart
  <2> HIDE DEF q
  <2>5. Apart(q)
    BY <2>2, <2>4 DEF j
  <2> HIDE DEF Apart
  <2>6. QED
    BY <2>1, <2>5 DEF q, j
<1>7. Apart(after[MutexCount])
  <2> HIDE DEF Apart, T
  <2>1. MutexCount \in T
    BY <1>4, <1>5, <1>6, LoopInduction
  <2>2. QED
    BY <2>1 DEF T
<1>8. Exactly(r)
  <2>1. CASE r = k
    BY <2>1
  <2>2. CASE r = MutexWaitersChanged(after[MutexCount])
    <3> DEFINE j == after[MutexCount]
    <3>1. \A u \in Tasks : IsIdle(u) =>
              j.effective[u] = IdlePriority /\ \A m \in Mutexes : j.owner[m] # u
      BY <1>1, <1>7, IdleBetweenHandlers DEF IdleApart
    <3>2. Consistent(j, {}) /\ \A u \in Tasks : u \in {} => j.state[u] # "READY"
      BY <1>7
    <3>3. r = MutexWaitersChanged(j)
      BY <2>2
    <3> HIDE DEF j
    <3>4. WaitGraph(r, {}) = WaitGraph(j, {}) /\ Inherited(r.effective, WaitGraph(j, {}))
      BY <3>1, <3>2, <3>3, Recomputed
    <3>5. QED
      BY <3>4 DEF Exactly
  <2>3. QED
    BY <1>3, <2>1, <2>2
<1>9. QED
  BY <1>2, <1>8 DEF r

\* os_SchedTerminateCurrent.
LEMMA ExitPriorities ==
    ASSUME KernelInv(kernel), PriorityInv(kernel), NEW t, ~IsIdle(t), TaskExit(t)
    PROVE  PriorityInv(kernel')
<1> DEFINE freed == MutexReleaseTask(kernel, t)
           ended == [freed EXCEPT !.state[t] = "TERMINATED"]
<1>1. t = kernel.current /\ CurrentRuns(kernel) /\ kernel' = SchedCurrentBlocked(ended)
  BY DEF TaskExit
<1>2. Sound(kernel) /\ Consistent(kernel, {}) /\ t \in Tasks
  <2>1. Sound(kernel) /\ Consistent(kernel, {}) /\ kernel \in GoodKernel
    BY DEF KernelInv, Sound, Consistent
  <2>2. QED
    BY <1>1, <2>1, FieldTypes DEF CurrentRuns
<1>3. freed \in GoodKernel /\ Exactly(freed) /\ freed.nesting = 0
  BY <1>2, ReleasedPriorities DEF PriorityInv
<1>4. kernel'.nesting = 0
  <2> HIDE DEF freed
  <2>1. ended \in GoodKernel /\ ended.nesting = 0
    BY <1>2, <1>3 DEF GoodKernel, Kernel, TaskStates
  <2> HIDE DEF ended
  <2>2. QED
    BY <1>1, <2>1, SchedulingKeepsNesting
<1>5. /\ Sound(kernel') /\ kernel'.started = kernel.started /\ SwitchedAway(kernel')
      /\ kernel'.effective = freed.effective /\ kernel'.waitOn = freed.waitOn
      /\ kernel'.owner = freed.owner
  <2> HIDE DEF freed
  <2>1. freed = MutexReleaseTask(kernel, t) /\ kernel' = SchedCurrentBlocked(ended)
    BY <1>1 DEF freed
  <2>2. QED
    BY <1>1, <1>2, <2>1, ExitSound
<1>6. Exactly(kernel')
  <2> HIDE DEF freed
  <2>1. WaitGraph(kernel', {}) = WaitGraph(freed, {})
    BY <1>5 DEF WaitGraph
  <2>2. QED
    BY <1>3, <1>5, <2>1 DEF Exactly
<1>7. Highest(kernel')
  BY <1>5, DecisionsRun DEF SwitchedAway
<1>8. IdleApart(kernel')
  <2> DEFINE granted == {MutexWaiters(m) : m \in Mutexes}
  <2>1. Handled(kernel, kernel', {}, granted)
    BY ExitHandled
  <2> HIDE DEF granted
  <2>2. Fates(kernel, kernel', {}, granted) /\ OwnersMove(kernel, kernel')
    BY <2>1 DEF Handled
  <2>3. \A u \in Tasks : IsIdle(u) => ~Leaves(kernel, kernel', u)
    BY <1>1, CallerIsNotIdle
  <2>4. ASSUME NEW u \in Tasks, NEW m \in Mutexes, IsIdle(u), kernel'.owner[m] = u
        PROVE  kernel.owner[m] = u
    <3>1. kernel.state[u] # "BLOCKED_OBJECT"
      BY <2>4 DEF PriorityInv, IdleApart
    <3>2. IF kernel.owner[m] = t THEN PassedOn(kernel, kernel', m)
                                 ELSE kernel'.owner[m] = kernel.owner[m]
      <4> HIDE DEF freed
      <4>1. freed = MutexReleaseTask(kernel, t) /\ kernel' = SchedCurrentBlocked(ended)
        BY <1>1 DEF freed
      <4>2. QED
        BY <1>1, <1>2, <4>1, ExitSound
    <3>3. ~PassedOn(kernel, kernel', m)
      <4>1. u # NoTask
        BY <1>2, FieldTypes DEF Consistent
      <4>2. QED
        BY <2>4, <3>1, <4>1 DEF PassedOn, Ended
    <3>4. QED
      BY <2>4, <3>2, <3>3
  <2>5. QED
    BY <1>2, <2>2, <2>3, <2>4, IdleStaysApart DEF PriorityInv
<1>9. QED
  BY <1>4, <1>6, <1>7, <1>8 DEF PriorityInv
-------------------------------------------------------------------------------
(* os_time.c: the tick *)

\* A task that os_TimeTick wakes: it may take from the others what it lent them,
\* and no more than that.
LEMMA WakePriorities ==
    ASSUME NEW k, Consistent(k, {}), Exactly(k), IdleApart(k), k.delayed # <<>>,
           NEW t, t = Head(k.delayed), NEW r, r = WakeHead(k)
    PROVE  /\ t \in Tasks /\ Consistent(r, {}) /\ WokenAt(k, r, t)
           /\ r.nesting = k.nesting /\ Exactly(r)
           /\ \A x \in Tasks : r.effective[x] <= k.effective[x]
           /\ \A x \in Tasks : \/ k.effective[x] <= r.effective[x]
                               \/ k.effective[x] <= r.effective[t]
<1>1. t \in Tasks /\ Consistent(r, {}) /\ WokenAt(k, r, t) /\ Reprices(k, r, t)
  BY WakeHeadSound
<1>2. r.nesting = k.nesting
  BY TickKeepsNesting DEF Consistent
<1>3. /\ k.waitOn \in [Tasks -> WaitLists \cup {NoWait}] /\ NoWait \notin WaitLists
      /\ \A m \in Mutexes : MutexWaiters(m) \in WaitLists
      /\ r.owner = k.owner
      /\ r.waitOn = k.waitOn \/ r.waitOn = [k.waitOn EXCEPT ![t] = NoWait]
  <2>1. \A m \in Mutexes : MutexWaiters(m) \in WaitLists
    BY ListsDiffer
  <2>2. QED
    BY <1>1, <2>1, FieldTypes DEF WokenAt, Consistent
<1>4. Exactly(r)
  <2>1. CASE r.effective = k.effective /\ \A m \in Mutexes : k.waitOn[t] # MutexWaiters(m)
    <3>1. SameWaits(k, r)
      BY <1>1, <1>3, <2>1 DEF SameWaits
    <3>2. QED
      BY <2>1, <3>1, SameWaitsKeep
  <2>2. ASSUME NEW j, Consistent(j, {}), j.effective = k.effective, j.owner = k.owner,
               r = MutexWaitersChanged(j)
        PROVE  Exactly(r)
    <3>1. \A u \in Tasks : IsIdle(u) =>
              j.effective[u] = IdlePriority /\ \A m \in Mutexes : j.owner[m] # u
      BY <2>2, IdleBetweenHandlers
    <3>2. \A u \in Tasks : u \in {} => j.state[u] # "READY"
      OBVIOUS
    <3>3. WaitGraph(r, {}) = WaitGraph(j, {}) /\ Inherited(r.effective, WaitGraph(j, {}))
      BY <2>2, <3>1, <3>2, Recomputed
    <3>4. QED
      BY <3>3 DEF Exactly
  <2>3. QED
    BY <1>1, <2>1, <2>2 DEF Reprices
<1> DEFINE R == WaitGraph(k, {})
           Q == WaitGraph(r, {})
<1>5. \A u \in Tasks : Q[u] \subseteq R[u] /\ R[u] \subseteq Q[u] \cup {t}
  BY <1>1, <1>3 DEF WaitGraph
<1>6. /\ R \in WaitGraphs /\ Q \in WaitGraphs /\ k.effective \in Wishes /\ r.effective \in Wishes
      /\ Inherited(k.effective, R) /\ Inherited(r.effective, Q)
  BY <1>1, <1>4, GraphTypes DEF Exactly
<1> HIDE DEF R, Q
<1>7. \A x \in Tasks : r.effective[x] <= k.effective[x]
  BY <1>5, <1>6, InheritedGrows
<1>8. \A x \in Tasks : k.effective[x] <= r.effective[x] \/ k.effective[x] <= r.effective[t]
  BY <1>1, <1>5, <1>6, InheritedWithOneMore
<1>9. QED
  BY <1>1, <1>2, <1>4, <1>7, <1>8

\* An iteration of os_TimeTick's loop asks for the switch it makes necessary.
LEMMA WakeAsks ==
    ASSUME NEW k, Consistent(k, {}), Exactly(k), IdleApart(k), k.delayed # <<>>, Highest(k),
           k.current \in Tasks \cup {NoTask},
           NEW t, t = Head(k.delayed), NEW r, r = WakeHead(k), ~OutranksCurrent(r, t)
    PROVE  Highest(r)
<1>1. /\ t \in Tasks /\ Consistent(r, {}) /\ WokenAt(k, r, t)
      /\ r.nesting = k.nesting /\ Exactly(r)
      /\ \A x \in Tasks : r.effective[x] <= k.effective[x]
      /\ \A x \in Tasks : k.effective[x] <= r.effective[x] \/ k.effective[x] <= r.effective[t]
  BY WakePriorities
<1>2. /\ k.effective \in [Tasks -> Int] /\ r.effective \in [Tasks -> Int]
      /\ k.state \in [Tasks -> TaskStates]
  BY <1>1, GraphTypes, FieldTypes DEF Consistent
<1> DEFINE c == k.current
<1>3. c # NoTask /\ c \in Tasks /\ r.current = c /\ ~(r.effective[t] > r.effective[c])
  BY <1>1 DEF OutranksCurrent, WokenAt
<1> HIDE DEF c
<1>4. r.effective[t] <= r.effective[c] /\ k.effective[c] <= r.effective[c]
  <2>1. k.effective[c] <= r.effective[c] \/ k.effective[c] <= r.effective[t]
    BY <1>1, <1>3
  <2>2. \A a, b, d \in Int : ~(b > d) /\ (a <= d \/ a <= b) => b <= d /\ a <= d
    OBVIOUS
  <2>3. QED
    BY <1>1, <1>2, <1>3, <2>1, <2>2
<1>5. ASSUME NEW x \in Tasks, r.state[x] = "READY" PROVE r.effective[x] <= r.effective[c]
  <2>1. CASE x = t
    BY <1>4, <2>1
  <2>2. CASE x # t
    <3>1. k.state[x] = "READY"
      BY <1>1, <1>2, <1>5, <2>2 DEF WokenAt
    <3>2. k.effective[x] <= k.effective[c] /\ r.effective[x] <= k.effective[x]
      BY <1>1, <3>1 DEF Highest, c
    <3>3. \A a, b, d, e \in Int : a <= b /\ b <= d /\ d <= e => a <= e
      OBVIOUS
    <3>4. QED
      BY <1>2, <1>3, <1>4, <3>2, <3>3
  <2>3. QED
    BY <2>1, <2>2
<1>6. QED
  BY <1>3, <1>5 DEF Highest

\* The loop: unless a switch is asked for, none is needed.
LEMMA WakeDuePriorities ==
    ASSUME NEW k, Sound(k), Exactly(k), IdleApart(k), Highest(k),
           NEW w, w = WakeDue(k)
    PROVE  /\ Exactly(w.k) /\ w.k.nesting = k.nesting
           /\ w.wokeHigher \/ Highest(w.k)
<1>1. Consistent(k, {}) /\ k \in GoodKernel
  BY DEF Sound, Consistent
<1>2. PICK after \in [0 .. TaskCount -> Wakings] :
         /\ after[0].k = k
         /\ \A n \in Tasks :
               LET u == after[n].k
                   v == after[n + 1].k
                   t == Head(u.delayed)
               IN /\ v = IF HeadIsDue(u) THEN WakeHead(u) ELSE u
                  /\ after[n + 1].wokeHigher =
                        (after[n].wokeHigher \/ (HeadIsDue(u) /\ OutranksCurrent(v, t)))
         /\ WakeDue(k) = after[TaskCount]
  BY <1>1, WakeDueLoop
<1>3. TaskCount \in Nat /\ 0 .. TaskCount - 1 = Tasks /\ TaskCount \in 0 .. TaskCount
  BY OsKernelAssumption DEF Tasks
<1> DEFINE Kernels(j) == /\ Consistent(j, {}) /\ Exactly(j) /\ IdleApart(j) /\ j.nesting = k.nesting
                         /\ j.current \in Tasks \cup {NoTask}
           Done(a) == Kernels(a.k) /\ (a.wokeHigher \/ Highest(a.k))
           T == {n \in 0 .. TaskCount : Done(after[n])}
<1>4. Done(after[0])
  BY <1>1, <1>2, FieldTypes
<1>5. ASSUME NEW n \in 0 .. TaskCount - 1, n \in T PROVE n + 1 \in T
  <2> DEFINE a == after[n]
             b == after[n + 1]
             j == a.k
             r == b.k
             t == Head(j.delayed)
  <2>1. n + 1 \in 0 .. TaskCount /\ n \in Tasks
    BY <1>3
  <2>2. Done(a)
    BY <1>5
  <2>3. /\ r = IF HeadIsDue(j) THEN WakeHead(j) ELSE j
        /\ b.wokeHigher = (a.wokeHigher \/ (HeadIsDue(j) /\ OutranksCurrent(r, t)))
    BY <1>2, <2>1
  <2>4. Kernels(j) /\ (a.wokeHigher \/ Highest(j))
    BY <2>2
  <2> HIDE DEF Kernels, t, r, j, a, b
  <2>5. CASE ~HeadIsDue(j)
    <3>1. r = j /\ b.wokeHigher = a.wokeHigher
      <4>1. r = j
        BY <2>3, <2>5
      <4>2. b.wokeHigher = (a.wokeHigher \/ FALSE) /\ a.wokeHigher \in BOOLEAN
        <5>1. n \in 0 .. TaskCount /\ after \in [0 .. TaskCount -> Wakings]
          BY <1>3
        <5>2. after[n] \in Wakings
          BY <5>1
        <5>3. QED
          BY <2>3, <2>5, <5>2 DEF Wakings, a
      <4>3. QED
        BY <4>1, <4>2
    <3>2. Kernels(r) /\ (b.wokeHigher \/ Highest(r))
      BY <2>4, <3>1
    <3>3. Done(after[n + 1])
      BY <3>2 DEF r, b
    <3>4. QED
      BY <2>1, <3>3
  <2>6. CASE HeadIsDue(j)
    <3>1. r = WakeHead(j) /\ j.delayed # <<>> /\ t = Head(j.delayed)
      BY <2>3, <2>6 DEF HeadIsDue, t
    <3>2. /\ Consistent(j, {}) /\ Exactly(j) /\ IdleApart(j) /\ j.nesting = k.nesting
          /\ j.current \in Tasks \cup {NoTask}
      BY <2>4 DEF Kernels
    <3>3. /\ t \in Tasks /\ Consistent(r, {}) /\ WokenAt(j, r, t)
          /\ r.nesting = j.nesting /\ Exactly(r)
      BY <3>1, <3>2, WakePriorities
    <3>4. IdleApart(r) /\ r.current = j.current
      <4>1. /\ r.state = [j.state EXCEPT ![t] = "READY"] /\ r.owner = j.owner
            /\ r.current = j.current
        BY <3>3 DEF WokenAt
      <4>2. j.state \in [Tasks -> TaskStates]
        BY <3>2, FieldTypes DEF Consistent
      <4>3. QED
        BY <3>2, <4>1, <4>2 DEF IdleApart
    <3>5. Kernels(r)
      BY <3>2, <3>3, <3>4 DEF Kernels
    <3>6. b.wokeHigher \/ Highest(r)
      <4>1. CASE a.wokeHigher \/ OutranksCurrent(r, t)
        BY <2>3, <2>6, <4>1
      <4>2. CASE ~a.wokeHigher /\ ~OutranksCurrent(r, t)
        <5>1. Highest(j)
          BY <2>4, <4>2
        <5>2. QED
          BY <3>1, <3>2, <4>2, <5>1, WakeAsks
      <4>3. QED
        BY <4>1, <4>2
    <3>7. Done(after[n + 1])
      BY <3>5, <3>6 DEF r, b
    <3>8. QED
      BY <2>1, <3>7
  <2>7. QED
    BY <2>5, <2>6
<1>6. Done(after[TaskCount])
  <2> HIDE DEF Done
  <2>1. 0 \in T
    BY <1>3, <1>4
  <2> HIDE DEF T
  <2>2. TaskCount \in T
    BY <1>3, <1>5, <2>1, LoopInduction
  <2>3. QED
    BY <2>2 DEF T
<1>7. QED
  BY <1>2, <1>6

\* The decision at the end of a tick takes the switch that was asked for.
LEMMA TickSwitchRuns ==
    ASSUME NEW k, Sound(k), k.started, NEW woke, woke \/ Highest(k)
    PROVE  LET r == TickSwitch(k, woke) IN Highest(r) /\ r.effective = k.effective
<1> DEFINE r == TickSwitch(k, woke)
           rotated == SchedSchedule(k, TRUE)
           slept == [rotated EXCEPT !.slice = TimeSlice]
<1>1. \A rotate : /\ Highest(SchedSchedule(k, rotate)) /\ Sound(SchedSchedule(k, rotate))
                  /\ SchedSchedule(k, rotate).effective = k.effective
  BY DecisionsRun, SchedScheduleSound DEF Sound
<1>2. Highest(rotated) /\ rotated \in Kernel /\ rotated.effective = k.effective
  BY <1>1 DEF Sound, Consistent, GoodKernel
<1>3. Highest(slept) /\ slept.effective = k.effective
  <2> HIDE DEF rotated
  <2>1. /\ slept.state = rotated.state /\ slept.current = rotated.current
        /\ slept.effective = rotated.effective
    BY <1>2 DEF Kernel
  <2>2. QED
    BY <1>2, <2>1 DEF Highest
<1>4. \/ r = SchedSchedule(k, FALSE)
      \/ r = k /\ ~woke
      \/ r = rotated
      \/ r = slept
  BY DEF TickSwitch
<1>5. QED
  <2> HIDE DEF r, rotated, slept
  <2>1. Highest(r) /\ r.effective = k.effective
    BY <1>1, <1>2, <1>3, <1>4
  <2>2. QED
    BY <2>1 DEF r

\* os_TimeTick.
LEMMA TickPriorities ==
    ASSUME KernelInv(kernel), PriorityInv(kernel), Tick
    PROVE  PriorityInv(kernel')
<1> DEFINE a == AdvanceTick(kernel)
           w == WakeDue(a)
           u == UseSlice(w.k)
           r == TickSwitch(u, w.wokeHigher)
<1>1. kernel.started /\ kernel' = TimeTick(kernel) /\ kernel' = r
  BY DEF Tick, TimeTick
<1>2. Sound(kernel) /\ Consistent(kernel, {}) /\ kernel \in GoodKernel /\ kernel \in Kernel
  BY DEF KernelInv, Sound, Consistent, GoodKernel
<1>3. /\ a.state = kernel.state /\ a.current = kernel.current /\ a.effective = kernel.effective
      /\ a.owner = kernel.owner /\ a.waitOn = kernel.waitOn /\ a.nesting = kernel.nesting
      /\ a.started = kernel.started
  <2> DEFINE now == (kernel.tick + 1) % TickModulus
  <2>1. \/ a = [kernel EXCEPT !.tick = 0, !.delayed = kernel.overflow, !.overflow = kernel.delayed]
        \/ a = [kernel EXCEPT !.tick = now]
    BY DEF AdvanceTick
  <2> HIDE DEF a, now
  <2>2. QED
    BY <1>2, <2>1 DEF Kernel
<1>4. Sound(a) /\ Deadlines(a, a.tick)
  BY <1>2, AdvanceTickSound DEF KernelInv
<1> HIDE DEF a
<1>5. Exactly(a) /\ IdleApart(a) /\ Highest(a)
  <2>1. WaitGraph(a, {}) = WaitGraph(kernel, {})
    BY <1>3 DEF WaitGraph
  <2>2. QED
    BY <1>1, <1>3, <2>1 DEF PriorityInv, Exactly, IdleApart, Highest
<1>6. /\ Exactly(w.k) /\ w.k.nesting = 0 /\ (w.wokeHigher \/ Highest(w.k))
      /\ Sound(w.k) /\ w.k.started
  <2>1. Exactly(w.k) /\ w.k.nesting = a.nesting /\ (w.wokeHigher \/ Highest(w.k))
    BY <1>4, <1>5, WakeDuePriorities
  <2>2. Sound(w.k) /\ WokenDue(a, w.k)
    BY <1>4, WakeDueSound
  <2> HIDE DEF w
  <2>3. QED
    BY <1>1, <1>3, <2>1, <2>2 DEF PriorityInv, WokenDue
<1> DEFINE j == w.k
           woke == w.wokeHigher
<1>7. /\ Sound(u) /\ SameTasks(j, u) /\ u.nesting = 0 /\ u.effective = j.effective
  <2>1. Sound(j) /\ j \in Kernel /\ j.nesting = 0 /\ j \in GoodKernel
    BY <1>6 DEF Sound, Consistent, GoodKernel
  <2>2. u = UseSlice(j)
    OBVIOUS
  <2> HIDE DEF j, u
  <2>3. Sound(u) /\ SameTasks(j, u)
    BY <2>1, <2>2, UseSliceSound
  <2>4. u = j \/ u = [j EXCEPT !.slice = @ - 1]
    BY <2>2 DEF UseSlice
  <2>5. u.nesting = j.nesting /\ u.effective = j.effective
    BY <2>1, <2>4 DEF Kernel
  <2>6. QED
    BY <2>1, <2>3, <2>5
<1>8. r = TickSwitch(u, woke) /\ (woke \/ Highest(j)) /\ Exactly(j) /\ j.started
  BY <1>6
<1> HIDE DEF r, u, j, woke, w
<1>9. (woke \/ Highest(u)) /\ Exactly(u) /\ u.started /\ u \in GoodKernel
  <2>1. WaitGraph(u, {}) = WaitGraph(j, {})
    BY <1>7 DEF SameTasks, WaitGraph
  <2>2. QED
    BY <1>7, <1>8, <2>1 DEF SameTasks, Exactly, Highest, Sound, Consistent
<1>10. /\ Highest(r) /\ r.effective = u.effective /\ Sound(r) /\ OnlySchedules(u, r)
       /\ r.nesting = 0
  <2>1. Highest(r) /\ r.effective = u.effective
    BY <1>7, <1>8, <1>9, TickSwitchRuns
  <2>2. Sound(r) /\ OnlySchedules(u, r)
    BY <1>7, <1>8, TickSwitchSound
  <2>3. r.nesting = u.nesting
    BY <1>8, <1>9, TickKeepsNesting
  <2>4. QED
    BY <1>7, <2>1, <2>2, <2>3
<1>11. Exactly(r)
  <2>1. WaitGraph(r, {}) = WaitGraph(u, {})
    BY <1>10 DEF OnlySchedules, WaitGraph
  <2>2. QED
    BY <1>9, <1>10, <2>1 DEF Exactly
<1>12. IdleApart(kernel')
  <2>1. kernel'.owner = kernel.owner /\ \A x \in Tasks : Kept(kernel, kernel', x) \/ TimedOut(kernel, kernel', x)
    BY <1>1, <1>2, TimeTickSound DEF KernelInv
  <2>2. QED
    BY <2>1 DEF PriorityInv, IdleApart, Kept, TimedOut
<1>13. QED
  BY <1>1, <1>10, <1>11, <1>12 DEF PriorityInv
-------------------------------------------------------------------------------
(* The theorems *)

\* The state os_Start is called in: nobody waits and nobody owns.
LEMMA InitPriorities == Init => PriorityInv(kernel)
<1> SUFFICES ASSUME Init PROVE PriorityInv(kernel)
  OBVIOUS
<1>1. Filled(kernel, TaskCount) /\ kernel = CreatedKernel
  BY CreatedFilled DEF Init
<1>2. NoTask \notin Tasks /\ \A m \in Mutexes : MutexWaiters(m) # NoWait
  <2>1. kernel \in GoodKernel
    BY <1>1 DEF Filled, Consistent
  <2>2. QED
    BY <2>1, ListsDiffer, FieldTypes
<1> DEFINE R == WaitGraph(kernel, {})
<1>3. R \in WaitGraphs /\ \A u \in Tasks : R[u] = {}
  <2>1. \A u \in Tasks : kernel.waitOn[u] = NoWait
    BY <1>1 DEF Filled
  <2>2. QED
    BY <1>2, <2>1 DEF WaitGraph, WaitGraphs
<1> HIDE DEF R
<1>4. Exactly(kernel)
  <2>1. \A u \in Tasks : Held(R, u) = {u}
    BY <1>3, HeldAlone
  <2>2. BasePriority \in [Tasks -> Int]
    BY OsKernelAssumption DEF Priorities
  <2>3. Inherited(BasePriority, R)
    BY <2>1, <2>2 DEF Inherited
  <2>4. QED
    BY <1>1, <2>3 DEF Exactly, Filled, R
<1>5. IdleApart(kernel)
  BY <1>1, <1>2 DEF Filled, IdleApart
<1>6. QED
  BY <1>1, <1>4, <1>5 DEF PriorityInv, Filled

\* Every step keeps the priorities exact and the highest of them running.
LEMMA StepPriorities ==
    ASSUME SafeInv, PriorityInv(kernel), [Next]_vars
    PROVE  PriorityInv(kernel')
<1>1. KernelInv(kernel) /\ Delays \subseteq Ticks /\ Timeouts \subseteq Ticks
  BY MiniRtosAssumption DEF SafeInv
<1>2. CASE UNCHANGED vars
  BY <1>2 DEF vars
<1>3. CASE Start
  BY <1>1, <1>3, StartPriorities DEF Start
<1>4. CASE Timer
  BY <1>1, <1>4, TickPriorities DEF Timer
<1>5. CASE Interrupt
  BY <1>1, <1>5, SemGiveFromISRPriorities DEF Interrupt
<1>6. ASSUME NEW t \in Tasks, Scheduling(t) PROVE PriorityInv(kernel')
  <2>1. CASE TaskYield(t)
    BY <1>1, <2>1, YieldPriorities
  <2>2. CASE ~IsIdle(t) /\ TaskExit(t)
    BY <1>1, <2>2, ExitPriorities
  <2>3. ASSUME ~IsIdle(t), NEW ticks \in Delays, TaskDelay(t, ticks) PROVE PriorityInv(kernel')
    BY <1>1, <2>3, DelayPriorities
  <2>4. QED
    BY <1>6, <2>1, <2>2, <2>3 DEF Scheduling
<1>7. ASSUME NEW t \in Tasks, UserCall(t) PROVE PriorityInv(kernel')
  <2>1. ~IsIdle(kernel.current)
    BY <1>7 DEF UserCall
  <2>2. ASSUME NEW m \in Mutexes, MutexUnlock(m) PROVE PriorityInv(kernel')
    BY <1>1, <2>2, MutexUnlockPriorities
  <2>3. ASSUME NEW m \in Mutexes, NEW ticks \in Timeouts, MutexLock(m, ticks)
        PROVE  PriorityInv(kernel')
    BY <1>1, <2>1, <2>3, MutexLockPriorities
  <2>4. ASSUME NEW s \in Semaphores, SemGive(s) PROVE PriorityInv(kernel')
    BY <1>1, <2>4, SemGivePriorities
  <2>5. ASSUME NEW s \in Semaphores, NEW ticks \in Timeouts, SemTake(s, ticks)
        PROVE  PriorityInv(kernel')
    BY <1>1, <2>1, <2>5, SemTakePriorities
  <2>6. ASSUME NEW q \in Queues, NEW ticks \in Timeouts, QueueReceive(q, ticks)
        PROVE  PriorityInv(kernel')
    BY <1>1, <2>1, <2>6, QueueReceivePriorities
  <2>7. ASSUME NEW q \in Queues, NEW ticks \in Timeouts, NEW message \in Messages,
               QueueSend(q, message, ticks)
        PROVE  PriorityInv(kernel')
    BY <1>1, <2>1, <2>7, QueueSendPriorities
  <2>8. CASE MutexCall
    BY <2>2, <2>3, <2>8 DEF MutexCall
  <2>9. CASE SemCall
    BY <2>4, <2>5, <2>9 DEF SemCall
  <2>10. CASE QueueCall
    BY <2>6, <2>7, <2>10 DEF QueueCall
  <2>11. QED
    BY <1>7, <2>8, <2>9, <2>10 DEF UserCall
<1>8. QED
  BY <1>2, <1>3, <1>4, <1>5, <1>6, <1>7 DEF Next

\* The two inductive invariants hold together.
LEMMA AlwaysPriorities == Spec => [](SafeInv /\ PriorityInv(kernel))
<1>1. Init => SafeInv /\ PriorityInv(kernel)
  BY InitSafe, InitPriorities
<1>2. SafeInv /\ PriorityInv(kernel) /\ [Next]_vars => SafeInv' /\ PriorityInv(kernel)'
  BY StepSafe, StepPriorities
<1>3. QED
  BY <1>1, <1>2, PTL DEF Spec

\* Highest is the property.
LEMMA SafeHighest == SafeInv /\ PriorityInv(kernel) => HighestPriorityRuns
  BY DEF PriorityInv, Highest, HighestPriorityRuns

\* No call, tick or interrupt leaves a READY task above the running one: every
\* path that makes a task ready, raises it or lowers the one that runs takes the
\* switch this calls for, before or after the priorities are recomputed.
THEOREM HighestAlwaysRuns == Spec => []HighestPriorityRuns
  BY SafeHighest, AlwaysPriorities, PTL

\* The rounds of HeldUpBy find the tasks t holds up.
LEMMA HeldUpByIsHeld ==
    ASSUME NEW t \in Tasks
    PROVE  HeldUpBy(t) = Held(WaitGraph(kernel, {}), t)
<1> DEFINE R == WaitGraph(kernel, {})
           Rec(g) == g = [n \in 0 .. TaskCount |->
                             IF n = 0 THEN {t}
                             ELSE LET S == g[n - 1]
                                  IN S \cup {w \in Tasks : \E u \in S : WaitsOn(w, u)}]
           upTo == CHOOSE g : Rec(g)
<1>1. R \in WaitGraphs
  BY DEF WaitGraph, WaitGraphs
<1>2. TaskCount \in Nat /\ 0 .. TaskCount - 1 = Tasks /\ TaskCount \in 0 .. TaskCount
  BY OsKernelAssumption DEF Tasks
<1>3. \A S \in SUBSET Tasks :
          S \cup {w \in Tasks : \E u \in S : WaitsOn(w, u)} = S \cup UNION {R[u] : u \in S}
  <2> SUFFICES ASSUME NEW S \in SUBSET Tasks
               PROVE  {w \in Tasks : \E u \in S : WaitsOn(w, u)} = UNION {R[u] : u \in S}
    OBVIOUS
  <2>1. \A u \in Tasks : R[u] = {w \in Tasks : WaitsOn(w, u)}
    BY DEF WaitGraph, WaitsOn
  <2> HIDE DEF R
  <2>2. QED
    BY <2>1
<1> HIDE DEF R
<1>4. PICK f \in [0 .. TaskCount -> SUBSET Tasks] :
          /\ f[0] = {t}
          /\ \A n \in 0 .. TaskCount - 1 : f[n + 1] = f[n] \cup UNION {R[u] : u \in f[n]}
  BY <1>1, RoundsExist
<1>5. Rec(f)
  <2>1. ASSUME NEW n \in 0 .. TaskCount, n # 0
        PROVE  f[n] = f[n - 1] \cup {w \in Tasks : \E u \in f[n - 1] : WaitsOn(w, u)}
    <3>1. n - 1 \in 0 .. TaskCount - 1 /\ (n - 1) + 1 = n /\ n - 1 \in 0 .. TaskCount
      BY <1>2, <2>1
    <3>2. f[n] = f[n - 1] \cup UNION {R[u] : u \in f[n - 1]} /\ f[n - 1] \in SUBSET Tasks
      BY <1>4, <3>1
    <3>3. QED
      BY <1>3, <3>2
  <2>2. f = [n \in 0 .. TaskCount |-> f[n]]
    OBVIOUS
  <2>3. QED
    BY <1>4, <2>1, <2>2
<1>6. Rec(upTo)
  BY <1>5
<1>7. HeldUpBy(t) = upTo[TaskCount]
  BY Zenon DEF HeldUpBy
<1> HIDE DEF upTo
<1> DEFINE T == {n \in 0 .. TaskCount : upTo[n] = f[n]}
<1>8. 0 \in T
  BY <1>2, <1>4, <1>6
<1>9. ASSUME NEW n \in 0 .. TaskCount - 1, n \in T PROVE n + 1 \in T
  <2>1. n + 1 \in 0 .. TaskCount /\ n + 1 # 0 /\ (n + 1) - 1 = n /\ upTo[n] = f[n]
    BY <1>2, <1>9
  <2>2. \A g : Rec(g) => g[n + 1] = g[n] \cup {w \in Tasks : \E u \in g[n] : WaitsOn(w, u)}
    BY <2>1
  <2> HIDE DEF Rec
  <2>3. upTo[n + 1] = f[n + 1]
    BY <1>5, <1>6, <2>1, <2>2
  <2>4. QED
    BY <2>1, <2>3
<1> HIDE DEF T
<1>10. TaskCount \in T
  BY <1>2, <1>8, <1>9, LoopInduction
<1>11. f[TaskCount] = Held(R, t)
  BY <1>1, <1>4, RoundsReachAll
<1>12. QED
  BY <1>7, <1>10, <1>11 DEF T, R

\* The highest priority in what a task holds up is the effective one.
LEMMA SafeInheritance == SafeInv /\ PriorityInv(kernel) => InheritanceExact
<1>1. ASSUME Exactly(kernel), NEW t \in Tasks
      PROVE  kernel.effective[t] = Max({BasePriority[w] : w \in HeldUpBy(t)})
  <2> DEFINE H == Held(WaitGraph(kernel, {}), t)
             V == {BasePriority[w] : w \in H}
  <2>1. HeldUpBy(t) = H
    BY HeldUpByIsHeld
  <2>2. /\ \E w \in H : kernel.effective[t] = BasePriority[w]
        /\ \A w \in H : kernel.effective[t] >= BasePriority[w]
    BY <1>1 DEF Exactly, Inherited
  <2>3. \A w \in H : BasePriority[w] \in Int
    BY OsKernelAssumption DEF Held, Priorities
  <2> DEFINE e == kernel.effective[t]
  <2>4. e \in V /\ e \in Int /\ V \subseteq Int /\ \A x \in V : e >= x
    BY <2>2, <2>3
  <2> HIDE DEF H, V, e
  <2>5. \A x \in V : (\A y \in V : x >= y) <=> x = e
    BY <2>4
  <2>6. Max(V) = e
    BY <2>4, <2>5 DEF Max
  <2>7. QED
    BY <2>1, <2>6 DEF V, e
<1>2. QED
  BY <1>1 DEF PriorityInv, InheritanceExact

\* os_MutexWaitersChanged is called wherever the wait graph changes: a task runs
\* at the highest base priority among itself and the tasks it holds up, through
\* chains of owners of any length, after every lock, unlock, timeout and exit.
THEOREM PrioritiesAreInherited == Spec => []InheritanceExact
  BY AlwaysPriorities, SafeInheritance, PTL
-------------------------------------------------------------------------------
(* os_KernelValidate *)

\* A task stands once on a list that holds it exactly, and not on another.
LEMMA OccursOnce ==
    ASSUME NEW list, NEW S, Exact(list, S), NEW t \in Tasks
    PROVE  /\ t \in S => \E i \in 1 .. Len(list) : Places(list, t) = {i}
           /\ t \notin S => Places(list, t) = {}
           /\ Occurrences(list, t) = IF t \in S THEN 1 ELSE 0
<1>1. ASSUME t \in S PROVE \E i \in 1 .. Len(list) : Places(list, t) = {i}
  <2>1. PICK i \in 1 .. Len(list) : list[i] = t
    BY <1>1 DEF Exact
  <2>2. Places(list, t) = {i}
    BY <2>1 DEF Places, Exact
  <2>3. QED
    BY <2>2
<1>2. t \notin S => Places(list, t) = {}
  BY DEF Places, Exact
<1>3. Occurrences(list, t) = IF t \in S THEN 1 ELSE 0
  BY <1>1, <1>2, FS_EmptySet, FS_Singleton DEF Occurrences
<1>4. QED
  BY <1>1, <1>2, <1>3

\* A READY task stands once on the ready queues, and no other task does.
LEMMA InReadyExact ==
    ASSUME NEW k, Consistent(k, {}), NEW t \in Tasks
    PROVE  InReady(k, t) = IF k.state[t] = "READY" THEN 1 ELSE 0
<1> DEFINE At(p) == Places(k.ready[p], t)
           U == UNION {{p} \X At(p) : p \in Priorities}
<1>1. k.effective[t] \in Priorities
  BY FieldTypes DEF Consistent
<1>2. ASSUME NEW p \in Priorities
      PROVE  IF k.state[t] = "READY" /\ k.effective[t] = p
             THEN \E i \in 1 .. Len(k.ready[p]) : At(p) = {i} ELSE At(p) = {}
  <2> DEFINE S == {u \in Tasks \ {} : k.state[u] = "READY" /\ k.effective[u] = p}
  <2>1. Exact(k.ready[p], S)
    BY DEF Consistent, ReadyExact
  <2>2. t \in S <=> k.state[t] = "READY" /\ k.effective[t] = p
    OBVIOUS
  <2> HIDE DEF S
  <2>3. QED
    BY <2>1, <2>2, OccursOnce
<1> HIDE DEF At
<1>3. CASE k.state[t] = "READY"
  <2> DEFINE e == k.effective[t]
  <2>1. PICK i : At(e) = {i}
    BY <1>1, <1>2, <1>3
  <2>2. \A p \in Priorities : p # e => At(p) = {}
    BY <1>2, <1>3
  <2> HIDE DEF e
  <2>3. U = {<<e, i>>}
    BY <1>1, <2>1, <2>2 DEF e
  <2>4. QED
    BY <1>3, <2>3, FS_Singleton DEF InReady, At
<1>4. CASE k.state[t] # "READY"
  <2>1. \A p \in Priorities : At(p) = {}
    BY <1>2, <1>4
  <2>2. U = {}
    BY <2>1
  <2>3. QED
    BY <1>4, <2>2, FS_EmptySet DEF InReady, At
<1>5. QED
  BY <1>3, <1>4

\* The first two loops of os_KernelValidate.
LEMMA ValidLists ==
    ASSUME NEW k, Sound(k), NEW first, Deadlines(k, first)
    PROVE  ListsValid(k)
<1>1. /\ k \in GoodKernel /\ ReadyExact(k, {}) /\ DelaysExact(k) /\ StatesAgree(k, {})
  BY DEF Sound, Consistent
<1>2. ASSUME NEW p \in Priorities, NEW t \in ToSet(k.ready[p])
      PROVE  k.state[t] = "READY" /\ k.effective[t] = p
  <2> DEFINE S == {u \in Tasks \ {} : k.state[u] = "READY" /\ k.effective[u] = p}
  <2>1. Exact(k.ready[p], S) /\ S \subseteq Tasks
    BY <1>1 DEF ReadyExact
  <2>2. t \in S
    <3> HIDE DEF S
    <3>1. QED
      BY <1>2, <2>1, ExactList
  <2>3. QED
    BY <2>2
<1>3. ASSUME NEW list \in {k.delayed, k.overflow}
      PROVE  /\ \A t \in ToSet(list) : k.state[t] \in {"BLOCKED_DELAY", "BLOCKED_OBJECT"}
             /\ \A i \in 2 .. Len(list) : k.wake[list[i - 1]] <= k.wake[list[i]]
  <2>1. \A t \in ToSet(list) : t \in Tasks \ {} /\ DelayLinked(k, t)
    BY <1>1, DelayLists DEF DelayLinked
  <2>2. Ranked(list, k.wake) /\ list \in Seq(Tasks)
    BY <1>1, DelayLists DEF Deadlines
  <2>3. ASSUME NEW i \in 2 .. Len(list) PROVE k.wake[list[i - 1]] <= k.wake[list[i]]
    <3>1. i - 1 \in 1 .. Len(list) /\ i \in 1 .. Len(list) /\ i - 1 < i
      BY <2>2
    <3>2. QED
      BY <2>2, <3>1 DEF Ranked
  <2>4. QED
    BY <1>1, <2>1, <2>3 DEF StatesAgree
<1>4. QED
  BY <1>1, <1>2, <1>3 DEF ListsValid, GoodKernel

\* How often the delay lists hold a task.
LEMMA InDelayExact ==
    ASSUME NEW k, Consistent(k, {}), NEW t \in Tasks
    PROVE  /\ InDelay(k, t) = IF DelayLinked(k, t) THEN 1 ELSE 0
           /\ k.state[t] = "BLOCKED_DELAY" => DelayLinked(k, t)
           /\ k.state[t] \in {"READY", "RUNNING", "TERMINATED"} => ~DelayLinked(k, t)
<1>1. /\ Exact(k.delayed, ToSet(k.delayed)) /\ Exact(k.overflow, ToSet(k.overflow))
      /\ ToSet(k.delayed) \cap ToSet(k.overflow) = {}
  BY DEF Consistent, DelaysExact
<1>2. /\ Occurrences(k.delayed, t) = IF t \in ToSet(k.delayed) THEN 1 ELSE 0
      /\ Occurrences(k.overflow, t) = IF t \in ToSet(k.overflow) THEN 1 ELSE 0
  BY <1>1, OccursOnce
<1>3. InDelay(k, t) = IF DelayLinked(k, t) THEN 1 ELSE 0
  BY <1>1, <1>2 DEF InDelay, DelayLinked
<1>4. t \in Tasks \ {}
  OBVIOUS
<1>5. QED
  BY <1>3, <1>4 DEF Consistent, StatesAgree

\* The third loop.
LEMMA ValidTask ==
    ASSUME NEW k, Sound(k), Exactly(k), IdleApart(k), NEW t \in Tasks
    PROVE  TaskValid(k, t)
<1>1. Consistent(k, {}) /\ k \in GoodKernel
  BY DEF Sound, Consistent
<1>2. IF IsIdle(t) THEN k.effective[t] = IdlePriority ELSE k.effective[t] >= BasePriority[t]
  <2>1. t \in Held(WaitGraph(k, {}), t)
    BY <1>1, GraphTypes, HeldLeast
  <2>2. k.effective[t] >= BasePriority[t]
    BY <2>1 DEF Exactly, Inherited
  <2>3. QED
    BY <1>1, <2>2, IdleBetweenHandlers
<1>3. InReady(k, t) = IF k.state[t] = "READY" THEN 1 ELSE 0
  BY <1>1, InReadyExact
<1>4. /\ InDelay(k, t) = IF DelayLinked(k, t) THEN 1 ELSE 0
      /\ k.state[t] = "BLOCKED_DELAY" => DelayLinked(k, t)
      /\ k.state[t] \in {"READY", "RUNNING", "TERMINATED"} => ~DelayLinked(k, t)
  BY <1>1, InDelayExact
<1>5. ScheduleLinked(k, t) <=> k.state[t] = "READY" \/ k.waitOn[t] # NoWait
  BY <1>1, WhoIsLinked
<1>6. /\ k.waitOn[t] # NoWait <=> k.state[t] = "BLOCKED_OBJECT"
      /\ k.waitOn[t] \in WaitLists \cup {NoWait}
      /\ k.state[t] = "RUNNING" => k.current = t
  <2>1. t \in Tasks \ {}
    OBVIOUS
  <2>2. QED
    BY <1>1, <2>1, FieldTypes DEF Consistent, StatesAgree, OneRuns
<1>7. ASSUME k.state[t] = "BLOCKED_OBJECT"
      PROVE  k.waitOn[t] \in WaitLists /\ t \in ToSet(k.waiters[k.waitOn[t]])
  <2> DEFINE l == k.waitOn[t]
             S == {u \in Tasks \ {} : k.waitOn[u] = l}
  <2>1. l \in WaitLists
    BY <1>6, <1>7
  <2>2. Exact(k.waiters[l], S) /\ S \subseteq Tasks /\ t \in S
    BY <1>1, <2>1 DEF Consistent, WaitersExact
  <2> HIDE DEF l, S
  <2>3. t \in ToSet(k.waiters[l])
    BY <2>2, ExactList
  <2>4. QED
    BY <2>1, <2>3 DEF l
<1>8. QED
  BY <1>2, <1>3, <1>4, <1>5, <1>6, <1>7 DEF TaskValid

\* Each test of os_KernelValidate is found in the invariants.
LEMMA SafeValidation ==
    ASSUME SafeInv, PriorityInv(kernel)
    PROVE  KernelValid
<1>1. /\ Sound(kernel) /\ Deadlines(kernel, kernel.tick + 1)
      /\ Exactly(kernel) /\ IdleApart(kernel)
  BY DEF SafeInv, KernelInv, PriorityInv
<1>2. ListsValid(kernel)
  BY <1>1, ValidLists
<1>3. \A t \in Tasks : TaskValid(kernel, t)
  BY <1>1, ValidTask
<1>4. QED
  BY <1>1, <1>2, <1>3 DEF KernelValid, KernelValidate, Sound

\* What the Win32 port asserts after every request and tick cannot fail: no
\* handler leaves a task on a list its state does not call for, twice on one, or
\* below its base priority.
THEOREM ValidationPasses == Spec => []KernelValid
  BY SafeValidation, AlwaysPriorities, PTL
-------------------------------------------------------------------------------
(* What the kernel promises between two handlers, wherever it runs *)

KernelPromises ==
    /\ ContainersExact /\ WaitListsOrdered /\ NoLostWakeup /\ OwnersCanRelease /\ DeadlinesAhead
    /\ HighestPriorityRuns /\ InheritanceExact /\ KernelValid

\* A port that keeps the invariants keeps the promises.
LEMMA SafePromises ==
    ASSUME SafeInv, PriorityInv(kernel)
    PROVE  KernelPromises
  BY SafeContainers, SafeWaitLists, SafeWakeups, SafeOwners, SafeDeadlines,
     SafeHighest, SafeInheritance, SafeValidation DEF KernelPromises
===============================================================================
