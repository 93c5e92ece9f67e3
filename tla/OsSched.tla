-------------------------------- MODULE OsSched --------------------------------
(***************************************************************************)
(* The scheduler of os_sched.c: the ready queues and their bitmap, the     *)
(* switch decision, wait lists ordered by effective priority, and blocking *)
(* and waking.  The two delay-list operations of os_time.c that blocking   *)
(* and waking call are here too.                                           *)
(***************************************************************************)
EXTENDS OsKernel

ReadyEnqueue(k, t) ==
    LET p == k.effective[t] IN
    IF k.state[t] = "READY" /\ ~ScheduleLinked(k, t)
    THEN [k EXCEPT !.ready[p] = Append(@, t), !.bitmap = @ \cup {p}]
    ELSE k

ReadyRemove(k, t) ==
    LET p == k.effective[t]
        rest == ListRemove(k.ready[p], t)
    IN [k EXCEPT !.ready[p] = rest,
                 !.bitmap = IF rest = <<>> THEN @ \ {p} ELSE @]

\* -1 when the bitmap is empty.
ReadyHighestPriority(k) == Max(k.bitmap \cup {-1})

\* Mutant: the bitmap bit of an emptied queue stays set.
SwitchToHighestStaleBit(k) ==
    IF k.bitmap = {}
    THEN [k EXCEPT !.current = NoTask, !.slice = 0]
    ELSE LET p == Max(k.bitmap)
             next == Head(k.ready[p])
         IN [k EXCEPT !.ready[p] = Tail(@), !.state[next] = "RUNNING",
                      !.current = next, !.slice = TimeSlice]

\* os_CommitSwitch(os_ReadyPopHighest()): the head of the highest ready queue
\* becomes RUNNING with a full slice; nothing runs when every queue is empty.
SwitchToHighest(k) ==
    IF k.bitmap = {}
    THEN [k EXCEPT !.current = NoTask, !.slice = 0]
    ELSE LET p == Max(k.bitmap)
             next == Head(k.ready[p])
             rest == Tail(k.ready[p])
         IN [k EXCEPT !.ready[p] = rest,
                      !.bitmap = IF rest = <<>> THEN @ \ {p} ELSE @,
                      !.state[next] = "RUNNING",
                      !.current = next,
                      !.slice = TimeSlice]

CurrentRuns(k) == k.current # NoTask /\ k.state[k.current] = "RUNNING"

\* The current task becomes READY at the tail of its queue.
RequeueCurrent(k) ==
    ReadyEnqueue([k EXCEPT !.state[k.current] = "READY"], k.current)

\* os_SchedSchedule: `rotate' lets an equal priority replace the current task.
SchedSchedule(k, rotate) ==
    LET highest == ReadyHighestPriority(k)
        running == k.effective[k.current]
    IN IF ~k.started THEN k
       ELSE IF ~CurrentRuns(k) THEN SwitchToHighest(k)
       ELSE IF highest > running \/ (rotate /\ highest = running)
            THEN SwitchToHighest(RequeueCurrent(k))
            ELSE k

SchedYieldCurrent(k) ==
    IF CurrentRuns(k) THEN SwitchToHighest(RequeueCurrent(k)) ELSE k

SchedCurrentBlocked(k) ==
    IF k.current = NoTask \/ CurrentRuns(k) THEN k ELSE SwitchToHighest(k)
-------------------------------------------------------------------------------
(* os_time.c, the delay lists *)

TimeDelayListRemove(k, t) ==
    [k EXCEPT !.delayed = ListRemove(@, t),
              !.overflow = ListRemove(@, t),
              !.wake[t] = 0]

\* A target behind the current tick lies beyond the wrap of the tick counter.
TimeDelayListInsert(k, t, target) ==
    LET unlinked == TimeDelayListRemove(k, t)
        Later(list) == {i \in 1 .. Len(list) : target < unlinked.wake[list[i]]}
        Insert(list) == InsertBeforeFirst(list, t, Later(list))
    IN IF target < k.tick
       THEN [unlinked EXCEPT !.wake[t] = target, !.overflow = Insert(@)]
       ELSE [unlinked EXCEPT !.wake[t] = target, !.delayed = Insert(@)]
-------------------------------------------------------------------------------
(* os_sched.c, waiting for an object *)

\* Behind every waiter of the same or a higher effective priority.
WaitInsertByPriority(k, l, t) ==
    LET list == k.waiters[l]
        Lower == {i \in 1 .. Len(list) : k.effective[t] > k.effective[list[i]]}
    IN [k EXCEPT !.waiters[l] = InsertBeforeFirst(list, t, Lower)]

WaitRemove(k, l, t) == [k EXCEPT !.waiters[l] = ListRemove(@, t)]

\* Mutant: the task stays where it is queued.
TaskSetEffectivePriorityInPlace(k, t, priority) ==
    IF priority <= IdlePriority \/ priority >= PriorityCount THEN k
    ELSE [k EXCEPT !.effective[t] = priority]

\* os_TaskSetEffectivePriority: the task moves to where its new priority puts
\* it in the ready or wait list it is on, behind its new equals.
TaskSetEffectivePriority(k, t, priority) ==
    IF priority <= IdlePriority \/ priority >= PriorityCount \/ k.effective[t] = priority
    THEN k
    ELSE IF k.state[t] = "READY"
    THEN IF ScheduleLinked(k, t)
         THEN ReadyEnqueue([ReadyRemove(k, t) EXCEPT !.effective[t] = priority], t)
         ELSE k
    ELSE IF k.state[t] = "BLOCKED_OBJECT" /\ ScheduleLinked(k, t)
    THEN LET l == k.waitOn[t] IN
         WaitInsertByPriority([WaitRemove(k, l, t) EXCEPT !.effective[t] = priority], l, t)
    ELSE [k EXCEPT !.effective[t] = priority]

Clamp(ticks) == IF ticks > MaxDelay THEN MaxDelay ELSE ticks

\* Mutant: the deadline, not the timeout, is compared with OS_WAIT_FOREVER.
WaitBlockCurrentByDeadline(k, l, timeout) ==
    LET t == k.current
        deadline == IF timeout = WaitForever THEN WaitForever
                    ELSE (k.tick + Clamp(timeout)) % TickModulus
        blocked == WaitInsertByPriority(
                       [k EXCEPT !.waitOn[t] = l,
                                 !.result[t] = "BAD_STATE",
                                 !.state[t] = "BLOCKED_OBJECT"], l, t)
    IN IF ~CurrentRuns(k) THEN k
       ELSE IF deadline = WaitForever THEN SchedCurrentBlocked(blocked)
       ELSE SchedCurrentBlocked(TimeDelayListInsert(blocked, t, deadline))

\* os_WaitBlockCurrent; the result is BAD_STATE until the waker writes it.
WaitBlockCurrent(k, l, timeout) ==
    LET t == k.current
        blocked == WaitInsertByPriority(
                       [k EXCEPT !.waitOn[t] = l,
                                 !.result[t] = "BAD_STATE",
                                 !.state[t] = "BLOCKED_OBJECT"], l, t)
    IN IF ~CurrentRuns(k) THEN k
       ELSE IF timeout = WaitForever THEN SchedCurrentBlocked(blocked)
       ELSE SchedCurrentBlocked(
                TimeDelayListInsert(blocked, t, (k.tick + Clamp(timeout)) % TickModulus))

WaitHead(k, l) == IF k.waiters[l] = <<>> THEN NoTask ELSE Head(k.waiters[l])

\* os_WaitPop takes WaitHead(k, l) off the list.
WaitPop(k, l) ==
    IF k.waiters[l] = <<>> THEN k ELSE [k EXCEPT !.waiters[l] = Tail(@)]

\* Mutant: the deadline of a wait that was served in time stays armed.
WaitMakeReadyKeepsDeadline(k, t, status) ==
    IF k.state[t] # "BLOCKED_OBJECT" \/ ScheduleLinked(k, t) THEN k
    ELSE ReadyEnqueue([k EXCEPT !.waitOn[t] = NoWait,
                                !.result[t] = status,
                                !.state[t] = "READY"], t)

\* os_WaitMakeReady: t has left the wait list; it leaves its delay list too.
WaitMakeReady(k, t, status) ==
    IF k.state[t] # "BLOCKED_OBJECT" \/ ScheduleLinked(k, t) THEN k
    ELSE ReadyEnqueue([TimeDelayListRemove(k, t) EXCEPT !.waitOn[t] = NoWait,
                                                        !.result[t] = status,
                                                        !.state[t] = "READY"], t)

\* os_WaitMaybePreempt: inside a critical section the switch is deferred.
WaitMaybePreempt(k, woken) ==
    IF k.current # NoTask /\ k.effective[woken] <= k.effective[k.current] THEN k
    ELSE IF k.nesting > 0 THEN [k EXCEPT !.pending = TRUE]
    ELSE SchedSchedule(k, FALSE)

EnterCritical(k) == [k EXCEPT !.nesting = @ + 1]

ExitCritical(k) ==
    IF k.nesting = 0 THEN k
    ELSE IF k.nesting = 1 /\ k.pending
    THEN SchedSchedule([k EXCEPT !.nesting = 0, !.pending = FALSE], FALSE)
    ELSE [k EXCEPT !.nesting = @ - 1]
-------------------------------------------------------------------------------
(* os_KernelValidate, which the Win32 port makes its requests and ticks pass *)

\* ready_membership and delay_membership count where a task stands.
Places(list, t) == {i \in 1 .. Len(list) : list[i] = t}
Occurrences(list, t) == Cardinality(Places(list, t))
InReady(k, t) == Cardinality(UNION {{p} \X Places(k.ready[p], t) : p \in Priorities})
InDelay(k, t) == Occurrences(k.delayed, t) + Occurrences(k.overflow, t)

\* The first two loops: what is on the ready and the delay lists belongs there.
ListsValid(k) ==
    /\ \A p \in Priorities : \A t \in ToSet(k.ready[p]) :
          k.state[t] = "READY" /\ k.effective[t] = p
    /\ k.bitmap = {p \in Priorities : k.ready[p] # <<>>}
    /\ \A list \in {k.delayed, k.overflow} :
          /\ \A t \in ToSet(list) : k.state[t] \in {"BLOCKED_DELAY", "BLOCKED_OBJECT"}
          /\ \A i \in 2 .. Len(list) : k.wake[list[i - 1]] <= k.wake[list[i]]

\* The third loop: each task is in the containers its state calls for.
TaskValid(k, t) ==
    /\ IF IsIdle(t) THEN k.effective[t] = IdlePriority ELSE k.effective[t] >= BasePriority[t]
    /\ InReady(k, t) = IF k.state[t] = "READY" THEN 1 ELSE 0
    /\ k.state[t] = "BLOCKED_DELAY" => InDelay(k, t) = 1 /\ ~ScheduleLinked(k, t)
    /\ k.state[t] = "BLOCKED_OBJECT" =>
          /\ k.waitOn[t] \in WaitLists /\ t \in ToSet(k.waiters[k.waitOn[t]])
          /\ InDelay(k, t) <= 1
    /\ k.state[t] \in {"READY", "RUNNING"} => InDelay(k, t) = 0 /\ k.waitOn[t] = NoWait
    /\ k.state[t] = "RUNNING" => k.current = t /\ ~ScheduleLinked(k, t)
    /\ k.state[t] = "TERMINATED" => InDelay(k, t) = 0 /\ ~ScheduleLinked(k, t)

KernelValidate(k) ==
    /\ ListsValid(k)
    /\ \A t \in Tasks : TaskValid(k, t)
    /\ k.current # NoTask => k.state[k.current] = "RUNNING"
-------------------------------------------------------------------------------
\* Whether a task other than Idle has yet to end.
KernelHasLiveTasks(k) == \E t \in Tasks : ~IsIdle(t) /\ k.state[t] # "TERMINATED"

\* os_KernelStopAll, after a run of the host: the objects keep their wait lists,
\* and `started' stays so that only os_Init allows another run.
KernelStopAll(k) ==
    [k EXCEPT !.started = TRUE,
              !.state = [t \in Tasks |-> "TERMINATED"],
              !.ready = [p \in Priorities |-> <<>>],
              !.bitmap = {},
              !.current = NoTask,
              !.delayed = <<>>,
              !.overflow = <<>>,
              !.wake = [t \in Tasks |-> 0],
              !.waitOn = [t \in Tasks |-> NoWait]]
-------------------------------------------------------------------------------
\* os_SchedStart, on a kernel whose tasks have all been created.
SchedStart ==
    /\ ~kernel.started
    /\ kernel.bitmap # {}
    /\ kernel' = SwitchToHighest([kernel EXCEPT !.started = TRUE])

\* vTaskYield; the Idle task's body is this call in a loop (os_IdleTaskEntry).
TaskYield(t) ==
    /\ t = kernel.current /\ CurrentRuns(kernel)
    /\ kernel' = SchedYieldCurrent(kernel)
===============================================================================
