--------------------------------- MODULE OsSem ---------------------------------
(***************************************************************************)
(* os_sem.c: counting semaphores.  A give hands its permit to the first    *)
(* waiter, and is counted only when nobody waits.                          *)
(***************************************************************************)
EXTENDS OsTime

CONSTANTS MaximumCount,   \* maximum_count of each semaphore
          InitialCount    \* the count each is created with

VARIABLE semCount         \* count of each semaphore

\* xSemaphoreCreateCounting rejects other values.
ASSUME OsSemAssumption ==
    /\ MaximumCount \in [Semaphores -> Nat \ {0}]
    /\ InitialCount \in [Semaphores -> Nat]
    /\ \A s \in Semaphores : InitialCount[s] <= MaximumCount[s]

\* os_SemTakeCurrent
SemTake(s, timeout) ==
    LET t == kernel.current IN
    /\ CurrentRuns(kernel)
    /\ \/ /\ semCount[s] > 0
          /\ semCount' = [semCount EXCEPT ![s] = @ - 1]
          /\ kernel' = SetResult(kernel, t, "OK")
       \/ /\ semCount[s] = 0
          /\ timeout = 0
          /\ kernel' = SetResult(kernel, t, "TIMEOUT")
          /\ UNCHANGED semCount
       \/ /\ semCount[s] = 0
          /\ timeout # 0
          /\ kernel' = WaitBlockCurrent(kernel, SemWaiters(s), timeout)
          /\ UNCHANGED semCount

\* Mutant: a permit handed over is counted as well.
GiveOutcomeCountsTwice(k, s) ==
    LET l == SemWaiters(s)
        w == WaitHead(k, l)
    IN IF w # NoTask
       THEN [status |-> "OK", woken |-> w, count |-> semCount[s] + 1,
             k |-> WaitMakeReady(WaitPop(k, l), w, "OK")]
       ELSE [status |-> "OK", woken |-> NoTask, count |-> semCount[s] + 1, k |-> k]

\* Mutant: a give is counted while a task waits for it.
GiveOutcomeCountsOnly(k, s) ==
    IF semCount[s] >= MaximumCount[s]
    THEN [status |-> "LIMIT_REACHED", woken |-> NoTask, count |-> semCount[s], k |-> k]
    ELSE [status |-> "OK", woken |-> NoTask, count |-> semCount[s] + 1, k |-> k]

\* os_SemGiveFromIsrContext, the part both callers share: the status, the task
\* woken, the kernel and the count.
GiveOutcome(k, s) ==
    LET l == SemWaiters(s)
        w == WaitHead(k, l)
    IN IF w # NoTask
       THEN [status |-> "OK", woken |-> w, count |-> semCount[s],
             k |-> WaitMakeReady(WaitPop(k, l), w, "OK")]
       ELSE IF semCount[s] >= MaximumCount[s]
       THEN [status |-> "LIMIT_REACHED", woken |-> NoTask, count |-> semCount[s], k |-> k]
       ELSE [status |-> "OK", woken |-> NoTask, count |-> semCount[s] + 1, k |-> k]

\* os_SemGiveCurrent
SemGive(s) ==
    LET t == kernel.current
        give == GiveOutcome(kernel, s)
        k == SetResult(give.k, t, give.status)
    IN /\ CurrentRuns(kernel)
       /\ semCount' = [semCount EXCEPT ![s] = give.count]
       /\ kernel' = IF give.woken = NoTask THEN k ELSE WaitMaybePreempt(k, give.woken)

\* xSemaphoreGiveFromISR: the switch it asks for is taken by os_ExitCritical.
SemGiveFromISR(s) ==
    LET give == GiveOutcome(EnterCritical(kernel), s) IN
    /\ semCount' = [semCount EXCEPT ![s] = give.count]
    /\ kernel' = ExitCritical(IF give.woken = NoTask THEN give.k
                              ELSE WaitMaybePreempt(give.k, give.woken))
===============================================================================
