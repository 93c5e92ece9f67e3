-------------------------------- MODULE OsMutex --------------------------------
(***************************************************************************)
(* os_mutex.c: non-recursive mutexes, ownership handed to the first waiter *)
(* on release, priority inheritance recomputed from the whole wait graph,  *)
(* and the clean-up of a task that ends while it owns mutexes.             *)
(***************************************************************************)
EXTENDS OsSched

\* One mutex of a pass of os_MutexWaitersChanged: its owner is raised to the
\* highest desired priority among its waiters.  `desired' is updated in place.
RaiseOwner(k, m, desired) ==
    LET o == k.owner[m] IN
    IF o = NoTask THEN desired
    ELSE [desired EXCEPT ![o] =
            Max({@} \cup {desired[w] : w \in ToSet(k.waiters[MutexWaiters(m)])})]

\* One pass over the mutex pool, in index order.
InheritPass(k, desired) ==
    LET after[m \in 0 .. MutexCount] ==
            IF m = 0 THEN desired ELSE RaiseOwner(k, m - 1, after[m - 1])
    IN after[MutexCount]

\* Mutant: priorities are passed on by one owner only.
DesiredPriorityOnePass(k) == InheritPass(k, BasePriority)

\* OS_MAX_TASKS passes; the loop's early exit only skips passes that change nothing.
DesiredPriority(k) ==
    LET after[n \in 0 .. MaxTasks] ==
            IF n = 0 THEN BasePriority ELSE InheritPass(k, after[n - 1])
    IN after[MaxTasks]

\* os_MutexWaitersChanged: the priorities are computed first and applied in
\* task order afterwards.
MutexWaitersChanged(k) ==
    LET desired == DesiredPriority(k)
        after[n \in 0 .. TaskCount] ==
            IF n = 0 THEN k
            ELSE TaskSetEffectivePriority(after[n - 1], n - 1, desired[n - 1])
    IN after[TaskCount]

\* An iteration of os_MutexReleaseTask: a mutex of t goes to its first waiter.
HandOver(k, m, t) ==
    LET l == MutexWaiters(m)
        w == WaitHead(k, l)
        given == [WaitPop(k, l) EXCEPT !.owner[m] = w]
    IN IF k.owner[m] # t THEN k
       ELSE IF w = NoTask THEN given
       ELSE WaitMakeReady(given, w, "OK")

MutexReleaseTask(k, t) ==
    LET after[m \in 0 .. MutexCount] ==
            IF m = 0 THEN k ELSE HandOver(after[m - 1], m - 1, t)
    IN IF \E m \in Mutexes : k.owner[m] = t
       THEN MutexWaitersChanged(after[MutexCount])
       ELSE k
-------------------------------------------------------------------------------
\* Mutant: a boosted owner waits for the next tick to run.
MutexLockNoSwitch(m, timeout) ==
    LET t == kernel.current
        owner == kernel.owner[m]
    IN /\ CurrentRuns(kernel)
       /\ IF owner = NoTask
          THEN kernel' = SetResult([kernel EXCEPT !.owner[m] = t], t, "OK")
          ELSE /\ owner # t /\ timeout # 0
               /\ kernel' = MutexWaitersChanged(WaitBlockCurrent(kernel, MutexWaiters(m), timeout))

\* os_MutexLockCurrent
MutexLock(m, timeout) ==
    LET t == kernel.current
        owner == kernel.owner[m]
    IN /\ CurrentRuns(kernel)
       /\ \/ /\ owner = NoTask
             /\ kernel' = SetResult([kernel EXCEPT !.owner[m] = t], t, "OK")
          \/ /\ owner = t
             /\ kernel' = SetResult(kernel, t, "BAD_STATE")
          \/ /\ owner \notin {NoTask, t}
             /\ timeout = 0
             /\ kernel' = SetResult(kernel, t, "TIMEOUT")
          \/ /\ owner \notin {NoTask, t}
             /\ timeout # 0
             /\ LET k == MutexWaitersChanged(
                             WaitBlockCurrent(kernel, MutexWaiters(m), timeout))
                IN kernel' = IF /\ k.current # NoTask
                                /\ k.effective[owner] > k.effective[k.current]
                             THEN SchedSchedule(k, FALSE)
                             ELSE k

\* os_MutexUnlockCurrent
MutexUnlock(m) ==
    LET t == kernel.current
        l == MutexWaiters(m)
        w == WaitHead(kernel, l)
        released == MutexWaitersChanged(
                        SetResult([WaitPop(kernel, l) EXCEPT !.owner[m] = w], t, "OK"))
    IN /\ CurrentRuns(kernel)
       /\ \/ /\ kernel.owner[m] # t
             /\ kernel' = SetResult(kernel, t, "NOT_OWNER")
          \/ /\ kernel.owner[m] = t
             /\ w = NoTask
             /\ kernel' = released
          \/ /\ kernel.owner[m] = t
             /\ w # NoTask
             /\ kernel' = WaitMaybePreempt(WaitMakeReady(released, w, "OK"), w)

\* Mutant: a task ends without giving up its mutexes.
TaskExitKeepsMutexes(t) ==
    /\ t = kernel.current /\ CurrentRuns(kernel)
    /\ kernel' = SchedCurrentBlocked([kernel EXCEPT !.state[t] = "TERMINATED"])

\* os_SchedTerminateCurrent: the task's entry function has returned.
TaskExit(t) ==
    /\ t = kernel.current /\ CurrentRuns(kernel)
    /\ kernel' = SchedCurrentBlocked(
                     [MutexReleaseTask(kernel, t) EXCEPT !.state[t] = "TERMINATED"])
===============================================================================
