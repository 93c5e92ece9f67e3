-------------------------------- MODULE OsTime --------------------------------
(***************************************************************************)
(* os_time.c: the tick, delays and the expiry of waits.  The tick counter  *)
(* wraps; two lists, exchanged when it does, keep the wake-up times of the *)
(* current period apart from those of the next.                            *)
(***************************************************************************)
EXTENDS OsMutex

\* Mutant: due one tick early.
TickReachedEarly(now, target) == (now + 1 - target) % TickModulus <= MaxDelay

\* The sign of the w-bit difference.
TickReached(now, target) == (now - target) % TickModulus <= MaxDelay

\* Mutant: the lists are not exchanged at the wrap.
AdvanceTickNoSwap(k) == [k EXCEPT !.tick = (@ + 1) % TickModulus]

\* The tick counter after os_TimeTick's increment, with the exchange of the
\* delay lists when it wraps to 0.
AdvanceTick(k) ==
    LET now == (k.tick + 1) % TickModulus IN
    IF now = 0 THEN [k EXCEPT !.tick = 0, !.delayed = k.overflow, !.overflow = k.delayed]
               ELSE [k EXCEPT !.tick = now]

HeadIsDue(k) == k.delayed # <<>> /\ TickReached(k.tick, k.wake[Head(k.delayed)])

\* os_ListPopFront on the list of the current period.
PopDelayed(k) == [k EXCEPT !.delayed = Tail(@), !.wake[Head(k.delayed)] = 0]

\* The body of os_TimeTick's loop for the task it has popped: a delay ends, or a
\* wait times out and a mutex owner may lose an inherited priority.
Wake(k, t) ==
    LET l == k.waitOn[t]
        timedOut == WaitMakeReady(WaitRemove(k, l, t), t, "TIMEOUT")
    IN CASE k.state[t] = "BLOCKED_DELAY" ->
                ReadyEnqueue([k EXCEPT !.state[t] = "READY"], t)
         [] k.state[t] = "BLOCKED_OBJECT" ->
                IF l \in {MutexWaiters(m) : m \in Mutexes}
                THEN MutexWaitersChanged(timedOut) ELSE timedOut
         [] OTHER -> k

\* An iteration: the head of the list is popped and woken.
WakeHead(k) == Wake(PopDelayed(k), Head(k.delayed))

\* Whether the task just woken asks for a switch (woke_higher_priority).
OutranksCurrent(k, t) ==
    k.current = NoTask \/ k.effective[t] > k.effective[k.current]

\* Mutant: the flag is that of the last task woken.
WakeDueLastFlag(k) ==
    LET after[n \in 0 .. TaskCount] ==
            IF n = 0 THEN [k |-> k, wokeHigher |-> FALSE]
            ELSE LET before == after[n - 1]
                     t == Head(before.k.delayed)
                     woken == WakeHead(before.k)
                 IN IF HeadIsDue(before.k)
                    THEN [k |-> woken, wokeHigher |-> OutranksCurrent(woken, t)]
                    ELSE before
    IN after[TaskCount]

\* The loop, with its flag.  Each iteration takes one task off the list, so
\* TaskCount of them empty it.
WakeDue(k) ==
    LET after[n \in 0 .. TaskCount] ==
            IF n = 0 THEN [k |-> k, wokeHigher |-> FALSE]
            ELSE LET before == after[n - 1]
                     t == Head(before.k.delayed)
                     woken == WakeHead(before.k)
                 IN IF HeadIsDue(before.k)
                    THEN [k |-> woken,
                          wokeHigher |-> before.wokeHigher \/ OutranksCurrent(woken, t)]
                    ELSE before
    IN after[TaskCount]

UseSlice(k) ==
    IF k.current # NoTask /\ k.slice > 0 THEN [k EXCEPT !.slice = @ - 1] ELSE k

\* Mutant: the end of a slice only looks for a higher priority.
TickSwitchNoRotation(k, wokeHigher) ==
    IF k.slice = 0 \/ wokeHigher THEN SchedSchedule(k, FALSE) ELSE k

\* os_TimeTick's decision: a wake-up first, then the end of the slice; a task
\* that keeps the processor at the end of its slice gets a new one.
TickSwitch(k, wokeHigher) ==
    LET rotated == SchedSchedule(k, TRUE) IN
    IF (k.current = NoTask /\ k.bitmap # {}) \/ wokeHigher THEN SchedSchedule(k, FALSE)
    ELSE IF k.current = NoTask \/ k.slice > 0 THEN k
    ELSE IF rotated.current = k.current THEN [rotated EXCEPT !.slice = TimeSlice]
    ELSE rotated

TimeTick(k) ==
    LET woken == WakeDue(AdvanceTick(k))
    IN TickSwitch(UseSlice(woken.k), woken.wokeHigher)
-------------------------------------------------------------------------------
\* A tick of the port's timer, delivered while no handler runs.
Tick ==
    /\ kernel.started
    /\ kernel' = TimeTick(kernel)

\* os_TimeDelayCurrent; a delay of 0 is a yield (vTaskDelay), and the result
\* of an earlier call stays in the TCB.
TaskDelay(t, ticks) ==
    /\ t = kernel.current /\ CurrentRuns(kernel)
    /\ \/ /\ ticks = 0
          /\ TaskYield(t)
       \/ /\ ticks > 0
          /\ kernel' = SchedCurrentBlocked(
                 TimeDelayListInsert([kernel EXCEPT !.state[t] = "BLOCKED_DELAY"], t,
                                     (kernel.tick + Clamp(ticks)) % TickModulus))
===============================================================================
