------------------------------- MODULE MiniRtos -------------------------------
(***************************************************************************)
(* The kernel as the application sees it: a fixed set of tasks, each       *)
(* calling any API in any order while it is RUNNING, a timer that ticks at *)
(* any moment between two handlers, and interrupt handlers that give       *)
(* semaphores.  Ports serialise the handlers (the Win32 port runs them in  *)
(* its control thread, the Cortex-M port masks interrupts), so a handler   *)
(* is one step.                                                            *)
(***************************************************************************)
EXTENDS OsSem, OsQueue

CONSTANTS Delays,      \* arguments of vTaskDelay
          Timeouts     \* xTicksToWait arguments

ASSUME MiniRtosAssumption == Delays \subseteq Ticks /\ Timeouts \subseteq Ticks

vars == <<kernel, semCount, ring, buffer>>
queueVars == <<ring, buffer>>

\* os_Init, and what os_TaskCreateInternal writes into each TCB.
ResetKernel ==
    [started |-> FALSE,
     state |-> [t \in Tasks |-> "READY"],
     effective |-> BasePriority,
     ready |-> [p \in Priorities |-> <<>>],
     bitmap |-> {},
     current |-> NoTask,
     slice |-> 0,
     tick |-> 0,
     delayed |-> <<>>,
     overflow |-> <<>>,
     wake |-> [t \in Tasks |-> 0],
     waitOn |-> [t \in Tasks |-> NoWait],
     waiters |-> [l \in WaitLists |-> <<>>],
     result |-> [t \in Tasks |-> "BAD_STATE"],
     owner |-> [m \in Mutexes |-> NoTask],
     nesting |-> 0,
     pending |-> FALSE]

\* Each task was queued on its priority's list when it was created.
CreatedKernel ==
    LET after[n \in 0 .. TaskCount] ==
            IF n = 0 THEN ResetKernel ELSE ReadyEnqueue(after[n - 1], n - 1)
    IN after[TaskCount]

Init ==
    /\ kernel = CreatedKernel
    /\ semCount = InitialCount
    /\ ring = [q \in Queues |-> EmptyRing(q)]
    /\ buffer = [t \in Tasks |-> NoMessage]

\* What an application task may do next; the Idle task only yields.
Scheduling(t) ==
    /\ \/ TaskYield(t)
       \/ ~IsIdle(t) /\ TaskExit(t)
       \/ ~IsIdle(t) /\ \E ticks \in Delays : TaskDelay(t, ticks)
    /\ UNCHANGED <<semCount, ring, buffer>>

MutexCall ==
    /\ \E m \in Mutexes : MutexUnlock(m) \/ \E ticks \in Timeouts : MutexLock(m, ticks)
    /\ UNCHANGED <<semCount, ring, buffer>>

SemCall ==
    /\ \E s \in Semaphores : SemGive(s) \/ \E ticks \in Timeouts : SemTake(s, ticks)
    /\ UNCHANGED queueVars

QueueCall ==
    /\ \E q \in Queues, ticks \in Timeouts :
          \/ QueueReceive(q, ticks)
          \/ \E message \in Messages : QueueSend(q, message, ticks)
    /\ UNCHANGED semCount

UserCall(t) ==
    /\ t = kernel.current /\ ~IsIdle(t)
    /\ MutexCall \/ SemCall \/ QueueCall

Timer == Tick /\ UNCHANGED <<semCount, ring, buffer>>
Interrupt == (\E s \in Semaphores : SemGiveFromISR(s)) /\ UNCHANGED queueVars
Start == SchedStart /\ UNCHANGED <<semCount, ring, buffer>>

Next ==
    \/ Start
    \/ Timer
    \/ Interrupt
    \/ \E t \in Tasks : Scheduling(t) \/ UserCall(t)

Spec == Init /\ [][Next]_vars

\* The timer never stops; nothing obliges a task to make another call.  Timer
\* is enabled for ever once Start was taken, so this is weak fairness of both.
FairSpec == Spec /\ []<><<kernel'.tick # kernel.tick>>_vars
-------------------------------------------------------------------------------
\* Every variable has its type: a ring's indices stay inside its storage, and a
\* semaphore never counts more than its maximum.
TypeOK ==
    /\ kernel \in Kernel
    /\ semCount \in [Semaphores -> Nat]
    /\ \A s \in Semaphores : semCount[s] <= MaximumCount[s]
    /\ ring \in [Queues -> UNION {Ring(q) : q \in Queues}]
    /\ \A q \in Queues : ring[q] \in Ring(q)
    /\ buffer \in [Tasks -> Messages \cup {NoMessage}]

\* The check the Win32 port makes after every request and tick never fails:
\* os_KernelValidate holds after every handler.
KernelValid == KernelValidate(kernel)

\* What os_KernelValidate samples, in full: the ready queues, the wait lists
\* and the delay lists hold exactly the tasks their states call for, once each.
IsSet(list) == IsInjective(list)

ReadyQueuesValid ==
    /\ \A p \in Priorities :
          /\ IsSet(kernel.ready[p])
          /\ ToSet(kernel.ready[p]) =
                {t \in Tasks : kernel.state[t] = "READY" /\ kernel.effective[t] = p}
    /\ kernel.bitmap = {p \in Priorities : kernel.ready[p] # <<>>}

WaitListsValid ==
    \A l \in WaitLists :
        /\ IsSet(kernel.waiters[l])
        /\ ToSet(kernel.waiters[l]) =
              {t \in Tasks : kernel.state[t] = "BLOCKED_OBJECT" /\ kernel.waitOn[t] = l}

DelayListsValid ==
    /\ IsSet(kernel.delayed \o kernel.overflow)
    /\ \A t \in Tasks :
          /\ DelayLinked(kernel, t) => kernel.state[t] \in {"BLOCKED_DELAY", "BLOCKED_OBJECT"}
          /\ kernel.state[t] = "BLOCKED_DELAY" => DelayLinked(kernel, t)

CurrentValid ==
    /\ \A t \in Tasks : kernel.state[t] = "RUNNING" <=> kernel.current = t
    /\ \A t \in Tasks : (kernel.state[t] = "BLOCKED_OBJECT") <=> (kernel.waitOn[t] # NoWait)

ContainersExact == ReadyQueuesValid /\ WaitListsValid /\ DelayListsValid /\ CurrentValid

\* No handler leaves a READY task above the running one: every path that makes
\* a task ready, raises it or lowers the current one also reschedules.
HighestPriorityRuns ==
    kernel.started =>
        \A t \in Tasks : kernel.state[t] = "READY" =>
            /\ kernel.current # NoTask
            /\ kernel.effective[t] <= kernel.effective[kernel.current]

\* Wait lists are served by effective priority, whatever inheritance did to
\* the priority of a task after it was queued.
WaitListsOrdered ==
    \A l \in WaitLists :
        LET list == kernel.waiters[l] IN
        \A i, j \in 1 .. Len(list) :
            i < j => kernel.effective[list[i]] >= kernel.effective[list[j]]

\* The tasks that wait, directly or through other owners, for a mutex of t.
WaitsOn(w, t) == \E m \in Mutexes : kernel.waitOn[w] = MutexWaiters(m) /\ kernel.owner[m] = t
HeldUpBy(t) ==
    LET upTo[n \in 0 .. TaskCount] ==
            IF n = 0 THEN {t}
            ELSE LET S == upTo[n - 1]
                 IN S \cup {w \in Tasks : \E u \in S : WaitsOn(w, u)}
    IN upTo[TaskCount]

\* Inheritance is exact: a task runs at the highest base priority among itself
\* and the tasks it holds up.  Neither a release, a timeout nor an exit leaves
\* an owner boosted or a chain without its boost.
InheritanceExact ==
    \A t \in Tasks : kernel.effective[t] = Max({BasePriority[w] : w \in HeldUpBy(t)})

\* A resource that could be used has nobody waiting for it: no wake-up is lost.
NoLostWakeup ==
    /\ \A s \in Semaphores : semCount[s] > 0 => kernel.waiters[SemWaiters(s)] = <<>>
    /\ \A q \in Queues :
          /\ ring[q].count > 0 => kernel.waiters[ReceiveWaiters(q)] = <<>>
          /\ ring[q].count < Capacity[q] => kernel.waiters[SendWaiters(q)] = <<>>
    /\ \A m \in Mutexes :
          kernel.owner[m] = NoTask => kernel.waiters[MutexWaiters(m)] = <<>>

\* A mutex is owned by a task that can still release it and is not itself on
\* the mutex's wait list.
OwnersCanRelease ==
    \A m \in Mutexes : LET o == kernel.owner[m] IN
        o # NoTask => /\ kernel.state[o] # "TERMINATED"
                      /\ kernel.waitOn[o] # MutexWaiters(m)

\* Every deadline lies ahead, in the list of its period, in order: nothing is
\* due and still asleep after a tick, and the exchange at the wrap of the
\* counter finds the list of the old period empty.
Sorted(list) ==
    \A i, j \in 1 .. Len(list) : i < j => kernel.wake[list[i]] <= kernel.wake[list[j]]

DeadlinesAhead ==
    /\ Sorted(kernel.delayed) /\ Sorted(kernel.overflow)
    /\ \A t \in ToSet(kernel.delayed) : kernel.wake[t] > kernel.tick
    /\ \A t \in ToSet(kernel.overflow) : kernel.wake[t] < kernel.tick
    /\ \A t \in ToSet(kernel.delayed) \cup ToSet(kernel.overflow) :
          (kernel.wake[t] - kernel.tick) % TickModulus <= MaxDelay

-------------------------------------------------------------------------------
\* The tasks whose delay or wait ends in a step.
Ends(t, state) == kernel.state[t] = state /\ kernel'.state[t] # state

\* A delay ends, and a wait times out, in the tick that reaches the deadline
\* and in no other; a wait without a deadline never times out.
EndsOnTime ==
    \A t \in Tasks :
        Ends(t, "BLOCKED_DELAY") \/ (Ends(t, "BLOCKED_OBJECT") /\ kernel'.result[t] = "TIMEOUT")
        => /\ DelayLinked(kernel, t)
           /\ kernel'.tick = kernel.wake[t] /\ kernel'.tick # kernel.tick
WakesExactlyOnTime == [][EndsOnTime]_vars

\* A wait that ends with OK ends with the object in hand: the mutex is the
\* waiter's, the permit was not also counted, and a wait that timed out took
\* nothing.
Obtained(t) == Ends(t, "BLOCKED_OBJECT") /\ kernel'.result[t] = "OK"
HandedOver ==
    /\ \A t \in Tasks : Ends(t, "BLOCKED_OBJECT") => kernel'.result[t] \in {"OK", "TIMEOUT"}
    /\ \A m \in Mutexes : kernel.owner[m] # NoTask /\ kernel'.owner[m] \notin {NoTask, kernel.owner[m]}
          => Obtained(kernel'.owner[m]) /\ kernel.waitOn[kernel'.owner[m]] = MutexWaiters(m)
    /\ \A t \in Tasks, m \in Mutexes :
          Obtained(t) /\ kernel.waitOn[t] = MutexWaiters(m) => kernel'.owner[m] = t
    /\ \A t \in Tasks, s \in Semaphores :
          Obtained(t) /\ kernel.waitOn[t] = SemWaiters(s) => semCount'[s] = 0
DirectHandoff == [][HandedOver]_vars
-------------------------------------------------------------------------------
\* A finite wait or delay ends, whatever the other tasks do.
FiniteWaitsEnd ==
    \A t \in Tasks : DelayLinked(kernel, t) ~> ~DelayLinked(kernel, t)

\* Round robin: a task is not READY for ever while tasks of its priority run.
\* Time slices, not the tasks' good will, take the processor from each.
EqualsShareProcessor ==
    \A t \in Tasks :
        []<>(\/ ~kernel.started
             \/ kernel.state[t] # "READY"
             \/ kernel.effective[kernel.current] > kernel.effective[t])
-------------------------------------------------------------------------------
\* docs/design.md:402: tasks of equal priority rotate only when the slice ends,
\* on a yield or when the current task blocks.  A task preempted inside its slice
\* would stay first among its equals.
PreemptedInSlice(t) ==
    /\ kernel.current = t /\ kernel.slice > 1
    /\ kernel'.state[t] = "READY"
    /\ kernel'.effective[kernel'.current] > kernel'.effective[t]
PreemptionKeepsTurn ==
    [][\A t \in Tasks : PreemptedInSlice(t) => Head(kernel'.ready[kernel'.effective[t]]) = t]_vars
===============================================================================
