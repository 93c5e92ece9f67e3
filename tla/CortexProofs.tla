----------------------------- MODULE CortexProofs -----------------------------
(***************************************************************************)
(* Proofs about CortexContext: whose context is where, whatever order the  *)
(* exceptions of the processor come in and however often the kernel's      *)
(* current task changes before PendSV exchanges the stacks; and what a call*)
(* that has waited returns.                                                *)
(***************************************************************************)
EXTENDS CortexContext, CallProofs

(* The steps of the kernel that only this port takes *)

\* A yield and its status, which os_port_task_request writes for the caller.
LEMMA YieldStep ==
    ASSUME SafeInv, PriorityInv(kernel), CurrentRuns(kernel), UNCHANGED objects,
           kernel' = SetResult(SchedYieldCurrent(kernel), kernel.current, "OK")
    PROVE  /\ SafeInv' /\ PriorityInv(kernel') /\ Carries(kernel, kernel')
           /\ Spares(kernel, kernel', kernel.current)
<1> DEFINE t == kernel.current
           j == SchedYieldCurrent(kernel)
           r == SetResult(j, t, "OK")
<1>1. /\ KernelInv(kernel) /\ Supplies /\ TypeInv /\ Sound(kernel)
      /\ Consistent(kernel, {}) /\ kernel \in GoodKernel
  BY DEF SafeInv, KernelInv, Sound, Consistent
<1>2. kernel.started /\ t \in Tasks /\ kernel.state[t] = "RUNNING" /\ "OK" \in Statuses
  BY <1>1, Caller
<1>3. /\ Sound(j) /\ OnlySchedules(kernel, j) /\ j.effective = kernel.effective
      /\ Spares(kernel, j, t)
  BY <1>1, SchedYieldCurrentSound, CallerSpares
<1>4. Highest(j)
  BY <1>1, DecisionsRun
<1>5. j.nesting = kernel.nesting
  BY <1>1, SchedulingKeepsNesting
<1>6. kernel' = r
  OBVIOUS
<1> HIDE DEF j
<1>7. PriorityInv(j)
  BY <1>3, <1>4, <1>5, SameWaitsKeep, SchedulingKeepsApart DEF PriorityInv
<1>8. Sound(r) /\ PriorityInv(r)
  BY <1>2, <1>3, <1>7, StatusPriorities, SetResultSound DEF Sound
<1>9. j.started
  BY <1>2, <1>3 DEF OnlySchedules
<1>10. Handled(kernel, j, {}, {})
  BY <1>1, <1>3, <1>9, SchedulingHandled
<1>11. Handled(kernel, r, {}, {})
  BY <1>2, <1>10, HandledThenStatus
<1>12. r.started
  BY <1>2, <1>9, <1>10, HandledThenStatus
<1> HIDE DEF r
<1>13. Handled(kernel, kernel', {}, {})
  BY <1>6, <1>11
<1>14. UNCHANGED <<semCount, ring, buffer>>
  BY DEF objects
<1>15. Stepped({}, {})
  BY <1>1, <1>13, <1>14, KernelOnlyStep
<1>16. TypeInv'
  <2>1. r \in GoodKernel
    BY <1>8 DEF Sound, Consistent
  <2>2. QED
    BY <1>1, <1>6, <1>14, <2>1 DEF TypeInv, SemType, QueueType
<1>17. SafeInv'
  BY <1>15, <1>16 DEF SafeInv, Stepped
<1>18. PriorityInv(kernel') /\ KernelInv(kernel') /\ kernel'.started /\ kernel' \in GoodKernel
  BY <1>6, <1>8, <1>12, <1>15, <1>16 DEF Stepped, TypeInv
<1>19. kernel'.current \in Tasks /\ kernel'.state[kernel'.current] = "RUNNING"
  BY <1>18, SomebodyRuns
<1>20. kernel'.result \in [Tasks -> Statuses]
  BY <1>18, FieldTypes
<1>21. \A u \in Tasks : kernel.state[u] = "TERMINATED" => kernel'.state[u] = "TERMINATED"
  <2>1. Fates(kernel, kernel', {}, {})
    BY <1>13 DEF Handled
  <2>2. QED
    BY <2>1, EndIsFinal
<1>22. Spares(j, r, t)
  BY <1>2, <1>3, CallerSpares DEF r
<1>23. Spares(kernel, kernel', t)
  BY <1>3, <1>6, <1>22, SparesFollow
<1>24. QED
  BY <1>17, <1>18, <1>19, <1>20, <1>21, <1>23 DEF Carries

\* os_SchedSchedule keeps a running task that nobody outranks.
LEMMA HighestStays ==
    ASSUME NEW k, Sound(k), k.started, Highest(k), k.current # NoTask
    PROVE  SchedSchedule(k, FALSE) = k
<1>1. Consistent(k, {}) /\ k \in GoodKernel /\ k.state[k.current] = "RUNNING"
  BY DEF Sound, Consistent
<1>2. /\ k.current \in Tasks /\ k.effective \in [Tasks -> Priorities]
      /\ k.ready \in [Priorities -> Seq(Tasks)] /\ k.bitmap \subseteq Priorities
  BY <1>1, FieldTypes
<1>3. k.effective[k.current] \in Int /\ k.effective[k.current] >= 0
  BY <1>2, OsKernelAssumption DEF Priorities
<1>4. ASSUME NEW p \in k.bitmap PROVE p <= k.effective[k.current]
  <2>1. p \in Priorities /\ k.ready[p] # <<>> /\ k.ready[p] \in Seq(Tasks)
    BY <1>1, <1>2, <1>4 DEF GoodKernel
  <2> DEFINE Q == {u \in Tasks \ {} : k.state[u] = "READY" /\ k.effective[u] = p}
             h == Head(k.ready[p])
  <2>2. Exact(k.ready[p], Q)
    BY <1>1, <2>1 DEF Consistent, ReadyExact
  <2> HIDE DEF Q
  <2>3. 1 \in 1 .. Len(k.ready[p]) /\ h = k.ready[p][1] /\ h \in Tasks
    BY <2>1
  <2>4. h \in Q
    BY <2>2, <2>3 DEF Exact
  <2>5. k.state[h] = "READY" /\ k.effective[h] = p
    BY <2>4 DEF Q
  <2>6. QED
    BY <2>3, <2>5 DEF Highest
<1>5. ReadyHighestPriority(k) \in k.bitmap \cup {-1}
  <2> DEFINE B == k.bitmap \cup {-1}
  <2>1. \E x \in B : \A z \in B : x >= z
    <3>1. CASE k.bitmap = {}
      BY <3>1
    <3>2. CASE k.bitmap # {}
      <4>1. k.bitmap \subseteq 0 .. PriorityCount - 1 /\ PriorityCount - 1 \in Nat
        BY <1>2, OsKernelAssumption DEF Priorities
      <4>2. Max(k.bitmap) \in k.bitmap /\ \A z \in k.bitmap : Max(k.bitmap) >= z
        BY <3>2, <4>1, MaximumOfRange
      <4>3. Max(k.bitmap) >= -1
        BY <4>1, <4>2
      <4>4. QED
        BY <4>2, <4>3
    <3>3. QED
      BY <3>1, <3>2
  <2>2. Max(B) \in B
    BY <2>1 DEF Max
  <2>3. QED
    BY <2>2 DEF ReadyHighestPriority
<1>6. ~(ReadyHighestPriority(k) > k.effective[k.current])
  BY <1>2, <1>3, <1>4, <1>5, OsKernelAssumption DEF Priorities
<1>7. QED
  BY <1>1, <1>6 DEF SchedSchedule, CurrentRuns

\* The end of a critical section in which no switch became necessary.
LEMMA ExitStays ==
    ASSUME NEW k, Sound(k), k.started, k.nesting = 1, k.current # NoTask, k.pending => Highest(k)
    PROVE  ExitCritical(k).current = k.current
<1> DEFINE out == [k EXCEPT !.nesting = 0, !.pending = FALSE]
<1>1. Consistent(k, {}) /\ k \in GoodKernel /\ k \in Kernel
  BY DEF Sound, Consistent, GoodKernel
<1>2. CASE k.pending
  <2>1. /\ out \in Kernel /\ out.started = k.started /\ out.bitmap = k.bitmap
        /\ out.state = k.state /\ out.current = k.current /\ out.effective = k.effective
        /\ out.ready = k.ready /\ out.waiters = k.waiters /\ out.delayed = k.delayed
        /\ out.overflow = k.overflow /\ out.waitOn = k.waitOn
    BY <1>1 DEF Kernel
  <2>2. ExitCritical(k) = SchedSchedule(out, FALSE)
    BY <1>2 DEF ExitCritical
  <2> HIDE DEF out
  <2>3. out \in GoodKernel
    BY <1>1, <2>1 DEF GoodKernel
  <2>4. Sound(out)
    BY <1>1, <2>1, <2>3, FreeChange
  <2>5. Highest(out)
    BY <1>2, <2>1 DEF Highest
  <2>6. SchedSchedule(out, FALSE) = out
    BY <2>1, <2>4, <2>5, HighestStays
  <2>7. QED
    BY <2>1, <2>2, <2>6
<1>3. CASE ~k.pending
  <2>1. ExitCritical(k) = [k EXCEPT !.nesting = k.nesting - 1]
    BY <1>1, <1>3 DEF ExitCritical, Kernel
  <2>2. QED
    BY <1>1, <2>1 DEF Kernel
<1>4. QED
  BY <1>2, <1>3

\* A give from an interrupt: the task on the processor changes only when the give
\* asks for it.
LEMMA InterruptStep ==
    ASSUME SafeInv, PriorityInv(kernel), kernel.started, NEW s \in Semaphores,
           SemGiveFromISR(s), UNCHANGED queueVars
    PROVE  /\ SafeInv' /\ PriorityInv(kernel') /\ Carries(kernel, kernel')
           /\ ~GivePreempts(s) => kernel'.current = kernel.current
           /\ \A u \in Tasks : Calm(kernel, kernel', u)
<1> DEFINE l == SemWaiters(s)
           e == EnterCritical(kernel)
           w == WaitHead(e, l)
           r == WaitMakeReady(WaitPop(e, l), w, "OK")
           j == WaitMaybePreempt(r, w)
<1>1. /\ KernelInv(kernel) /\ Sound(kernel) /\ kernel \in Kernel
      /\ Highest(kernel) /\ kernel.nesting = 0
  BY DEF SafeInv, KernelInv, Sound, Consistent, GoodKernel, PriorityInv
<1>2. kernel.current \in Tasks /\ kernel.current # NoTask
  <2>1. kernel.current \in Tasks
    BY <1>1, SomebodyRuns
  <2>2. QED
    BY <2>1 DEF Tasks, NoTask
<1>3. Sound(e) /\ SameTasks(kernel, e) /\ e.effective = kernel.effective
  BY <1>1, CriticalSound
<1>4. e.nesting = 1
  BY <1>1 DEF EnterCritical, Kernel
<1>5. ASSUME w = NoTask PROVE kernel'.current = kernel.current
  <2>1. kernel' = ExitCritical(e)
    BY <1>5 DEF SemGiveFromISR, GiveOutcome
  <2> HIDE DEF e, l
  <2>2. Highest(e) /\ e.started /\ e.current = kernel.current
    BY <1>1, <1>3 DEF SameTasks, Highest
  <2>3. QED
    BY <1>2, <1>3, <1>4, <2>1, <2>2, ExitStays
<1>6. ASSUME w # NoTask, ~GivePreempts(s) PROVE kernel'.current = kernel.current
  <2>1. kernel' = ExitCritical(j) /\ (GivePreempts(s) <=> j.pending)
    BY <1>6 DEF SemGiveFromISR, GiveOutcome, GivePreempts
  <2>2. 0 \in Tasks /\ l \in WaitLists /\ \A m \in Mutexes : l # MutexWaiters(m)
    BY OsKernelAssumption, ListsDiffer DEF Tasks
  <2>3. w \in Tasks /\ Sound(r) /\ Served(e, r, w)
    BY <1>3, <1>6, <2>2, GrantServes
  <2> HIDE DEF r, w, e, l
  <2>4. r.nesting = 1 /\ r.current = kernel.current /\ r.started /\ r \in Kernel
    BY <1>3, <1>4, <2>3 DEF Served, SameTasks, Sound, Consistent, GoodKernel
  <2>5. j = r \/ j = [r EXCEPT !.pending = TRUE]
    BY <2>4 DEF WaitMaybePreempt
  <2> HIDE DEF j
  <2>6. CASE ~j.pending
    <3>1. j = r
      BY <2>4, <2>5, <2>6 DEF Kernel
    <3>2. QED
      BY <1>2, <2>1, <2>3, <2>4, <2>6, <3>1, ExitStays
  <2>7. QED
    BY <1>6, <2>1, <2>6
<1>7. Next
  BY DEF Next, Interrupt
<1>8. kernel'.started
  <2>1. \/ kernel' = ExitCritical(e) /\ Sound(e) /\ e.started
        \/ kernel' = ExitCritical(j) /\ Sound(j) /\ j.started
    <3>1. CASE w = NoTask
      <4>1. kernel' = ExitCritical(e)
        BY <3>1 DEF SemGiveFromISR, GiveOutcome
      <4>2. QED
        BY <1>3, <4>1 DEF SameTasks
    <3>2. CASE w # NoTask
      <4>1. kernel' = ExitCritical(j)
        BY <3>2 DEF SemGiveFromISR, GiveOutcome
      <4>2. 0 \in Tasks /\ l \in WaitLists /\ \A m \in Mutexes : l # MutexWaiters(m)
        BY OsKernelAssumption, ListsDiffer DEF Tasks
      <4>3. Sound(r) /\ Served(e, r, w)
        BY <1>3, <3>2, <4>2, GrantServes
      <4> HIDE DEF r, w, e, l
      <4>4. Sound(j) /\ OnlySchedules(r, j)
        BY <4>3, WaitMaybePreemptSound
      <4>5. r.started
        BY <1>3, <4>3 DEF Served, SameTasks
      <4>6. QED
        BY <4>1, <4>4, <4>5 DEF OnlySchedules
    <3>3. QED
      BY <3>1, <3>2
  <2> HIDE DEF e, j
  <2>2. QED
    BY <2>1, CriticalSound DEF OnlySchedules
<1>9. \A u \in Tasks : Calm(kernel, kernel', u)
  BY <1>1, InterruptCalm
<1>10. QED
  BY <1>5, <1>6, <1>7, <1>8, <1>9, StepCarries

-------------------------------------------------------------------------------
(* The invariant of the contexts *)

\* A context that belongs to t, `over' when t has ended: in the task's own code, or
\* in a call that t made, whose local `current' is t.
ContextFits(c, t, over) ==
    /\ c = InitialContext(t) \/ /\ c.pc \in {"asked", "return"} /\ c.self = t
                                /\ c.call \in MayAsk(t)
    /\ c.pc = "return" /\ c.call = ExitRequest => over

OverOf(k, t) == k.state[t] = "TERMINATED"

ModeInv ==
    /\ mode \in {"reset", "boot", "thread", "systick", "pendsv"}
    /\ pendSV \in BOOLEAN /\ tickPending \in BOOLEAN
    /\ cpu \in Context /\ saved \in [Tasks -> Context]
    /\ mode = "reset" <=> ~kernel.started
    /\ mode \in {"reset", "boot"} =>
          saved = [t \in Tasks |-> InitialContext(t)] /\ cpu.pc = "user"

\* Behind the first task's start every context is its owner's, and the processor
\* is on another stack than the current task's only while PendSV is to come.
RunInv ==
    mode \notin {"reset", "boot"} =>
        /\ pspOwner \in Tasks
        /\ \A t \in Tasks : LET c == ContextOf(t) IN
              c.stack = t /\ ContextFits(c, t, OverOf(kernel, t))
        /\ mode # "pendsv" /\ ~pendSV => kernel.current = pspOwner
        /\ mode = "systick" => previous = pspOwner

ContextInv == ModeInv /\ RunInv
KernelOk == SafeInv /\ PriorityInv(kernel)

\* The frame of a new task is a context of its own.
LEMMA InitialFits ==
    ASSUME NEW t \in Tasks, NEW over
    PROVE  /\ InitialContext(t) \in Context /\ InitialContext(t).stack = t
           /\ InitialContext(t).pc = "user"
           /\ InitialContext(t).self = NoTask
           /\ ContextFits(InitialContext(t), t, over)
  BY DEF InitialContext, Context, ContextFits

\* A step of the kernel leaves the contexts of its tasks fitting: nobody who had
\* ended is back.
LEMMA StillFits ==
    ASSUME NEW k, NEW r, Carries(k, r), NEW t \in Tasks, NEW c, ContextFits(c, t, OverOf(k, t))
    PROVE  ContextFits(c, t, OverOf(r, t))
  BY DEF Carries, ContextFits, OverOf

\* What holds in the middle of thread code: the context is that of the current task.
LEMMA AtThread ==
    ASSUME KernelOk, ContextInv, Executing
    PROVE  /\ kernel.started /\ CurrentRuns(kernel)
           /\ kernel.current = pspOwner /\ pspOwner \in Tasks
           /\ kernel.state[pspOwner] = "RUNNING"
           /\ cpu.stack = pspOwner /\ cpu = ContextOf(pspOwner)
           /\ ContextFits(cpu, pspOwner, OverOf(kernel, pspOwner))
<1>1. mode = "thread" /\ ~pendSV
  BY DEF Executing
<1>2. pspOwner \in Tasks /\ kernel.current = pspOwner /\ kernel.started
  BY <1>1 DEF ContextInv, ModeInv, RunInv
<1>3. cpu = ContextOf(pspOwner)
  BY DEF ContextOf
<1>4. cpu.stack = pspOwner /\ ContextFits(cpu, pspOwner, OverOf(kernel, pspOwner))
  BY <1>1, <1>2, <1>3 DEF ContextInv, RunInv
<1>5. kernel.state[pspOwner] = "RUNNING"
  BY <1>2, SomebodyRuns DEF KernelOk, SafeInv
<1>6. pspOwner # NoTask
  BY <1>2 DEF Tasks, NoTask
<1>7. QED
  BY <1>2, <1>3, <1>4, <1>5, <1>6 DEF CurrentRuns


\* A step that may change the kernel, and of the contexts none but the processor's,
\* which stays with its owner.
LEMMA ContextStep ==
    ASSUME ContextInv, mode \notin {"reset", "boot"}, mode' \in {"thread", "systick", "pendsv"},
           Carries(kernel, kernel') \/ UNCHANGED kernel, UNCHANGED <<saved, pspOwner>>,
           pendSV' \in BOOLEAN, tickPending' \in BOOLEAN,
           cpu' \in Context, cpu'.stack = pspOwner,
           ContextFits(cpu', pspOwner, OverOf(kernel', pspOwner)),
           mode' # "pendsv" /\ ~pendSV' => kernel'.current = pspOwner,
           mode' = "systick" => previous' = pspOwner
    PROVE  ContextInv'
<1>1. kernel.started /\ pspOwner \in Tasks /\ saved \in [Tasks -> Context]
  BY DEF ContextInv, ModeInv, RunInv
<1>2. kernel'.started
  BY <1>1 DEF Carries
<1>3. ModeInv'
  BY <1>1, <1>2 DEF ContextInv, ModeInv
<1>4. ASSUME NEW t \in Tasks
      PROVE  ContextOf(t)'.stack = t /\ ContextFits(ContextOf(t)', t, OverOf(kernel', t))
  <2>1. CASE t = pspOwner
    <3>1. ContextOf(t)' = cpu'
      BY <2>1 DEF ContextOf
    <3>2. QED
      BY <2>1, <3>1
  <2>2. CASE t # pspOwner
    <3>1. ContextOf(t)' = saved[t] /\ ContextOf(t) = saved[t]
      BY <2>2 DEF ContextOf
    <3>2. saved[t].stack = t /\ ContextFits(saved[t], t, OverOf(kernel, t))
      BY <3>1 DEF ContextInv, RunInv
    <3>3. ContextFits(saved[t], t, OverOf(kernel', t))
      BY <3>2, StillFits
    <3>4. QED
      BY <3>1, <3>2, <3>3
  <2>3. QED
    BY <2>1, <2>2
<1>5. RunInv'
  BY <1>1, <1>4 DEF RunInv
<1>6. QED
  BY <1>3, <1>5 DEF ContextInv

\* A step in which no task's code moves.
LEMMA QuietStep ==
    ASSUME ContextInv, mode \notin {"reset", "boot"}, mode' \in {"thread", "systick", "pendsv"},
           Carries(kernel, kernel') \/ UNCHANGED kernel, UNCHANGED <<cpu, saved, pspOwner>>,
           pendSV' \in BOOLEAN, tickPending' \in BOOLEAN,
           mode' # "pendsv" /\ ~pendSV' => kernel'.current = pspOwner,
           mode' = "systick" => previous' = pspOwner
    PROVE  ContextInv'
<1>1. /\ pspOwner \in Tasks /\ cpu = ContextOf(pspOwner) /\ cpu \in Context
      /\ cpu.stack = pspOwner /\ ContextFits(cpu, pspOwner, OverOf(kernel, pspOwner))
  BY DEF ContextInv, ModeInv, RunInv, ContextOf
<1>2. ContextFits(cpu, pspOwner, OverOf(kernel', pspOwner))
  BY <1>1, StillFits
<1>3. QED
  BY <1>1, <1>2, ContextStep

\* os_Start up to the SVC instruction.
LEMMA SchedulerStartKeeps ==
    ASSUME KernelOk, ContextInv, StartScheduler
    PROVE  KernelOk' /\ ContextInv'
<1>1. SchedStart /\ UNCHANGED objects /\ mode = "reset" /\ mode' = "boot"
  BY DEF StartScheduler, Goes
<1>2. SafeInv' /\ PriorityInv(kernel') /\ Carries(kernel, kernel')
  BY <1>1, StartStep DEF KernelOk
<1>3. kernel'.started
  BY <1>2 DEF Carries
<1>4. ModeInv' /\ RunInv'
  BY <1>1, <1>3 DEF StartScheduler, ContextInv, ModeInv, RunInv
<1>5. QED
  BY <1>2, <1>4 DEF KernelOk, ContextInv

\* The SVC handler starts the current task on its own stack, also when an interrupt
\* has changed which task that is.
LEMMA FirstTaskKeeps ==
    ASSUME KernelOk, ContextInv, StartFirstTask
    PROVE  KernelOk' /\ ContextInv'
<1>1. /\ mode = "boot" /\ mode' = "thread" /\ cpu' = saved[kernel.current]
      /\ pspOwner' = kernel.current
      /\ UNCHANGED <<kernel, semCount, ring, buffer, saved, pendSV, tickPending, previous>>
  BY DEF StartFirstTask, Goes, objects
<1>2. KernelOk'
  BY <1>1 DEF KernelOk, SafeInv, TypeInv, SemType, QueueType, Supplies, NobodyWaits
<1>3. kernel.started /\ saved = [t \in Tasks |-> InitialContext(t)]
  BY <1>1 DEF ContextInv, ModeInv
<1>4. kernel.current \in Tasks
  BY <1>3, SomebodyRuns DEF KernelOk, SafeInv
<1>5. cpu' = InitialContext(kernel.current) /\ cpu' \in Context
  BY <1>1, <1>3, <1>4, InitialFits
<1>6. ModeInv'
  BY <1>1, <1>3, <1>5 DEF ContextInv, ModeInv
<1>7. ASSUME NEW t \in Tasks
      PROVE  ContextOf(t)'.stack = t /\ ContextFits(ContextOf(t)', t, OverOf(kernel', t))
  <2>1. ContextOf(t)' = InitialContext(t)
    BY <1>1, <1>3, <1>5 DEF ContextOf
  <2>2. QED
    BY <2>1, InitialFits
<1>8. RunInv'
  BY <1>1, <1>4, <1>7 DEF RunInv
<1>9. QED
  BY <1>2, <1>6, <1>8 DEF ContextInv

\* What a step leaves that does not touch the kernel and its objects.
LEMMA SameKernel ==
    ASSUME KernelOk, UNCHANGED <<kernel, objects>>
    PROVE  KernelOk'
<1>1. UNCHANGED <<kernel, semCount, ring, buffer>>
  BY DEF objects
<1>2. QED
  BY <1>1 DEF KernelOk, SafeInv, TypeInv, SemType, QueueType, Supplies, NobodyWaits

\* A task asks for a service: what it reads of `current' is itself.
LEMMA AskKeeps ==
    ASSUME KernelOk, ContextInv, Ask
    PROVE  KernelOk' /\ ContextInv'
<1>1. Executing /\ cpu.pc = "user" /\ OnlyCpu
  BY DEF Ask
<1>2. /\ UNCHANGED <<kernel, objects, mode, saved, pspOwner, pendSV, tickPending, previous>>
      /\ mode = "thread" /\ ~pendSV /\ pendSV \in BOOLEAN /\ tickPending \in BOOLEAN
      /\ cpu \in Context
  BY <1>1 DEF OnlyCpu, Executing, ContextInv, ModeInv
<1>3. /\ CurrentRuns(kernel) /\ kernel.current = pspOwner /\ pspOwner \in Tasks
      /\ cpu.stack = pspOwner
  BY <1>1, AtThread
<1>4. PICK request \in CallsOf(cpu.stack) :
          cpu' = [cpu EXCEPT !.pc = "asked", !.call = request, !.self = pspOwner]
  BY <1>3 DEF Ask
<1>5. request \in MayAsk(pspOwner) /\ request \in Requests \cup {ExitRequest}
  BY <1>3, <1>4, MayAskParts DEF CallsOf, MayAsk
<1>6. /\ cpu' \in Context /\ cpu'.stack = pspOwner /\ cpu'.pc = "asked"
      /\ cpu'.call = request /\ cpu'.self = pspOwner
  BY <1>2, <1>3, <1>4, <1>5 DEF Context
<1>7. ContextFits(cpu', pspOwner, OverOf(kernel', pspOwner))
  BY <1>5, <1>6 DEF ContextFits
<1>8. ContextInv'
  BY <1>2, <1>3, <1>6, <1>7, ContextStep
<1>9. QED
  BY <1>2, <1>8, SameKernel

\* A call returns; the exit trampoline is not reached, for its task has ended.
LEMMA ReturnKeeps ==
    ASSUME KernelOk, ContextInv, ReadResult
    PROVE  KernelOk' /\ ContextInv'
<1>1. Executing /\ cpu.pc = "return" /\ OnlyCpu
  BY DEF ReadResult, Returns
<1>2. /\ UNCHANGED <<kernel, objects, mode, saved, pspOwner, pendSV, tickPending, previous>>
      /\ mode = "thread" /\ ~pendSV /\ pendSV \in BOOLEAN /\ tickPending \in BOOLEAN
  BY <1>1 DEF OnlyCpu, Executing, ContextInv, ModeInv
<1>3. /\ kernel.current = pspOwner /\ pspOwner \in Tasks /\ cpu.stack = pspOwner
      /\ kernel.state[pspOwner] = "RUNNING"
      /\ ContextFits(cpu, pspOwner, OverOf(kernel, pspOwner))
  BY <1>1, AtThread
<1>4. cpu.call # ExitRequest
  BY <1>1, <1>3 DEF ContextFits, OverOf
<1>5. cpu' = InitialContext(pspOwner)
  BY <1>3, <1>4 DEF ReadResult, Returns
<1>6. ContextInv'
  BY <1>2, <1>3, <1>5, InitialFits, ContextStep
<1>7. QED
  BY <1>2, <1>6, SameKernel


\* The critical section of a request: the handler, or the yield and its status.
LEMMA ServeStep ==
    ASSUME KernelOk, ContextInv, Executing, cpu.pc = "asked", Serve(cpu.call)
    PROVE  /\ KernelOk' /\ Carries(kernel, kernel')
           /\ cpu.call = ExitRequest => kernel'.state[pspOwner] = "TERMINATED"
           /\ Spares(kernel, kernel', pspOwner)
           /\ cpu.call.call \in Waits => Outcome(kernel', pspOwner, cpu.call.ticks)
<1>1. /\ kernel.started /\ CurrentRuns(kernel) /\ kernel.current = pspOwner
      /\ pspOwner \in Tasks /\ ContextFits(cpu, pspOwner, OverOf(kernel, pspOwner))
  BY AtThread
<1>2. cpu.call \in MayAsk(kernel.current) /\ cpu.self = kernel.current
  BY <1>1 DEF ContextFits, InitialContext
<1>3. CASE cpu.call.call # "YIELD" /\ Handle(cpu.call)
  BY <1>1, <1>2, <1>3, HandleStep DEF KernelOk
<1>4. CASE /\ cpu.call.call = "YIELD" /\ UNCHANGED objects
           /\ kernel' = SetResult(SchedYieldCurrent(kernel), cpu.self, "OK")
  <2>1. KernelOk' /\ Carries(kernel, kernel') /\ Spares(kernel, kernel', pspOwner)
    BY <1>1, <1>2, <1>4, YieldStep DEF KernelOk
  <2>2. cpu.call # ExitRequest /\ cpu.call.call \notin Waits
    BY <1>4, SpecialRequests DEF Waits
  <2>3. QED
    BY <2>1, <2>2
<1>5. QED
  BY <1>3, <1>4 DEF Serve

\* A caller that no longer runs is taken off the processor before its next step.
LEMMA RequestKeeps ==
    ASSUME KernelOk, ContextInv, HandleRequest
    PROVE  KernelOk' /\ ContextInv'
<1>1. /\ Executing /\ cpu.pc = "asked" /\ cpu' = [cpu EXCEPT !.pc = "return"]
      /\ Serve(cpu.call) /\ pendSV' = (kernel'.state[cpu.self] # "RUNNING")
      /\ UNCHANGED <<mode, saved, pspOwner, tickPending, previous>>
  BY DEF HandleRequest, IsServed
<1>2. /\ mode = "thread" /\ tickPending \in BOOLEAN /\ cpu \in Context
  BY <1>1 DEF Executing, ContextInv, ModeInv
<1>3. /\ kernel.current = pspOwner /\ pspOwner \in Tasks /\ cpu.stack = pspOwner
      /\ ContextFits(cpu, pspOwner, OverOf(kernel, pspOwner))
  BY <1>1, AtThread
<1>4. cpu.call \in MayAsk(pspOwner) /\ cpu.self = pspOwner
  BY <1>1, <1>3 DEF ContextFits, InitialContext
<1>5. /\ KernelOk' /\ Carries(kernel, kernel')
      /\ cpu.call = ExitRequest => kernel'.state[pspOwner] = "TERMINATED"
  BY <1>1, ServeStep
<1>6. /\ cpu' \in Context /\ cpu'.stack = pspOwner /\ cpu'.pc = "return"
      /\ cpu'.call = cpu.call /\ cpu'.self = pspOwner
  BY <1>1, <1>2, <1>3, <1>4 DEF Context
<1>7. ContextFits(cpu', pspOwner, OverOf(kernel', pspOwner))
  BY <1>4, <1>5, <1>6 DEF ContextFits, OverOf
<1>8. pendSV' \in BOOLEAN /\ (~pendSV' => kernel'.current = pspOwner)
  <2>1. ASSUME ~pendSV' PROVE kernel'.current = pspOwner
    <3>1. kernel'.state[pspOwner] = "RUNNING"
      BY <1>1, <1>4, <2>1
    <3>2. QED
      BY <1>3, <1>5, <3>1 DEF KernelOk, SafeInv, KernelInv, Sound, Consistent, OneRuns
  <2>2. QED
    BY <1>1, <2>1
<1>9. ContextInv'
  BY <1>1, <1>2, <1>5, <1>6, <1>7, <1>8, ContextStep
<1>10. QED
  BY <1>5, <1>9

\* SysTick becomes pending.
LEMMA TimerKeeps ==
    ASSUME KernelOk, ContextInv, TimerExpires
    PROVE  KernelOk' /\ ContextInv'
<1>1. /\ UNCHANGED <<kernel, objects, mode, cpu, saved, pspOwner, pendSV, previous>>
      /\ mode \notin {"reset", "boot"} /\ tickPending' \in BOOLEAN
  BY DEF TimerExpires, SysTickFires, contexts
<1>2. mode \in {"thread", "systick", "pendsv"} /\ pendSV \in BOOLEAN
  BY <1>1 DEF ContextInv, ModeInv
<1>3. /\ mode # "pendsv" /\ ~pendSV => kernel.current = pspOwner
      /\ mode = "systick" => previous = pspOwner
  BY <1>1 DEF ContextInv, RunInv
<1>4. ContextInv'
  BY <1>1, <1>2, <1>3, QuietStep
<1>5. QED
  BY <1>1, <1>4, SameKernel

\* SysTick_Handler notes the current task, which owns the stack in use.
LEMMA EnterSysTickKeeps ==
    ASSUME KernelOk, ContextInv, EnterSysTick
    PROVE  KernelOk' /\ ContextInv'
<1>1. /\ mode = "thread" /\ mode' = "systick" /\ ~pendSV /\ tickPending' = FALSE
      /\ previous' = kernel.current
      /\ UNCHANGED <<kernel, objects, cpu, saved, pspOwner, pendSV>>
  BY DEF EnterSysTick, Goes
<1>2. pendSV \in BOOLEAN /\ kernel.current = pspOwner
  BY <1>1 DEF ContextInv, ModeInv, RunInv
<1>3. ContextInv'
  BY <1>1, <1>2, QuietStep
<1>4. QED
  BY <1>1, <1>3, SameKernel

\* The tick asks for PendSV when it finds another task current than was noted.
LEMMA SysTickKeeps ==
    ASSUME KernelOk, ContextInv, SysTick
    PROVE  KernelOk' /\ ContextInv'
<1>1. /\ mode = "systick" /\ mode' = "thread" /\ kernel' = TimeTick(kernel)
      /\ pendSV' = (pendSV \/ kernel'.current # previous)
      /\ UNCHANGED <<objects, cpu, saved, pspOwner, tickPending, previous>>
  BY DEF SysTick, Goes
<1>2. kernel.started /\ previous = pspOwner /\ pendSV \in BOOLEAN /\ tickPending \in BOOLEAN
  BY <1>1 DEF ContextInv, ModeInv, RunInv
<1>3. KernelOk' /\ Carries(kernel, kernel')
  BY <1>1, <1>2, TickStep DEF KernelOk
<1>4. pendSV' \in BOOLEAN /\ (~pendSV' => kernel'.current = pspOwner)
  BY <1>1, <1>2
<1>5. ContextInv'
  BY <1>1, <1>2, <1>3, <1>4, QuietStep
<1>6. QED
  BY <1>3, <1>5

\* PendSV is taken.
LEMMA EnterPendSVKeeps ==
    ASSUME KernelOk, ContextInv, EnterPendSV
    PROVE  KernelOk' /\ ContextInv'
<1>1. /\ mode = "thread" /\ mode' = "pendsv" /\ pendSV' = FALSE
      /\ UNCHANGED <<kernel, objects, cpu, saved, pspOwner, tickPending, previous>>
  BY DEF EnterPendSV, Goes
<1>2. tickPending \in BOOLEAN
  BY DEF ContextInv, ModeInv
<1>3. ContextInv'
  BY <1>1, <1>2, QuietStep
<1>4. QED
  BY <1>1, <1>3, SameKernel

\* PendSV_Handler puts the context where its owner is found again, and takes up
\* the one of the current task, which may be the same.
LEMMA PendSVKeeps ==
    ASSUME KernelOk, ContextInv, PendSV
    PROVE  KernelOk' /\ ContextInv'
<1>1. /\ mode = "pendsv" /\ mode' = "thread" /\ saved' = [saved EXCEPT ![pspOwner] = cpu]
      /\ cpu' = saved'[kernel.current] /\ pspOwner' = kernel.current
      /\ UNCHANGED <<kernel, objects, pendSV, tickPending, previous>>
  BY DEF PendSV, Goes
<1>2. /\ kernel.started /\ pspOwner \in Tasks /\ cpu \in Context /\ saved \in [Tasks -> Context]
      /\ pendSV \in BOOLEAN /\ tickPending \in BOOLEAN
  BY <1>1 DEF ContextInv, ModeInv, RunInv
<1>3. kernel.current \in Tasks
  BY <1>2, SomebodyRuns DEF KernelOk, SafeInv
<1>4. saved' \in [Tasks -> Context] /\ \A t \in Tasks : saved'[t] = ContextOf(t)
  BY <1>1, <1>2 DEF ContextOf
<1>5. ModeInv'
  BY <1>1, <1>2, <1>3, <1>4 DEF ModeInv
<1>6. ASSUME NEW t \in Tasks
      PROVE  ContextOf(t)'.stack = t /\ ContextFits(ContextOf(t)', t, OverOf(kernel', t))
  <2>1. ContextOf(t)' = ContextOf(t)
    BY <1>1, <1>3, <1>4 DEF ContextOf
  <2>2. QED
    BY <1>1, <2>1 DEF ContextInv, RunInv
<1>7. RunInv'
  BY <1>1, <1>3, <1>6 DEF RunInv
<1>8. QED
  BY <1>1, <1>5, <1>7, SameKernel DEF ContextInv

\* A give from an interrupt that finds the processor anywhere asks for PendSV when it
\* changes the current task.
LEMMA DeviceKeeps ==
    ASSUME KernelOk, ContextInv, DeviceInterrupt
    PROVE  KernelOk' /\ ContextInv'
<1>1. PICK s \in Semaphores : SemGiveFromISR(s) /\ pendSV' = (pendSV \/ GivePreempts(s))
  BY DEF DeviceInterrupt
<1>2. /\ mode # "reset"
      /\ UNCHANGED <<queueVars, mode, cpu, saved, pspOwner, tickPending, previous>>
  BY DEF DeviceInterrupt, contexts
<1>3. kernel.started /\ pendSV \in BOOLEAN /\ tickPending \in BOOLEAN
  BY <1>2 DEF ContextInv, ModeInv
<1>4. /\ KernelOk' /\ Carries(kernel, kernel')
      /\ ~GivePreempts(s) => kernel'.current = kernel.current
  BY <1>1, <1>2, <1>3, InterruptStep DEF KernelOk
<1>5. GivePreempts(s) \in BOOLEAN /\ pendSV' \in BOOLEAN
  BY <1>1, <1>3 DEF GivePreempts
<1>6. CASE mode = "boot"
  <2>1. kernel'.started
    BY <1>4 DEF Carries
  <2>2. ModeInv' /\ RunInv'
    BY <1>2, <1>3, <1>5, <1>6, <2>1 DEF ContextInv, ModeInv, RunInv
  <2>3. QED
    BY <1>4, <2>2 DEF ContextInv
<1>7. CASE mode # "boot"
  <2>1. mode \notin {"reset", "boot"} /\ mode \in {"thread", "systick", "pendsv"}
    BY <1>2, <1>7 DEF ContextInv, ModeInv
  <2>2. /\ mode # "pendsv" /\ ~pendSV' => kernel'.current = pspOwner
        /\ mode = "systick" => previous = pspOwner
    BY <1>1, <1>3, <1>4, <2>1 DEF ContextInv, RunInv
  <2>3. ContextInv'
    BY <1>2, <1>3, <1>4, <1>5, <2>1, <2>2, QuietStep
  <2>4. QED
    BY <1>4, <2>3
<1>8. QED
  BY <1>6, <1>7

\* The invariant of the port and of its kernel holds for ever.
LEMMA AlwaysContexts == ContextSpec => [](KernelOk /\ ContextInv)
<1>1. ContextInit => KernelOk /\ ContextInv
  <2> SUFFICES ASSUME ContextInit PROVE KernelOk /\ ContextInv
    OBVIOUS
  <2>1. KernelOk
    BY InitSafe, InitPriorities DEF ContextInit, KernelOk
  <2>2. ~kernel.started
    BY CreatedFilled DEF ContextInit, Init, Filled
  <2>3. 0 \in Tasks
    BY OsKernelAssumption DEF Tasks
  <2>4. \A t \in Tasks : InitialContext(t) \in Context /\ InitialContext(t).pc = "user"
    BY InitialFits
  <2>5. ModeInv /\ RunInv
    BY <2>2, <2>3, <2>4 DEF ContextInit, ModeInv, RunInv
  <2>6. QED
    BY <2>1, <2>5 DEF ContextInv
<1>2. KernelOk /\ ContextInv /\ [ContextNext]_contextVars => (KernelOk /\ ContextInv)'
  <2> SUFFICES ASSUME KernelOk, ContextInv, [ContextNext]_contextVars PROVE KernelOk' /\ ContextInv'
    OBVIOUS
  <2>1. CASE ContextNext
    BY <2>1, SchedulerStartKeeps, FirstTaskKeeps, AskKeeps, RequestKeeps, ReturnKeeps, TimerKeeps,
       EnterSysTickKeeps, SysTickKeeps, EnterPendSVKeeps, PendSVKeeps, DeviceKeeps DEF ContextNext
  <2>2. CASE UNCHANGED contextVars
    <3>1. UNCHANGED <<kernel, objects, mode, cpu, saved, pspOwner, pendSV, tickPending, previous>>
      BY <2>2 DEF contextVars, contexts
    <3>2. ContextInv'
      BY <3>1 DEF ContextInv, ModeInv, RunInv, ContextOf
    <3>3. QED
      BY <3>1, <3>2, SameKernel
  <2>3. QED
    BY <2>1, <2>2
<1>3. QED
  BY <1>1, <1>2, PTL DEF ContextSpec
-------------------------------------------------------------------------------
(* What the port's steps are to the kernel *)

\* A yield that leaves its caller a status ends nobody's wait.
LEMMA YieldEndsNothing ==
    ASSUME SafeInv, CurrentRuns(kernel),
           kernel' = SetResult(SchedYieldCurrent(kernel), kernel.current, "OK")
    PROVE  EndsOnTime /\ HandedOver
<1> DEFINE j == SchedYieldCurrent(kernel)
           r == SetResult(j, kernel.current, "OK")
<1>1. /\ KernelInv(kernel) /\ Sound(kernel) /\ Consistent(kernel, {}) /\ kernel \in GoodKernel
  BY DEF SafeInv, KernelInv, Sound, Consistent
<1>2. kernel.current \in Tasks /\ "OK" \in Statuses
  BY <1>1, Caller
<1>3. Sound(j) /\ OnlySchedules(kernel, j)
  BY <1>1, SchedYieldCurrentSound
<1>4. kernel' = r
  OBVIOUS
<1> HIDE DEF j
<1>5. r.state = j.state /\ r.owner = j.owner
  <2>1. Consistent(j, {})
    BY <1>3 DEF Sound
  <2>2. j \in GoodKernel
    BY <2>1 DEF Consistent
  <2>3. QED
    BY <2>2 DEF SetResult, GoodKernel, Kernel
<1> HIDE DEF r
<1>6. kernel'.state = j.state /\ kernel'.owner = kernel.owner
  BY <1>3, <1>4, <1>5 DEF OnlySchedules
<1>7. \A t \in Tasks : ~Ends(t, "BLOCKED_DELAY") /\ ~Ends(t, "BLOCKED_OBJECT")
  BY <1>3, <1>6 DEF OnlySchedules, Ends
<1>8. QED
  BY <1>6, <1>7 DEF EndsOnTime, HandedOver, Obtained

\* Every step of the port is one of the kernel, such a yield, or neither.
LEMMA KernelSteps ==
    ASSUME KernelOk, ContextInv, [ContextNext]_contextVars
    PROVE  \/ [Next]_vars
           \/ /\ CurrentRuns(kernel)
              /\ kernel' = SetResult(SchedYieldCurrent(kernel), kernel.current, "OK")
<1>1. CASE StartScheduler
  BY <1>1 DEF StartScheduler, Next, Start, objects
<1>2. CASE HandleRequest
  <2>1. Executing /\ Serve(cpu.call) /\ cpu.pc = "asked"
    BY <1>2 DEF HandleRequest, IsServed
  <2>2. /\ kernel.current = pspOwner /\ pspOwner \in Tasks
        /\ ContextFits(cpu, pspOwner, OverOf(kernel, pspOwner))
    BY <2>1, AtThread
  <2>3. cpu.call \in MayAsk(kernel.current) /\ cpu.self = kernel.current
    BY <2>1, <2>2 DEF ContextFits, InitialContext
  <2>4. QED
    BY <2>1, <2>2, <2>3, RequestIsStep DEF Serve
<1>3. CASE SysTick
  <2>1. kernel.started /\ kernel' = TimeTick(kernel) /\ UNCHANGED objects
    BY <1>3 DEF SysTick, Goes, ContextInv, ModeInv
  <2>2. QED
    BY <2>1 DEF Next, Timer, Tick, objects
<1>4. CASE DeviceInterrupt
  BY <1>4 DEF DeviceInterrupt, Next, Interrupt
<1>5. CASE \/ StartFirstTask \/ Ask \/ ReadResult \/ TimerExpires
           \/ EnterSysTick \/ EnterPendSV \/ PendSV \/ UNCHANGED contextVars
  <2>1. UNCHANGED <<kernel, objects>>
    BY <1>5 DEF StartFirstTask, Ask, ReadResult, OnlyCpu, TimerExpires, EnterSysTick, EnterPendSV,
                PendSV, contextVars
  <2>2. QED
    BY <2>1 DEF vars, objects
<1>6. QED
  BY <1>1, <1>2, <1>3, <1>4, <1>5 DEF ContextNext

-------------------------------------------------------------------------------
(* What the calls return *)

\* A context behind its critical section reads what became of its wait: whoever ends
\* the wait while others run has left it a status that it may return.
OutcomeInv ==
    mode \notin {"reset", "boot"} =>
        \A t \in Tasks : LET c == ContextOf(t) IN
            c.pc = "return" /\ c.call.call \in Waits => Outcome(kernel, t, c.call.ticks)

\* A step keeps that when each context stays and its task is left calm, or is not
\* returning, or has just got its status.
LEMMA OutcomesStay ==
    ASSUME OutcomeInv, mode \notin {"reset", "boot"},
           \A t \in Tasks :
               \/ ContextOf(t)' = ContextOf(t) /\ (Calm(kernel, kernel', t) \/ UNCHANGED kernel)
               \/ ContextOf(t)'.pc # "return"
               \/ ContextOf(t)'.call.call \in Waits => Outcome(kernel', t, ContextOf(t)'.call.ticks)
    PROVE  OutcomeInv'
<1>1. ASSUME NEW t \in Tasks, ContextOf(t)'.pc = "return", ContextOf(t)'.call.call \in Waits
      PROVE  Outcome(kernel', t, ContextOf(t)'.call.ticks)
  <2>1. CASE ContextOf(t)' = ContextOf(t) /\ (Calm(kernel, kernel', t) \/ UNCHANGED kernel)
    <3>1. Outcome(kernel, t, ContextOf(t).call.ticks)
      BY <1>1, <2>1 DEF OutcomeInv
    <3>2. QED
      BY <2>1, <3>1, OutcomeStays
  <2>2. CASE ContextOf(t)'.pc # "return"
    BY <1>1, <2>2
  <2>3. CASE ContextOf(t)'.call.call \in Waits => Outcome(kernel', t, ContextOf(t)'.call.ticks)
    BY <1>1, <2>3
  <2>4. QED
    BY <2>1, <2>2, <2>3
<1>2. QED
  BY <1>1 DEF OutcomeInv

\* In thread code only the context of the owner of PSP changes.
LEMMA OthersKeepContext ==
    ASSUME UNCHANGED <<saved, pspOwner>>
    PROVE  /\ \A t \in Tasks : t # pspOwner => ContextOf(t)' = ContextOf(t)
           /\ ContextOf(pspOwner)' = cpu'
  BY DEF ContextOf

\* One step of the port.
LEMMA OutcomeStep ==
    ASSUME KernelOk, ContextInv, OutcomeInv, [ContextNext]_contextVars
    PROVE  OutcomeInv'
<1>1. CASE UNCHANGED <<kernel, mode, cpu, saved, pspOwner>>
  BY <1>1 DEF OutcomeInv, ContextOf
<1>2. CASE StartScheduler
  BY <1>2 DEF StartScheduler, Goes, OutcomeInv
<1>3. CASE StartFirstTask
  <2>1. /\ mode = "boot" /\ cpu' = saved[kernel.current] /\ pspOwner' = kernel.current
        /\ saved' = saved
    BY <1>3 DEF StartFirstTask, Goes
  <2>2. kernel.started /\ saved = [t \in Tasks |-> InitialContext(t)]
    BY <2>1 DEF ContextInv, ModeInv
  <2>3. kernel.current \in Tasks
    BY <2>2, SomebodyRuns DEF KernelOk, SafeInv
  <2>4. ASSUME NEW t \in Tasks PROVE ContextOf(t)'.pc = "user"
    BY <2>1, <2>2, <2>3, InitialFits DEF ContextOf
  <2>5. QED
    BY <2>4 DEF OutcomeInv
<1>4. CASE Ask
  <2>1. /\ Executing /\ cpu.pc = "user" /\ mode = "thread"
        /\ UNCHANGED <<kernel, saved, pspOwner>>
    BY <1>4 DEF Ask, Executing, OnlyCpu
  <2>2. cpu \in Context /\ pspOwner \in Tasks
    BY <2>1 DEF ContextInv, ModeInv, RunInv
  <2>3. cpu'.pc # "return"
    BY <1>4, <2>1, <2>2 DEF Ask, Context
  <2>4. QED
    BY <2>1, <2>3, OthersKeepContext, OutcomesStay
<1>5. CASE HandleRequest
  <2>1. /\ Executing /\ cpu.pc = "asked" /\ cpu' = [cpu EXCEPT !.pc = "return"]
        /\ Serve(cpu.call) /\ UNCHANGED <<saved, pspOwner>> /\ mode = "thread"
    BY <1>5 DEF HandleRequest, IsServed, Executing
  <2>2. /\ Spares(kernel, kernel', pspOwner)
        /\ cpu.call.call \in Waits => Outcome(kernel', pspOwner, cpu.call.ticks)
    BY <2>1, ServeStep
  <2>3. cpu \in Context /\ cpu'.call = cpu.call
    BY <2>1 DEF ContextInv, ModeInv, Context
  <2>4. \A t \in Tasks : t # pspOwner =>
            ContextOf(t)' = ContextOf(t) /\ Calm(kernel, kernel', t)
    BY <2>1, <2>2, OthersKeepContext DEF Spares
  <2>5. ContextOf(pspOwner)'.call.call \in Waits =>
            Outcome(kernel', pspOwner, ContextOf(pspOwner)'.call.ticks)
    BY <2>1, <2>2, <2>3, OthersKeepContext
  <2>6. QED
    BY <2>1, <2>4, <2>5, OutcomesStay
<1>6. CASE ReadResult
  <2>1. /\ Executing /\ mode = "thread" /\ cpu.pc = "return"
        /\ UNCHANGED <<kernel, saved, pspOwner>>
    BY <1>6 DEF ReadResult, Returns, Executing, OnlyCpu
  <2>2. cpu \in Context /\ cpu.stack \in Tasks
    BY DEF ContextInv, ModeInv, Context
  <2>3. cpu'.pc # "return"
    BY <1>6, <2>2, InitialFits DEF ReadResult, Returns, Context
  <2>4. QED
    BY <2>1, <2>3, OthersKeepContext, OutcomesStay
<1>7. CASE TimerExpires
  <2>1. UNCHANGED <<kernel, mode, cpu, saved, pspOwner>>
    BY <1>7 DEF TimerExpires, SysTickFires, contexts
  <2>2. QED
    BY <1>1, <2>1
<1>8. CASE EnterSysTick \/ EnterPendSV
  <2>1. mode = "thread" /\ UNCHANGED <<kernel, cpu, saved, pspOwner>>
    BY <1>8 DEF EnterSysTick, EnterPendSV, Goes
  <2>2. \A t \in Tasks : ContextOf(t)' = ContextOf(t)
    BY <2>1 DEF ContextOf
  <2>3. QED
    BY <2>1, <2>2, OutcomesStay
<1>9. CASE SysTick
  <2>1. /\ mode = "systick" /\ kernel' = TimeTick(kernel)
        /\ UNCHANGED <<objects, cpu, saved, pspOwner>>
    BY <1>9 DEF SysTick, Goes
  <2>2. kernel.started
    BY <2>1 DEF ContextInv, ModeInv
  <2>3. \A t \in Tasks : Calm(kernel, kernel', t)
    BY <2>1, <2>2, TickStep DEF KernelOk
  <2>4. \A t \in Tasks : ContextOf(t)' = ContextOf(t)
    BY <2>1 DEF ContextOf
  <2>5. QED
    BY <2>1, <2>3, <2>4, OutcomesStay
<1>10. CASE PendSV
  <2>1. /\ mode = "pendsv" /\ saved' = [saved EXCEPT ![pspOwner] = cpu]
        /\ cpu' = saved'[kernel.current] /\ pspOwner' = kernel.current /\ UNCHANGED kernel
    BY <1>10 DEF PendSV, Goes
  <2>2. kernel.started /\ pspOwner \in Tasks /\ saved \in [Tasks -> Context]
    BY <2>1 DEF ContextInv, ModeInv, RunInv
  <2>3. kernel.current \in Tasks
    BY <2>2, SomebodyRuns DEF KernelOk, SafeInv
  <2>4. \A t \in Tasks : saved'[t] = ContextOf(t)
    BY <2>1, <2>2 DEF ContextOf
  <2>5. \A t \in Tasks : ContextOf(t)' = ContextOf(t)
    BY <2>1, <2>3, <2>4 DEF ContextOf
  <2>6. QED
    BY <2>1, <2>5, OutcomesStay
<1>11. CASE DeviceInterrupt
  <2>1. PICK s \in Semaphores : SemGiveFromISR(s)
    BY <1>11 DEF DeviceInterrupt
  <2>2. mode # "reset" /\ UNCHANGED <<queueVars, mode, cpu, saved, pspOwner>>
    BY <1>11 DEF DeviceInterrupt, contexts
  <2>3. kernel.started
    BY <2>2 DEF ContextInv, ModeInv
  <2>4. \A t \in Tasks : Calm(kernel, kernel', t)
    BY <2>1, <2>2, <2>3, InterruptStep DEF KernelOk
  <2>5. \A t \in Tasks : ContextOf(t)' = ContextOf(t)
    BY <2>2 DEF ContextOf
  <2>6. CASE mode = "boot"
    BY <2>2, <2>6 DEF OutcomeInv
  <2>7. CASE mode # "boot"
    BY <2>2, <2>4, <2>5, <2>7, OutcomesStay
  <2>8. QED
    BY <2>6, <2>7
<1>12. CASE UNCHANGED contextVars
  <2>1. UNCHANGED <<kernel, mode, cpu, saved, pspOwner>>
    BY <1>12 DEF contextVars, contexts
  <2>2. QED
    BY <1>1, <2>1
<1>13. QED
  BY <1>2, <1>3, <1>4, <1>5, <1>6, <1>7, <1>8, <1>9, <1>10, <1>11, <1>12 DEF ContextNext

\* What a call that returns finds.
LEMMA ReturnFindsOutcome ==
    ASSUME KernelOk, ContextInv, OutcomeInv, [ContextNext]_contextVars
    PROVE  ReturnsWhenOver
<1> SUFFICES ASSUME cpu.pc = "return", cpu'.pc = "user", cpu'.stack = cpu.stack,
                    cpu.call.call \in Waits
             PROVE  \/ StatusOf(cpu) = "OK"
                    \/ StatusOf(cpu) = "TIMEOUT" /\ cpu.call.ticks # WaitForever
  BY DEF ReturnsWhenOver, Waits
<1>1. CASE ReadResult
  <2>1. Executing /\ mode = "thread"
    BY <1>1 DEF ReadResult, Returns, Executing
  <2>2. /\ pspOwner \in Tasks /\ kernel.state[pspOwner] = "RUNNING" /\ cpu = ContextOf(pspOwner)
        /\ ContextFits(cpu, pspOwner, OverOf(kernel, pspOwner))
    BY <2>1, AtThread
  <2>3. cpu.self = pspOwner
    BY <2>2 DEF ContextFits, InitialContext
  <2>4. Outcome(kernel, pspOwner, cpu.call.ticks)
    BY <2>1, <2>2 DEF OutcomeInv
  <2>5. QED
    BY <2>2, <2>3, <2>4 DEF Outcome, StatusOf
<1>2. CASE StartFirstTask
  BY <1>2 DEF StartFirstTask, Goes, ContextInv, ModeInv
<1>3. CASE PendSV
  <2>1. /\ mode = "pendsv" /\ saved' = [saved EXCEPT ![pspOwner] = cpu]
        /\ cpu' = saved'[kernel.current]
    BY <1>3 DEF PendSV, Goes
  <2>2. kernel.started /\ pspOwner \in Tasks /\ saved \in [Tasks -> Context]
    BY <2>1 DEF ContextInv, ModeInv, RunInv
  <2>3. kernel.current \in Tasks
    BY <2>2, SomebodyRuns DEF KernelOk, SafeInv
  <2>4. cpu.stack = pspOwner /\ (kernel.current # pspOwner => saved[kernel.current].stack = kernel.current)
    BY <2>1, <2>2, <2>3 DEF ContextInv, RunInv, ContextOf
  <2>5. CASE kernel.current = pspOwner
    BY <2>1, <2>2, <2>5
  <2>6. CASE kernel.current # pspOwner
    BY <2>1, <2>2, <2>3, <2>4, <2>6
  <2>7. QED
    BY <2>5, <2>6
<1>4. CASE Ask
  BY <1>4 DEF Ask
<1>5. CASE HandleRequest
  BY <1>5 DEF HandleRequest, IsServed
<1>6. CASE cpu' = cpu
  BY <1>6
<1>7. QED
  <2>1. CASE StartScheduler \/ TimerExpires \/ EnterSysTick \/ SysTick \/ EnterPendSV \/ DeviceInterrupt
    <3>1. cpu' = cpu
      BY <2>1 DEF StartScheduler, TimerExpires, EnterSysTick, SysTick, EnterPendSV, DeviceInterrupt,
                  contexts
    <3>2. QED
      BY <1>6, <3>1
  <2>2. CASE UNCHANGED contextVars
    BY <1>6, <2>2 DEF contextVars, contexts
  <2>3. QED
    BY <1>1, <1>2, <1>3, <1>4, <1>5, <2>1, <2>2 DEF ContextNext
-------------------------------------------------------------------------------
(* The properties *)

\* However often the kernel's current task changes before PendSV is taken, every
\* stack stays with its task: that of the owner of PSP in the processor, every
\* other in the TCB of its own task.
THEOREM ContextsStayWithOwners == ContextSpec => []ContextsOwned
<1>1. ContextInv => ContextsOwned
  BY DEF ContextInv, RunInv, ContextsOwned, ContextOf
<1>2. QED
  BY <1>1, AlwaysContexts, PTL

\* Thread code is only ever that of the current task, which is RUNNING: the
\* critical section of a call, the tick and every give from an interrupt that take
\* the processor from it also pend the switch.
THEOREM ThreadFollowsKernel == ContextSpec => []ThreadIsCurrent
<1>1. KernelOk /\ ContextInv => ThreadIsCurrent
  <2> SUFFICES ASSUME KernelOk, ContextInv, Executing
               PROVE  /\ cpu.stack = kernel.current /\ kernel.state[cpu.stack] = "RUNNING"
                      /\ cpu.pc # "ended"
                      /\ cpu.self \in {NoTask, cpu.stack}
    BY DEF ThreadIsCurrent
  <2>1. /\ kernel.current = pspOwner /\ kernel.state[pspOwner] = "RUNNING" /\ cpu.stack = pspOwner
        /\ ContextFits(cpu, pspOwner, OverOf(kernel, pspOwner))
    BY AtThread
  <2>2. cpu.pc # "ended" /\ cpu.self \in {NoTask, pspOwner}
    BY <2>1 DEF ContextFits, InitialContext
  <2>3. QED
    BY <2>1, <2>2
<1>2. QED
  BY <1>1, AlwaysContexts, PTL

\* Served by exceptions that interrupt each other and the tasks, the kernel keeps
\* what it promises: each handler finds it between two others.  The tick is one
\* handler here; that a device can also interrupt it is CortexTick's subject.
THEOREM KernelHoldsOnCortex == ContextSpec => []KernelPromises
<1>1. KernelOk /\ ContextInv => KernelPromises
  BY SafePromises DEF KernelOk
<1>2. QED
  BY <1>1, AlwaysContexts, PTL

\* Nor does the port let a wait end at another time than the tick of its deadline, or
\* without its object: the action properties of the kernel are those of the port.
THEOREM WaitsEndOnCortex == ContextSpec => WakesExactlyOnTime /\ DirectHandoff
<1> DEFINE I == KernelOk /\ ContextInv
<1>1. ContextSpec => []I
  BY AlwaysContexts
<1>2. I /\ [ContextNext]_contextVars => [EndsOnTime]_vars /\ [HandedOver]_vars
  BY KernelSteps, YieldEndsNothing, StepEndsOnTime, StepHandsOver DEF KernelOk
<1> HIDE DEF I
<1>3. QED
  BY <1>1, <1>2, PTL DEF ContextSpec, WakesExactlyOnTime, DirectHandoff

\* A call that waits for a permit or a queue returns only when its wait is over, with
\* OK or the time-out it may have: whoever ends the wait does so while the caller is
\* away, and no other handler, tick or interrupt touches its status until it is read.
THEOREM CallsReturnTheirOutcome == ContextSpec => CallsReturnWhenOver
<1> DEFINE I == KernelOk /\ ContextInv
<1>1. ContextSpec => []I
  BY AlwaysContexts
<1>2. ContextInit => OutcomeInv
  BY DEF ContextInit, OutcomeInv
<1>3. I /\ OutcomeInv /\ [ContextNext]_contextVars => OutcomeInv'
  BY OutcomeStep
<1>4. I /\ OutcomeInv /\ [ContextNext]_contextVars => [ReturnsWhenOver]_contextVars
  BY ReturnFindsOutcome
<1> HIDE DEF I
<1>5. QED
  BY <1>1, <1>2, <1>3, <1>4, PTL DEF ContextSpec, CallsReturnWhenOver
===============================================================================
