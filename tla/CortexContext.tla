----------------------------- MODULE CortexContext -----------------------------
(***************************************************************************)
(* The context switch of the Cortex-M port.  The kernel only changes       *)
(* `current'; the processor goes on with the stack it was on until PendSV  *)
(* exchanges the stacks, and by then `current' may have changed several    *)
(* times.  The requests of a task, the tick, the interrupts of devices and *)
(* PendSV interleave as the exceptions of one processor do.                *)
(*                                                                         *)
(* Assumed of the processor: a pending PendSV or SysTick that nothing masks*)
(* is taken before thread code goes on, PendSV first; SysTick and PendSV   *)
(* do not preempt each other, device interrupts preempt both.  How a       *)
(* device interrupt can cut os_TimeTick in two is the subject of           *)
(* CortexTick; here the tick is one step.                                  *)
(***************************************************************************)
EXTENDS OsPort

VARIABLES mode,        \* what the processor executes: "reset", "boot", "thread", "systick", "pendsv"
          cpu,         \* its registers and PSP: the context it is in
          saved,       \* tasks[t].sp, with the context stacked there
          pspOwner,    \* g_os_port_psp_owner
          pendSV,      \* PendSV is pending
          tickPending, \* SysTick is pending
          previous     \* the local of SysTick_Handler

\* A context: whose stack it is on and where the code stands, in the task's own
\* code or in os_port_task_request with its parameters and its local `current'.
Context == [stack : Tasks,
            pc    : {"user", "asked", "return", "ended"},
            call  : Requests \cup {NoRequest, ExitRequest},
            self  : Tasks \cup {NoTask}]

\* The frame os_port_stack_init builds.
InitialContext(t) == [stack |-> t, pc |-> "user", call |-> NoRequest, self |-> NoTask]

contexts == <<mode, cpu, saved, pspOwner>>
contextVars == <<kernel, objects, contexts, pendSV, tickPending, previous>>

ContextInit ==
    /\ Init
    /\ mode = "reset" /\ pspOwner = NoTask
    /\ saved = [t \in Tasks |-> InitialContext(t)]
    /\ cpu = InitialContext(0)
    /\ pendSV = FALSE /\ tickPending = FALSE /\ previous = NoTask
-------------------------------------------------------------------------------
(* From os_Start to the first task *)

Goes(from, to) == mode = from /\ mode' = to

\* os_port_start_scheduler up to the SVC instruction.
StartScheduler ==
    /\ Goes("reset", "boot")
    /\ SchedStart
    /\ pspOwner' = kernel'.current
    /\ UNCHANGED <<objects, cpu, saved, pendSV, tickPending, previous>>

\* SVC_Handler; it enables SysTick as well.
StartFirstTask ==
    /\ Goes("boot", "thread")
    /\ cpu' = saved[kernel.current] /\ pspOwner' = kernel.current
    /\ UNCHANGED <<kernel, objects, saved, pendSV, tickPending, previous>>
-------------------------------------------------------------------------------
(* Thread mode *)

Executing == mode = "thread" /\ ~pendSV /\ ~tickPending

\* Where the context of a request goes with the critical section, and behind it;
\* the exit trampoline would wait for ever.
IsServed == Executing /\ cpu.pc = "asked" /\ cpu' = [cpu EXCEPT !.pc = "return"]
Returns == /\ Executing /\ cpu.pc = "return"
           /\ cpu' = IF cpu.call = ExitRequest THEN [cpu EXCEPT !.pc = "ended"]
                     ELSE InitialContext(cpu.stack)

OnlyCpu == UNCHANGED <<kernel, objects, mode, saved, pspOwner, pendSV, tickPending, previous>>

\* os_port_task_request up to the critical section: a call of the task, or its
\* exit through the trampoline its entry function returns to.
CallsOf(t) == Calls[t] \cup (IF IsIdle(t) THEN {} ELSE {ExitRequest})
Ask ==
    /\ Executing /\ cpu.pc = "user"
    /\ \E request \in CallsOf(cpu.stack) :
          cpu' = IF CurrentRuns(kernel)
                 THEN [cpu EXCEPT !.pc = "asked", !.call = request, !.self = kernel.current]
                 ELSE cpu
    /\ OnlyCpu

\* The switch of os_port_task_request; a yield leaves its caller a status here.
Serve(request) ==
    \/ request.call # "YIELD" /\ Handle(request)
    \/ /\ request.call = "YIELD" /\ CurrentRuns(kernel)
       /\ kernel' = SetResult(SchedYieldCurrent(kernel), cpu.self, "OK")
       /\ UNCHANGED objects

\* Mutant: only a caller that blocks asks for the switch, not one preempted by
\* the task it woke.
HandleRequestPendIfBlocked ==
    /\ IsServed /\ Serve(cpu.call)
    /\ pendSV' = (kernel'.state[cpu.self] \notin {"RUNNING", "READY"})
    /\ UNCHANGED <<mode, saved, pspOwner, tickPending, previous>>

\* Mutant: a caller that blocks goes on until the next interrupt.
HandleRequestNoPend ==
    /\ IsServed /\ Serve(cpu.call)
    /\ UNCHANGED <<mode, saved, pspOwner, pendSV, tickPending, previous>>

\* The critical section: the handler, and PendSV when the caller no longer runs.
HandleRequest ==
    /\ IsServed /\ Serve(cpu.call)
    /\ pendSV' = (kernel'.state[cpu.self] # "RUNNING")
    /\ UNCHANGED <<mode, saved, pspOwner, tickPending, previous>>

\* The caller reads its status.
ReadResult == Returns /\ OnlyCpu
-------------------------------------------------------------------------------
(* Exceptions *)

\* An expiry that finds SysTick pending is lost.
SysTickFires == mode \notin {"reset", "boot"} /\ tickPending' = TRUE
TimerExpires ==
    /\ SysTickFires
    /\ UNCHANGED <<kernel, objects, contexts, pendSV, previous>>

EnterSysTick ==
    /\ Goes("thread", "systick") /\ ~pendSV /\ tickPending
    /\ tickPending' = FALSE
    /\ previous' = kernel.current
    /\ UNCHANGED <<kernel, objects, cpu, saved, pspOwner, pendSV>>

\* Mutant: a switch made by the tick is left to the next request.
SysTickNoSwitch ==
    /\ Goes("systick", "thread")
    /\ kernel' = TimeTick(kernel)
    /\ UNCHANGED <<objects, cpu, saved, pspOwner, pendSV, tickPending, previous>>

\* SysTick_Handler, behind its first line.
SysTick ==
    /\ Goes("systick", "thread")
    /\ kernel' = TimeTick(kernel)
    /\ pendSV' = (pendSV \/ kernel'.current # previous)
    /\ UNCHANGED <<objects, cpu, saved, pspOwner, tickPending, previous>>

EnterPendSV ==
    /\ Goes("thread", "pendsv") /\ pendSV
    /\ pendSV' = FALSE
    /\ UNCHANGED <<kernel, objects, cpu, saved, pspOwner, tickPending, previous>>

\* Mutant: the context is saved into the TCB of the current task.
PendSVSavesToCurrent ==
    /\ Goes("pendsv", "thread")
    /\ saved' = [saved EXCEPT ![kernel.current] = cpu]
    /\ cpu' = saved'[kernel.current]
    /\ pspOwner' = kernel.current
    /\ UNCHANGED <<kernel, objects, pendSV, tickPending, previous>>

\* PendSV_Handler, which masks interrupts: the context goes into the TCB of the
\* task it belongs to, and that of the current task is taken up.
PendSV ==
    /\ Goes("pendsv", "thread")
    /\ saved' = [saved EXCEPT ![pspOwner] = cpu]
    /\ cpu' = saved'[kernel.current]
    /\ pspOwner' = kernel.current
    /\ UNCHANGED <<kernel, objects, pendSV, tickPending, previous>>

\* Whether a give from an interrupt wakes a task that outranks the current one.
GivePreempts(s) ==
    LET give == GiveOutcome(EnterCritical(kernel), s)
    IN give.woken # NoTask /\ WaitMaybePreempt(give.k, give.woken).pending

\* xSemaphoreGiveFromISR in a device's handler: os_ExitCritical takes the
\* decision and leaves the switch to PendSV.
DeviceInterrupt ==
    /\ mode # "reset"
    /\ \E s \in Semaphores :
          SemGiveFromISR(s) /\ pendSV' = (pendSV \/ GivePreempts(s))
    /\ UNCHANGED <<queueVars, contexts, tickPending, previous>>

ContextNext ==
    \/ StartScheduler \/ StartFirstTask
    \/ Ask \/ HandleRequest \/ ReadResult
    \/ TimerExpires \/ EnterSysTick \/ SysTick
    \/ EnterPendSV \/ PendSV
    \/ DeviceInterrupt

ContextSpec == ContextInit /\ [][ContextNext]_contextVars

\* The timer keeps expiring and the processor takes its exceptions.  The code of
\* the task that owns PSP goes on between them: a step of it that is put off
\* again and again is taken all the same.  Each conjunct names one action by the
\* variable that only this action changes so.
ContextFairness ==
    /\ WF_mode(Goes("reset", "boot")) /\ WF_mode(Goes("boot", "thread"))
    /\ WF_tickPending(SysTickFires)
    /\ WF_mode(Goes("thread", "systick") /\ ~pendSV /\ tickPending)
    /\ WF_mode(Goes("systick", "thread"))
    /\ WF_mode(Goes("thread", "pendsv") /\ pendSV)
    /\ WF_mode(Goes("pendsv", "thread"))
    /\ \A t \in Tasks : /\ SF_cpu(pspOwner = t /\ IsServed)
                        /\ SF_cpu(pspOwner = t /\ Returns)

\* The handlers together are shorter than a tick, so that thread code is reached
\* again and again.
FairContextSpec == ContextSpec /\ ContextFairness /\ []<>Executing
-------------------------------------------------------------------------------
\* The context of a task, wherever it is kept.
ContextOf(t) == IF t = pspOwner THEN cpu ELSE saved[t]

\* No stack is in two TCBs, or in the wrong one: the processor is on the stack of
\* the owner of PSP and every other task's own stack is in its TCB, however
\* often `current' changed since the last PendSV.
ContextsOwned ==
    mode \notin {"reset", "boot"} =>
        /\ cpu.stack = pspOwner
        /\ \A t \in Tasks \ {pspOwner} : saved[t].stack = t

\* Thread code runs only as the kernel's current task, which is RUNNING: no
\* caller gets past the critical section in which it lost the processor, none
\* runs on after its exit, and `current' read before it is still the caller.
ThreadIsCurrent ==
    Executing =>
        /\ cpu.stack = kernel.current /\ kernel.state[cpu.stack] = "RUNNING"
        /\ cpu.pc # "ended"
        /\ cpu.self \in {NoTask, cpu.stack}

\* A call returns to its caller only when its wait is over, with the status
\* that ended it: never what WaitBlockCurrent leaves there meanwhile, and no
\* TIMEOUT from a wait for ever.
StatusOf(context) == kernel.result[context.self]
ReturnsWhenOver ==
    cpu.pc = "return" /\ cpu'.pc = "user" /\ cpu'.stack = cpu.stack
    /\ cpu.call.call \in {"SEM_TAKE", "QUEUE_SEND", "QUEUE_RECEIVE"} =>
        \/ StatusOf(cpu) = "OK"
        \/ StatusOf(cpu) = "TIMEOUT" /\ cpu.call.ticks # WaitForever
CallsReturnWhenOver == [][ReturnsWhenOver]_contextVars

\* The processor follows the kernel: whatever changes `current', the stack it
\* is on becomes that of the current task.
SwitchIsTaken == (mode # "reset" /\ pspOwner # kernel.current) ~> (pspOwner = kernel.current)

\* A call of the highest-priority task that may not wait for ever returns to
\* it: its wait ends, it is switched to, and it reads its status, also when its
\* deadline is the tick value that stands for OS_WAIT_FOREVER.
Urgent(t) == \A u \in Tasks \ {t} : BasePriority[u] < BasePriority[t]
InFiniteCall(t) ==
    /\ ContextOf(t).pc \in {"asked", "return"}
    /\ ContextOf(t).call # ExitRequest /\ ContextOf(t).call.ticks # WaitForever
FiniteCallsReturn ==
    \A t \in Tasks : Urgent(t) => (InFiniteCall(t) ~> ContextOf(t).pc = "user")
===============================================================================
