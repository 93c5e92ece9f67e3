# mini_rtos in TLA+

A verification project for the mini_rtos kernel (`kernel/`, `port/`, `include/os.h`): TLA+ modules
translated from the C source, TLC configurations that check them on small instances, and theorems
checked by TLAPS for every configuration. Paths below are relative to the repository.

## The system

mini_rtos is a preemptive, fixed-priority kernel in C for one processor. Application tasks call an
API; a *port* (Windows threads, Cortex-M, or a stub for unit tests) runs the calls and the timer.

| Component | State | Operations |
|---|---|---|
| Scheduler (`os_sched.c`, `os_kernel_state.h`) | ready queue per priority and a bitmap, `current`, `slice_remaining`, critical nesting and the pending switch, each TCB's state, effective priority and wait fields | enqueue, remove, pop highest, schedule, yield, block, wake, change of priority, critical sections, `os_KernelValidate`, stop |
| Lists (`os_list.c`) | previous/next pointers, `linked`, counts | init, insert before, push, pop, remove |
| Time (`os_time.c`) | 32-bit tick, two delay lists (this period and the next) | insert, remove, delay, tick (advance, wake, slice) |
| Mutexes (`os_mutex.c`) | owner, wait list | create, lock, unlock, inheritance, release at a task's end |
| Semaphores (`os_sem.c`) | count, maximum, wait list | create, take, give, give from an interrupt |
| Queues (`os_queue.c`) | ring of slots (head, tail, count), two wait lists | create, send, receive, snapshot |
| Tasks (`os_task.c`) | the TCB pool | init, create, the Idle task, begin and end of a task |
| API (`os_api.c`) | last error | one entry point per operation; each blocking call becomes a port request |
| Win32 port (`os_port_win32.c`) | one thread, mailbox, phase and gate per task; pending ticks; a control thread | task request, tick, suspend, activate, stop |
| Cortex-M port (`os_port_cortex_m.c`, `.S`) | PSP owner, saved contexts, BASEPRI/PRIMASK | SysTick, PendSV, SVC, critical sections |
| Stub port (`os_port_stub.c`) | whether it runs, a nesting count | runs each handler directly, for the unit tests |
| Demos (`demos/`) | tasks, objects, progress counters for a dashboard | a sensor pipeline; round robin with an emergency task |
| Tests (`tests/test_kernel.c`) | | |

How they interact. An API call fills a request and hands it to the port, which runs a
`...Current` handler of the kernel for the task in `g_os_kernel.current`; the handler calls into the
scheduler, which may change `current`. The tick runs `os_TimeTick` on the same state. A wait joins a
TCB to a wait list and perhaps to a delay list; whoever ends the wait (a give, a send, a receive, an
unlock, the end of an owner, or the tick) takes it off both and writes the result the blocked call
returns. Mutex operations and time-outs recompute the inherited priorities of all tasks and move
them in the lists they are on.

What is hard here:

* one operation touches several containers that must stay consistent, through paths that nest
  (a tick wakes a mutex waiter, which lowers the owner, which re-queues it);
* a wait has two enders racing, its object and its deadline;
* the tick wraps, and deadlines are ordered in two lists that are exchanged at the wrap;
* inheritance is transitive, over mutexes visited in index order, and must be undone exactly;
* every path that changes a priority or a state must end with the right task running;
* on Cortex-M the tick is not masked against the other interrupts, and the processor stays on a
  task's stack while `current` has moved on, perhaps several times; on Windows real threads are
  suspended at arbitrary points of the request protocol, and a thread whose system call fails has
  no way to tell the control thread;
* objects and handles outlive runs: `os_KernelStopAll` leaves wait lists as they are, `os_Init` reuses
  the same static pools;
* a list node does not know its list: the caller has to name the right one.

What makes each component correct:

* scheduler: each task is in exactly the containers its state calls for; nobody READY outranks the
  running task; equal priorities share the processor;
* time: a delay or a wait ends by timeout in the tick of its deadline and in no other;
* mutexes: a task runs at the highest base priority among itself and those it holds up, no more and
  no less; ownership goes to the first waiter; an owner can always still release;
* semaphores and queues: no permit or message is lost, duplicated or reordered; nobody sleeps beside
  a resource it could have; a status tells what happened;
* ports: a handler runs alone; a task continues exactly when the kernel says it is current, on its
  own stack, with the status of its own call; a run ends;
* lists: the links read the same both ways and no assertion fails;
* life cycle: a run begins only from a sound configuration, once per `os_Init`, with one Idle task.

## The modules

```
OsKernel -- OsSched -- OsMutex -- OsTime -+- OsSem ---+            +- QueueChannel --> Channel
                                          +- OsQueue -+- MiniRtos -+- CortexTick
                                                                   +- IpcDemo
                                                                   +- OsPort -+- Win32Port
                                                                              +- CortexContext
Lifecycle -- LifecycleProofs   (the kernel outside its runs)
ListLinks --> NodeLists        (the lists the modules above take for sequences)
    +- ListLinksProofs
OsKernelTheory -- MiniRtosProofs -- CallProofs -+- Win32Proofs
                                                +- CortexProofs
                                                +- IpcDemoProofs
```

A line is EXTENDS, an arrow a refinement.

| Module | What it models |
|---|---|
| `OsKernel` | `g_os_kernel` as one record, the constants of `os.h`, the list operations on sequences |
| `OsSched` | `os_sched.c`, the two delay-list operations it calls, `os_KernelValidate` |
| `OsMutex` | `os_mutex.c` and `os_SchedTerminateCurrent` |
| `OsTime` | `os_time.c`: the tick with everything it triggers, delays |
| `OsSem`, `OsQueue` | `os_sem.c`, `os_queue.c` |
| `MiniRtos` | the composition: tasks that make any call in any order while they run, a timer, interrupts that give semaphores; the properties |
| `Channel` | what a queue promises: a bounded FIFO with waiting senders and receivers |
| `QueueChannel` | the refinement mapping from a queue of `MiniRtos` to `Channel` |
| `ListLinks` | `os_list.c`: previous, next and `linked` of each node, head, tail and size of each list |
| `NodeLists` | what `os_list.c` promises: lists are disjoint sequences of nodes, changed at one place at a time |
| `Lifecycle` | `os_Init`, the creation functions and their pools, the Idle task, `os_Start` with a port that may fail, the end of a run, the last-error register |
| `OsPort` | the requests of `os_port.h` and the dispatch the ports share |
| `Win32Port` | the Win32 port: worker threads, mailboxes, phases and gates against the timer and the control thread, from `os_Start` to the end of the run, with system calls that fail |
| `CortexTick` | the tick of the Cortex-M port, interruptible between its accesses to the delay list |
| `CortexContext` | the context switch of the Cortex-M port: SVC, SysTick, PendSV, requests in thread mode and device interrupts |
| `IpcDemo` | `demos/ipc_demo.c`: its three tasks over the kernel |
| `MC...` | constants of the checked instances |
| `OsKernelTheory` | lemmas about the operators of the kernel modules, from loops and lists up to the tick |
| `MiniRtosProofs` | the proofs about `MiniRtos`: containers, waits, deadlines and priorities |
| `CallProofs` | what the ports rely on in the kernel; that queues implement `Channel` |
| `Win32Proofs`, `CortexProofs` | the proofs about `Win32Port` and `CortexContext`, and that the kernel keeps its promises under them |
| `IpcDemoProofs` | the proofs about `IpcDemo` |
| `LifecycleProofs`, `ListLinksProofs` | the proofs about `Lifecycle` and `ListLinks` |

Correspondence with the code. The kernel is a C structure changed by functions that call each other,
so each function is an operator from kernel records to kernel records with the function's name
without `os_`, and each handler is an action that applies the operators the handler calls, in order,
to `kernel`. C loops are functions defined by recursion on the number of iterations made, in the
order the code visits the pool. A list is the sequence of the TCBs on it. The fields that repeat
what membership in a sequence says (`linked`, `wait_list`, `delay_list`, `wait_kind`,
`wait_object`, counts) are not kept twice; `wait_deadline` is the wake tick. The switch trace
(`last_from`, `last_to`, `switch_count`) and names are left out.

A handler is one step because each port makes it one: the Win32 control thread runs requests and
ticks one after the other, the Cortex-M port masks interrupts around a handler. The exception is
the Cortex-M tick, which device interrupts preempt: `CortexTick` splits it where it reads the head
of the delay list, where it pops it and where it decides, and lets `xSemaphoreGiveFromISR` (which
masks interrupts, so is one step) run in between. Operations on a list stay one step there: an
interrupt in the middle of relinking a node is below its grain. `Init` is the state `os_Init` and the
creation calls leave; handles are valid, and the Idle task makes no call but `vTaskYield`, as
`os_IdleTaskEntry` does. A task may call an API only while it is RUNNING, which is when its thread
runs.

`Win32Port` is the grain below that on Windows. A worker's steps are split wherever it stores
something the control thread reads: request (with its parameters), phase, event, gate, phase again,
and the read of the response. The control thread runs at a higher priority than the workers on the
one processor all of them are bound to, so a worker moves only while no event is signalled; the
timer may expire at any moment. The kernel's handlers are the actions of the modules below,
dispatched on the mailbox. A request and the ticks put off during it are steps of the control thread
during which no worker moves. The end of a run (last task gone, `run_ticks` reached, a refused
request, a failed system call) releases all workers, which then run in any order; the five-second
limit of the wait for them may strike at any point. With `CallsFail`, `SuspendThread`, `ResumeThread`,
`SetEvent`, `TlsSetValue` and the waits may fail wherever they are called (but for the release, whose
failures the five-second limit stands for). A worker that fails only clears `running`; the control
thread, which is `asleep` then, finds out at its next event.

`CortexContext` is the same grain on Cortex-M. A context is whose stack it is on and where its code
stands: in the task, before or behind the critical section of `os_port_task_request`, or at its end.
The processor holds one, each TCB's `sp` another. The rules of the processor are assumed: a pending
exception nothing masks is taken before thread code goes on, PendSV before SysTick; those two do not
preempt each other and device interrupts preempt both. The tick is one step here, since
`CortexTick` is about its inside.

`Lifecycle` is the state around a run, and a run is one of its states. A creation call checks the
kernel's state, the arguments and the pool in the order of the code, which decides the status it
leaves. The application keeps its semaphore handles over `os_Init`: gives are the calls that can be
made outside a run. What a run leaves behind of a semaphore is any count, or tasks on its wait list.
A port that cannot start is one step after the Idle task was created.

`ListLinks` has the four operations with the assignments of `os_list.c`. What a caller remembers about
a node (`wait_list`, `delay_list`, its priority's queue) is `holder`; the guards of the operations are
what the kernel's callers test or know, and the code's assertions are a property. `IpcDemo` runs the
tasks' loops call by call over the kernel's actions; between two calls any number of ticks may pass.

Operators whose comment starts with "Mutant:" are wrong versions of the definition they stand
before. They take no part in the specification; each run's properties are sharp enough to tell them
from the code.

## The runs

Four tasks, the Idle task among them, except where said; `OS_MAX_TASKS` is 4.

| Run | Instance | Shows |
|---|---|---|
| `semaphores` | base priorities 1, 1, 2; one binary semaphore; delays 0, 2, 5 and timeouts 0, 1 and for ever; 8 tick values, a slice of two; fairness | each task is in the containers its state calls for, the highest priority runs, no wake-up is lost, deadlines lie ahead in order, delays and waits end in the tick of their deadline, a permit is handed over once; a finite wait ends, and equals share the processor although nobody yields |
| `mutexes` | base priorities 1, 2, 3; two mutexes and a semaphore; delay 1, timeouts 1 and for ever; 4 tick values | exact inheritance through chains and cycles and while an owner waits for something else, ordered wait lists, owners that can still release; the highest priority runs and `os_KernelValidate` accepts every state |
| `queue_is_channel` | base priorities 1, 2, 2; a queue of two slots, two message values | types, no sleeper beside a usable slot, and the refinement of `Channel` |
| `win32_requests` | a low task that gives, a high one that takes for a tick, and Idle; both may end or stop calling; 4 tick values, `run_ticks` 3, at most two ticks pending; any Windows call may fail; fairness | one worker runs, the current task's; no answer and no tick is lost or doubled; a request is refused only in the case under Findings; the run ends, wherever its ticks and its failures find the workers, and leaves none behind |
| `cortex_contexts` | a low task that gives, a high one that takes for a tick or for ever, Idle, and interrupts that give; 4 tick values; fairness | no stack gets into another TCB, thread code is the current task's, no call returns before its wait is over; the processor follows `current`; a finite call of the highest priority returns |
| `lifecycle` | pools of 2 TCBs, 2 semaphores, a queue and a mutex; sizes up to `SIZE_MAX` = 2; two sessions | what a run begins from is sound, there is one Idle task, live handles keep their object, a run needs `os_Init`, old handles are refused |
| `list_links` | five nodes, two lists | links, counts and callers agree, no assertion fails, `os_ListContains` is exact for all its bound, the refinement of `NodeLists` |
| `ipc_demo` | three temperatures, two of them hot; a queue of two; sleeps and work of 1 to 3 ticks; fairness | each hot sample has its alarm at once, the pipeline never stops |
| `preempted_task_keeps_its_turn` | base priorities 1, 1, 2; a semaphore | a counterexample: see Findings |
| `tick_interrupted` | two tasks of one priority and Idle, a semaphore, delays 1 and 2, timeout 1 | a counterexample: see Findings |
| `request_interrupted` | two tasks of one priority, one takes and one gives or delays, and Idle; no limit, no failures | a counterexample: see Findings |
| `tick_put_off_for_ever` | one task that delays and yields, and Idle; no limit; fairness | a counterexample: see Findings |

Every bound is a constant of a `.cfg`: there are no other constraints, the state spaces are finite
because the tick wraps. `MaxPending` is the one artificial bound: the timer of `Win32Port` rests while
two ticks are pending (the one that ends a failed run excepted), which lets the loop that applies them repeat.
`MaxSessions` of `Lifecycle` bounds the calls of `os_Init`: the second is the first that meets handles
and wait lists of an earlier run. Three application tasks are the least that give a chain of two owners, a
middle priority between an owner and a waiter, and two waiters of one object beside a running task.
Two mutexes give chains and the deadlock cycle, and put an index order against a chain order. Eight tick values
in `semaphores`, with deadlines on both sides of the wrap, are enough for the exchange of the
lists to meet every position of a deadline; `OS_MAX_DELAY_TICKS` is half the range less one, as in
the code, and the longer arguments are clamped to it. A queue of two slots has an empty, a full and
a middle state and wraps at both ends. Timeouts include 0, `OS_WAIT_FOREVER` (the largest tick
value) and finite ones. Deadlock is checked: the Idle task can always yield, the timer can always
tick. In `Win32Port` the run may end, so there it is not; `OnlyCurrentRuns` says instead that the current
task's worker can always go on. Five nodes let a list have a middle that is not next to an end, while the other
list is in use; `MaxTasks` there is the number of nodes, so that the bound of `os_ListContains` is met. The
demo's table, times and queue are shortened in proportion: the consumer is slower than the producer, so
the queue fills, and the first sleep lets it be waited for empty.

Fairness. `FairSpec` assumes only that the tick keeps changing, `[]<><<kernel'.tick # kernel.tick>>_vars`:
once started, the port's timer is always enabled and is hardware or a Windows timer, so this is weak
fairness of `Start` and `Timer` written without ENABLED. No task is assumed to do anything:
`EqualsShareProcessor` holds even if the running task loops for ever, since the slice takes the
processor from it.

`FairPortSpec` (Windows) assumes that the timer keeps expiring, that the control thread, which nothing
outranks, deals with what it waits for (weak fairness), and that a worker that is let go again and
again gets through the port's own code (strong fairness: each tick may suspend it for a while). No
task is assumed to make another call or to return. `FairContextSpec` (Cortex-M) assumes that
exceptions are taken and SysTick keeps expiring, and, strongly again, that the code around a request
goes on between them and that thread
code is reached again and again: the handlers together are shorter than a tick, and without that no task
would ever run. `FairDemoSpec` adds to the
tick that a task of the demo that has the processor again and again makes its next call, once the work
before it is done.

### What the properties say

* `ContainersExact`: ready queues, wait lists and delay lists hold exactly the tasks whose state
  calls for it, once each, the bitmap is the set of non-empty queues, and RUNNING is `current`.
  `KernelValid` is the code's own sample of this, `os_KernelValidate`.
* `HighestPriorityRuns`: after every handler, no READY task outranks the running one.
* `WaitListsOrdered`, `InheritanceExact`: priority order of waiters, and effective priorities equal
  to a reference definition over the wait graph (reachability, not the code's passes).
* `NoLostWakeup`, `OwnersCanRelease`: relations between a resource and its wait list or owner.
* `DeadlinesAhead`, `WakesExactlyOnTime`: the delay lists around the wrap, and which step ends a wait.
* `DirectHandoff`: a wait that returns OK ends with the object in hand.
* `QueueIsChannel`: refinement of `Channel` by queue 0, its wait lists, and the tasks' buffers and results. A task has
  one result and the model gives it one buffer, so where there are other objects (`Shared`) the channel only
  says what its own calls and waiting clients find there.
* `FiniteWaitsEnd`, `EqualsShareProcessor`: liveness.
* `OnlyCurrentRuns`, `OpenGateIsAnAnswer`: the threads Windows may run are those the kernel says run,
  and no gate is opened ahead of the request it answers.
* `ResponsesMatch`, `TicksAccounted`: answers and ticks survive suspension and postponement.
* `NobodyLeftBehind`: the release at the end of a run strands no worker.
* `RefusedOnlyBetweenStores`: the failure under Findings is the only one the protocol has, as long as
  Windows does what it is asked.
* `RunIsOver`: liveness of the end of a run, at its limit and after a failure.
* `ContextsOwned`, `ThreadIsCurrent`: PendSV saves into the TCB of the owner of PSP and nothing of a task's
  code runs between the loss of the processor and the switch.
* `FiniteCallsReturn`: finite calls return; a deadline that equals the value for "no deadline"
  (`os_sched.c:375`) is still kept.
* `CallsReturnWhenOver`, `SwitchIsTaken`: `os_port_task_request` reads its status only after the switch,
  and the switch comes.
* `ConfigurationSound`, `OneIdle`, `LiveHandles`, `RunNeedsInit`, `StaleHandlesRefused`: the life cycle. The
  first is also what `MiniRtos` takes for granted in `Init`.
* `LinksRepresent`, `AssertsHold`, `ContainsExact`, `ListsAreSequences`: the lists.
* `AlarmForEveryHotSample`, `PipelineMoves`: the demo, end to end: a binary semaphore
  whose give may be refused, and waits for ever at both ends of a queue.

## Findings

`docs/design.md:402` says that tasks of equal priority rotate only when the slice ends, on a yield or
when the current task blocks. `os_SchedSchedule` (`os_sched.c:215-217`) puts a task preempted by a
higher priority at the *tail* of its ready queue, so its equals overtake it although its slice is not
over, and it starts a new slice when it runs again. The run `preempted_task_keeps_its_turn` shows
it: two tasks of priority 1, a semaphore given from an interrupt to a task of priority 2.

On Cortex-M, `os_TimeTick` reads the head of the delay list (`os_time.c:139`), finds it due, and pops
the head (`os_time.c:147`), with interrupts enabled. If an interrupt gives the semaphore that the head
task waits for in between, `os_WaitMakeReady` takes that task off the list, and the pop removes the
*next* task, which has not been woken and is on no list any more: it sleeps for ever, against the
fourth invariant of `docs/design.md:428`. The run `tick_interrupted` shows it in nine steps: one task
delays, another waits for a semaphore with a timeout of one tick, the tick finds the waiter due, the
interrupt gives, the tick pops the delayed task. Masking interrupts in `SysTick_Handler`, as
`os_port_task_request` does, would remove it.

On Windows, `os_port_task_request` stores its request (`os_port_win32.c:198`) before it leaves phase
USER (`os_port_win32.c:199`), and the phase alone tells the control thread whether it may suspend the
worker. A tick between the two stores suspends it with a full mailbox. The next task to make a
request makes two full mailboxes, where `os_PortFindRequester` expects "the only" one
(`os_port_win32.c:358`); it takes the lower slot, and if that is the suspended worker's, the request
does not come from the current task and the whole run fails. The run `request_interrupted` shows the
two mailboxes; `RefuseRequest` shows in `win32_requests` that the failure follows, and
`RefusedOnlyBetweenStores` that nothing else leads to it. Storing the phase first would close the
window.

Also on Windows, a tick that comes while the current worker is in phase REQUEST is counted in
`pending_ticks` (`os_port_win32.c:491-495`), and only the end of a request applies what was counted
(`os_port_win32.c:464-467`). The phase is still REQUEST after the answer, until the worker has passed its
gate. A tick in that moment waits for the *next* request of any task, against the comment at
`os_port_win32.c:483-484`; if the tasks compute without calls, it waits for ever and kernel time stays
behind, although later ticks advance it. The run `tick_put_off_for_ever` shows it. Applying
`pending_ticks` in `os_PortProcessTimer` as well would remove it.

Two more divergences have no run of their own. A tick may suspend a worker after it has stored the
response BAD_STATE of a call without an answer (`os_port_win32.c:194`) and before it stores phase
REQUEST (`os_port_win32.c:199`). `os_PortActivate` resumes it with the response of its *previous* call
(`os_port_win32.c:284`). If the run ends before the kernel answers the new call, that status is what
the call returns; it may be OK, which by `include/os.h:67` says that the operation succeeded, for an
object the task has not got. `Win32Port` has these behaviours; `ResponsesMatch` is about the answers of
the kernel, given while the port runs. And `include/os.h:131` says that `osGetLastError` returns the
status of the latest public creation or operation call, but only the creation functions store it
(`os_SetLastError`, `os_api.c:20`), which `Lifecycle` has as `lastError` beside `answer`.

## The proofs

TLAPS checks the theorems below from the assumptions on the constants alone:

* `OsKernelAssumption`, `OsSemAssumption`, `OsQueueAssumption`, `MiniRtosAssumption`: what the creation
  functions accept.
* `OsPortAssumption`: each task may make some of the calls of `os.h`; there is an Idle task, which
  makes no call but `vTaskYield`. `os_Start` sees to the one (`os_EnsureIdleTask`, `os_api.c:32`), the body of
  `os_IdleTaskEntry` is the other (`os_task.c:32`).
* `LifecycleAssumption`: pool sizes and limits are numbers.
* `ListLinksAssumption`: nodes and lists are finitely many, and there are no more nodes than
  `OS_MAX_TASKS`. A TCB has one node of each kind, and a list has nodes of one kind only.
* `IpcDemoAssumption`: the numbers of `ipc_demo.c`. Four tasks with the priorities Alarm over Sensor over Process over
  Idle, one binary semaphore that starts empty, one queue, no mutex, a table with at least two hot values; the demo's
  own delays and waits are among the calls `MiniRtos` allows. The table, the times and the size of the queue are
  free.

### The kernel

* `MiniRtosProofs!TypeCorrect`: `Spec => []TypeOK` for every number of tasks, priorities, objects,
  every capacity and every width of the tick.
* `MiniRtosProofs!ListsMatchStates`, `WaitListsServeByPriority`, `NoWakeupIsLost`, `MutexesCanBeReleased`,
  `NothingIsOverdue`: the invariants `ContainersExact`, `WaitListsOrdered`, `NoLostWakeup`,
  `OwnersCanRelease` and `DeadlinesAhead` of `Spec`.
* `MiniRtosProofs!WaitsEndOnTime` and `ObjectsAreHandedOver`: the action properties `WakesExactlyOnTime` and
  `DirectHandoff` of `Spec`.
* `MiniRtosProofs!HighestAlwaysRuns`, `PrioritiesAreInherited`, `ValidationPasses`: the invariants
  `HighestPriorityRuns`, `InheritanceExact` and `KernelValid` of `Spec`.

`TypeOK` alone is not inductive. `os_ReadyPopHighest` takes the head of the queue that the bitmap
points at: if a set bit could stand for an empty queue, the next `current` would be no task at all.
The invariant is therefore `TypeInv`: the kernel record is well typed *and* its bitmap is exactly
the set of non-empty queues, with the counts within their maxima and the rings inside their
storage. `OsKernelTheory` proves for each operator that it keeps a kernel record in that set, one lemma
per operator; `MiniRtosProofs` adds the initial state and one case per action. The model's loops are
recursive functions, so their values are obtained in three steps: a function satisfying the
recursion exists (`OsKernelTheory!LoopExists`, proved by gluing finite prefixes), so the one the
definition chooses satisfies it, and every iteration keeps the invariant (`LoopInduction`).

The properties of containers, waits and deadlines rest on one inductive invariant, `SafeInv`, which is
`TypeInv`, `KernelInv` and `Supplies`. None of the properties is inductive alone, and each part is there
because a step of another needs it:

* `Sound`: every list holds exactly the tasks whose state and `waitOn` call for it, once each, wait lists
  are ranked by effective priority, and only `current` is RUNNING. The handlers break it in the middle: a
  task popped from a wait list is on no list until it is made ready. So the lemmas of `OsKernelTheory`
  are about `Consistent(k, loose)`, where `loose` are the tasks on the move, one lemma per operator.
* `Deadlines(k, first)`: the delay lists are sorted, the list of the period lies between `first` and the
  wrap, the other before the tick. `first` is the next tick between handlers and the tick itself while the
  tick's loop runs; that the list of an old period is empty at the wrap follows.
* `CanRelease` and that a mutex without an owner has no waiter: an owner has not ended and does not wait
  for what it owns, so an unlock can hand over, and nobody sleeps beside a free mutex.
* that nothing runs before `os_Start`, and `Supplies`, which relates counts and rings to wait lists.

For the action properties the lemmas also say what becomes of each task. `Kept` leaves a task alone, `Ended` and
`TimedOut` are the two ways a wait ends, and `Handled(k, r, joined, granted)` says of a whole handler that
each task is kept or leaves in one of those ways, who newly waits for what, who was granted what and to whom
each mutex went. There is one `Handled` lemma per handler; `EveryStep` collects them, and both action properties follow
from it and `SafeInv` without another look at the code. TLC had checked `SafeInv` on the instances of
`semaphores` and `mutexes` before it was proved.

`PriorityInv` carries the priorities; every action keeps `SafeInv` and `PriorityInv` together.

* `Exactly`: each effective priority is the inherited one. The reference is a wait graph, which leads from
  each task to those that wait directly for one of its mutexes: `Held(R, t)` is the least set that contains
  `t` and is `Closed` under it, and `Inherited(d, R)` says that `d[t]` is attained in it and bounds it. The
  code computes this by passes over the mutex pool, in each of which an owner is raised to the highest of its
  waiters, `OS_MAX_TASKS` times. That is enough in whatever order a chain meets the pool: a pass carries a
  priority at least one wait further, and no chain is longer than the number of tasks. The lemmas compare
  graphs (a task that stops waiting takes away an edge, a lock adds one, an unlock moves some), so the
  handlers that recompute nothing are covered by `SameWaits`, and those that recompute by
  `MutexWaitersChangedInherits`.
* `Highest`: no READY task outranks the one that runs. It breaks whenever a priority is changed or a task made
  ready, and `os_SchedSchedule` or the pending switch of a critical section restores it. The switch
  is carried out only when the nesting count falls to zero, so `nesting = 0` between handlers is part of the
  invariant: with a count left over, a give would put its switch off for ever.
* `IdleApart`: the Idle task is ready or runs and owns no mutex. So there is always somebody to pop, and
  no handler ends without a current task.

`ValidationPasses` then unfolds `os_KernelValidate` and finds each of its tests in the invariants.

### The queues

* `CallProofs!QueueImplementsChannel`: `QueueIsChannel`, whenever there is a queue; `QueuesAreChannels`: the same
  of every queue, beside any number of other objects, for every capacity and set of messages.

The invariant is `SafeInv` and `RingsAgree`: the tail of a ring is the slot behind the last message that is
counted. Without it a send could overwrite a message that is still to be read. `PutAppends` and `TakeRemovesHead` show
that `os_QueueSnapshot` of a ring is a sequence to which a send appends and from which a receive takes the
head, across the end of the storage. A call of the queue is then an operation of the channel (`QueueCallIsCall`),
one case per branch of the handler. `Supplies` rules out the states in which a branch would be another
operation: a receiver that is handed a message finds the ring empty, so nothing overtakes. Any other step leaves the
ring alone and serves no waiter of the queue (`EveryStep`, `OtherStep`); what it may do is let waits run out, several
in one tick, with TIMEOUT and with the buffer untouched (`OtherStepIsAbstract`). That a task's result stays
when others call is `Calm`, which the ports need as well.

### The ports

* `Win32Proofs!PortTypeCorrect`, `OneTaskAtATime`, `GatesAreAnswers`, `EverybodyIsReleased`,
  `RequestsAreServed`: the invariants `PortTypeOK`, `OnlyCurrentRuns`, `OpenGateIsAnAnswer`,
  `NobodyLeftBehind` and `RefusedOnlyBetweenStores` of `PortSpec`.
* `Win32Proofs!CallsReturnOwnResult` and `NoTickIsLost`: the action properties `ResponsesMatch` and
  `TicksAccounted` of `PortSpec`.
* `CortexProofs!ContextsStayWithOwners` and `ThreadFollowsKernel`: the invariants `ContextsOwned` and
  `ThreadIsCurrent` of `ContextSpec`.
* `CortexProofs!CallsReturnTheirOutcome`: the action property `CallsReturnWhenOver` of `ContextSpec`.
* `Win32Proofs!KernelHoldsOnWindows`, `CortexProofs!KernelHoldsOnCortex`: all invariants of the kernel (`KernelPromises`)
  hold in every state of a port, on Windows until the run is over.
* `Win32Proofs!WindowsRunsKernel`: until the run is over, every step of the Windows port is a step of the kernel's
  specification or leaves the kernel alone, and no wait ends too early, too late or without its object.
* `CortexProofs!WaitsEndOnCortex`: the action properties `WakesExactlyOnTime` and `DirectHandoff` under `ContextSpec`. The
  Cortex-M port also leaves a status to a task that yields (`os_port_cortex_m.c`), which the kernel's
  specification does not know, so this is shown of the steps (`KernelSteps`, `YieldEndsNothing`) and not as a
  refinement. It is about ticks that run in one piece: `tick_interrupted` shows what another interrupt in the middle of a
  tick does.

They hold for every number of tasks, whatever the tasks ask for, wherever the timer or an interrupt finds
them and, on Windows, whichever system call fails. `CallProofs` first shows that the dispatch of a request
is a step of the kernel's specification (`RequestIsStep`), so `SafeInv` and `PriorityInv` hold under a port
too, that only the tick advances the time, and that a handler leaves a current task, keeps who has ended ended
and results well typed (`Carries`).

The Windows invariant `PortInv` is a statement about each slot and one about whose turn it is. `Fits` ties a
worker's place in the protocol to its phase, gate, mailbox and response: the mailbox is full from the store of
the request until it is served, the gate opens only for a worker that waits, a response is the kernel's
result wherever it can be read. `AtTurn` says of the slot of the current task that it is at its gate with a request while
the control thread has one to serve, and on its way or let go while there is none; every other worker is
`Halted`. It is all demanded only while `running` is set (`Protocol`): a failing call may leave anything
behind, and then `StageInv` says that the control thread is on its way to release everybody, and
`CanFinish` that a released worker does not wait for anyone. `TickInv` bounds what is put off. `TicksAccounted`
needs the clock lemmas: a request takes no time, each tick exactly one.

On Cortex-M, `ContextFits` says of each context, wherever it is kept, that it is its owner's, between or within
its calls, and that it is behind an exit only when its task has ended. `RunInv` adds that PSP belongs to the current task
unless PendSV is pending or being served. That is what every exception has to keep: the tick and an interrupt
may change `current` several times before PendSV runs, and a give that asks for no switch must not have changed it
(`HighestStays`, from `Highest`).

What a call returns is a matter of the time between its handler and the switch back to its task, in which
anything else may run. `Calm(k, r, u)` says what a handler or a tick does to a task that did not ask for it: it
still waits and got no new deadline, or its wait ended with `OK`, or with `TIMEOUT` if it had a deadline, or the status of
its finished call is kept. `Spares` is that for everybody but the caller, at the same time. It is shown for each
part of a handler (`SparesFollow` composes them) and so for every request, tick and interrupt. By
`Outcome` and `OutcomeStays` a context behind its handler is blocked in its call or finds the outcome of it
(`OutcomeInv`), and only the task that is current and not blocked returns.

### The demo

* `IpcDemoProofs!AlarmIsHandled`: the invariant `AlarmForEveryHotSample` of `DemoSpec`, for every table, every queue, all
  times and every width of the tick.
* `IpcDemoProofs!SamplesInOrder`: when the process task begins to work, what it works on is the value of the table
  that is next, none lost, doubled or overtaken, wherever the queue filled or ran empty before.
* `IpcDemoProofs!DemoIsApplication`: `DemoSpec => Spec`. The demo is one of the applications `MiniRtos` is about, so all
  theorems about the kernel are about it too.

`AlarmForEveryHotSample` compares two counters at one place of one task, and what keeps them together is spread over
three tasks, a ring and a semaphore. The inductive invariant `DemoInv` says what that is:

* `Standing`: where each task's code stands agrees with its state and with what it waits for, no wait of the demo has
  a deadline but the sensor's sleep, no permit is ever counted, and the alarm task has no place where it
  sleeps, so whenever it does not wait for the semaphore it is ready or runs.
* `Pipeline`: the readings that have been taken and not yet worked on are, in the table's order, the one in the hand of
  the process task, those in the ring, and the one in the buffer of a sensor that is blocked on a full ring.
* `Ledger`: alarms run and alarms still owed make up the hot values worked on, modulo the number of hot values.

That the give finds the alarm task waiting is where the scheduler comes in (`AlarmStandsBy`): nobody inherits without
mutexes, so the process task runs only when the alarm task, of higher base priority, is not ready (`Highest`). The
binary semaphore therefore never refuses a give. Steps of the demo's tasks are followed one by one
(`SensorSent`, `ProcessReceived`, `ProcessGave`, `AlarmTook`); ticks, and what a step does to the other two tasks,
follow from the fates of a step and from `Calm`. TLC had checked `DemoInv` on the instance of `ipc_demo`.

### Life cycle and lists

* `LifecycleProofs!IdleIsUnique`, `OneRunPerSession`, `RunsBeginSound`, `HandlesLeadToTheirObjects`,
  `OldHandlesAreRefused`: the invariants `OneIdle`, `ConfigurationSound`, `LiveHandles` and the action
  properties `RunNeedsInit`, `StaleHandlesRefused` of `LifeSpec`, for pools of any size and any number of sessions.
* `ListLinksProofs!NoAssertFails`, `ListsReadBothWays`, `SearchIsExact`: the invariants `AssertsHold`,
  `LinksRepresent` and `ContainsExact` of `ListSpec`, for any nodes and lists.
* `ListLinksProofs!LinksAreSequences`: `ListSpec => ListsAreSequences`, the refinement of `NodeLists`.

`OneIdle` looks at the pool and the pointer to the Idle task; what keeps it through a call is also the
kernel's state. `StartInv` adds that a remembered Idle task belongs to an initialized
kernel (so `os_Start` cannot get past a kernel that never saw `os_Init`) and that a session which had
its run stays started, which is what refuses a second run. `LifeInv` is `StartInv` with `ReadyInOrder` (before a run each
ready queue holds the tasks of its priority in the order of their creation), `ObjectInv` (counts within maxima, and
a queue's storage no larger than `SIZE_MAX`, which is where the check against the overflow of
the product comes in) and `HandleInv`: a handle names a slot of its pool, two handles of one session differ, and a
handle of this session leads to the object it was returned for. A run may leave any count behind, and nothing of
that survives `os_Init`.

`AssertsHold` speaks of the node an operation is about, and an operation changes its neighbours.
`LinkInv` therefore says of every node that its neighbours are on the same list and point back, that
it is without a predecessor exactly when it is the head of the list its caller names (and the same at the
tail), that its flag agrees with its caller, and of every list that it counts its nodes. That is local and
no sequence has to be found. But it also admits one sequence beside a ring, so the refinement rests on
`ChainInv`, which adds that each list is represented by a sequence and that a node on no list points nowhere. A step is an
`Append`, an `InsertAt` or a `RemoveAt` of that sequence, shown place by place (`PushBackAppends`,
`InsertBeforePutsIn`, `RemoveTakesOut`), and leaves the other lists' sequences alone (`OthersStay`). The refinement
mapping follows `next` from the head by recursion on the number of nodes passed; `WalkIsSequence` shows that
this walk is the sequence, since two functions that satisfy the same recursion agree at every number.

### Only model-checked

* Liveness, which is outside the prover (no reasoning with fairness and ENABLED): `FiniteWaitsEnd`,
  `EqualsShareProcessor`, `RunIsOver`, `SwitchIsTaken`, `FiniteCallsReturn`, `PipelineMoves`.

The four counterexamples under Findings are TLC's, as is what a recursion computes for all data where it is no
loop over the pool.


## Not modelled

* The switch trace (`last_from`, `last_to`, `last_reason`, `switch_count`), the observer and its console
  dashboard: nothing in the kernel reads what they record.
* Names, and stacks beyond whether a stack argument is acceptable.
* A context switch requested from outside the Windows workers (`os_port_pend_context_switch`): only
  `xSemaphoreGiveFromISR` requests one, and nothing in the repository calls that on Windows.
* What a failing release of a Windows worker leaves behind once the five-second limit has passed:
  threads of which the port holds no handle any more.
* Operations other than gives through handles of an earlier session: they are refused outside a run, and
  in a run they would name an object of the new session or a free slot, which the code refuses.
* Registers and stack contents on Cortex-M, and the processor's rules beyond those assumed above.
* The preemption demo: two tasks that compute and one that delays, which `semaphores` covers with tasks that
  may do either. The tests and the build.
