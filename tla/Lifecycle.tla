------------------------------- MODULE Lifecycle -------------------------------
(***************************************************************************)
(* The kernel before, between and after its runs: os_Init, the creation    *)
(* functions and their pools, the Idle task, os_Start with a port that may *)
(* fail, the end of a run, and the last-error register.  What happens      *)
(* during a run is the subject of MiniRtos and of the port modules; here a *)
(* run is one state.  A creation call checks, in the order of the code,    *)
(* the state of the kernel, the arguments and the pool.                    *)
(***************************************************************************)
EXTENDS Integers, SequencesExt

CONSTANTS
    MaxTasks, MaxSemaphores, MaxQueues, MaxMutexes,     \* the pools' sizes
    PriorityCount,      \* OS_PRIORITY_COUNT
    SizeMax,            \* SIZE_MAX
    Counts, Sizes,      \* arguments of the semaphore and of the queue calls
    MaxSessions         \* a bound: calls of os_Init

VARIABLES
    initialized, started,
    tasks,              \* the priorities of the TCBs in use, in pool order
    ready,              \* the ready queues, of pool indices
    idle, current,      \* g_idle_task and the running task, as pool indices
    semaphores, queues, mutexes,
    lastError,          \* g_last_error
    answer,             \* what the latest creation or operation call returned
    run,                \* where os_Start stands: "none", "running" or "over"
    session,            \* os_Init calls so far
    lastRun,            \* the session of the latest run
    handles             \* the object handles the application holds

IdlePriority == 0
Priorities == 0 .. PriorityCount - 1
NoTask == -1

ASSUME LifecycleAssumption ==
    /\ {MaxTasks, MaxSemaphores, MaxQueues, MaxMutexes, SizeMax, MaxSessions} \subseteq Nat
    /\ PriorityCount \in Nat /\ PriorityCount > 1
    /\ Counts \subseteq Nat /\ Sizes \subseteq 0 .. SizeMax

\* A slot of each pool after os_Init.  `left' says that tasks of a finished run
\* still hang on the wait list: os_KernelStopAll empties the scheduler's lists only.
FreeSemaphore == [used |-> FALSE, count |-> 0, maximum |-> 0, left |-> FALSE]
FreeQueue == [used |-> FALSE, capacity |-> 0, itemSize |-> 0]
FreeMutex == [used |-> FALSE]
FreeSemaphores == [i \in 0 .. MaxSemaphores - 1 |-> FreeSemaphore]
FreeQueues == [i \in 0 .. MaxQueues - 1 |-> FreeQueue]
FreeMutexes == [i \in 0 .. MaxMutexes - 1 |-> FreeMutex]

pools == <<semaphores, queues, mutexes>>
taskVars == <<tasks, ready, idle, current>>
stage == <<initialized, started, run, session, lastRun>>
lifeVars == <<stage, taskVars, pools, lastError, answer, handles>>

\* The program before its first call: static storage.
LifeInit ==
    /\ initialized = FALSE /\ started = FALSE /\ run = "none"
    /\ session = 0 /\ lastRun = 0
    /\ tasks = <<>> /\ ready = [p \in Priorities |-> <<>>]
    /\ idle = NoTask /\ current = NoTask
    /\ semaphores = FreeSemaphores /\ queues = FreeQueues /\ mutexes = FreeMutexes
    /\ lastError = "OK" /\ answer = "OK" /\ handles = {}
-------------------------------------------------------------------------------
\* Mutant: the semaphores of the last session stay in use.
ObjectsResetKeepsSemaphores ==
    /\ queues' = FreeQueues /\ mutexes' = FreeMutexes /\ UNCHANGED semaphores

\* os_SemKernelReset, os_QueueKernelReset and os_MutexKernelReset
ObjectsReset == semaphores' = FreeSemaphores /\ queues' = FreeQueues /\ mutexes' = FreeMutexes

\* os_Init, outside a run.  The last-error register survives it, and so do the
\* application's handles.  Those of semaphores are kept: with the others there is no
\* call outside a run, and none of them is used in one here.
OsInit ==
    /\ run # "running" /\ session < MaxSessions
    /\ session' = session + 1
    /\ initialized' = TRUE /\ started' = FALSE /\ run' = "none"
    /\ tasks' = <<>> /\ ready' = [p \in Priorities |-> <<>>]
    /\ idle' = NoTask /\ current' = NoTask
    /\ ObjectsReset
    /\ handles' = {h \in handles : h.kind = "semaphore"}
    /\ UNCHANGED <<lastRun, lastError, answer>>
-------------------------------------------------------------------------------
(* Creation *)

\* The status of a creation call with `sound' arguments, when there is `room'.
CreationStatus(sound, room) ==
    IF ~initialized \/ started THEN "BAD_STATE"
    ELSE IF ~sound THEN "INVALID_ARGUMENT"
    ELSE IF ~room THEN "LIMIT_REACHED" ELSE "OK"

\* The call returns, and its status goes into the register.
Answers(status) == lastError' = status /\ answer' = status

Free(pool) == {i \in DOMAIN pool : ~pool[i].used}

\* Mutant: the search stops one slot early.
FirstFreeOrLast(pool) == Max({Min(Free(pool)) - 1, 0})

\* The first unused slot of a pool, as the creation loops find it.
FirstFree(pool) == Min(Free(pool))

\* The application keeps the handle, with what it asked for.
Keeps(kind, slot, object) ==
    handles' = handles \cup {[kind |-> kind, slot |-> slot, session |-> session,
                              object |-> object]}

RoomForTask == Len(tasks) < MaxTasks

\* os_TaskCreateInternal's answer.  `sound' stands for its tests of pointers, name and
\* stack size, `stack' for os_port_stack_init's, which comes after the one for room.
TaskStatus(priority, isIdle, sound, stack) ==
    LET status == CreationStatus(
            sound /\ priority < PriorityCount /\ (isIdle \/ priority > IdlePriority),
            RoomForTask)
    IN IF status = "OK" /\ ~stack THEN "INVALID_ARGUMENT" ELSE status

AddTask(priority) ==
    /\ tasks' = Append(tasks, priority)
    /\ ready' = [ready EXCEPT ![priority] = Append(@, Len(tasks))]

\* xTaskCreate
CreateTask(priority, sound, stack) ==
    LET status == TaskStatus(priority, FALSE, sound, stack) IN
    /\ Answers(status)
    /\ IF status = "OK" THEN AddTask(priority) ELSE UNCHANGED <<tasks, ready>>
    /\ UNCHANGED <<stage, idle, current, pools, handles>>

\* xSemaphoreCreateCounting
CreateSemaphore(maximum, initial) ==
    LET status == CreationStatus(maximum # 0 /\ initial <= maximum, Free(semaphores) # {})
        slot == FirstFree(semaphores)
        made == [FreeSemaphore EXCEPT !.used = TRUE, !.count = initial, !.maximum = maximum]
    IN /\ Answers(status)
       /\ IF status = "OK"
          THEN semaphores' = [semaphores EXCEPT ![slot] = made] /\ Keeps("semaphore", slot, made)
          ELSE UNCHANGED <<semaphores, handles>>
       /\ UNCHANGED <<stage, taskVars, queues, mutexes>>

\* Mutant: the product is compared after it has wrapped.
StorageFitsWrapped(length, itemSize) == (length * itemSize) % (SizeMax + 1) <= SizeMax

\* The size of the storage, by which a slot's address is computed, does not wrap.
StorageFits(length, itemSize) == itemSize <= SizeMax \div length

\* xQueueCreate; `given' tells whether there is a storage.
CreateQueue(length, itemSize, given) ==
    LET sound == given /\ itemSize # 0 /\ length # 0 /\ StorageFits(length, itemSize)
        status == CreationStatus(sound, Free(queues) # {})
        slot == FirstFree(queues)
        made == [used |-> TRUE, capacity |-> length, itemSize |-> itemSize]
    IN /\ Answers(status)
       /\ IF status = "OK"
          THEN queues' = [queues EXCEPT ![slot] = made] /\ Keeps("queue", slot, made)
          ELSE UNCHANGED <<queues, handles>>
       /\ UNCHANGED <<stage, taskVars, semaphores, mutexes>>

\* xMutexCreate
CreateMutex ==
    LET status == CreationStatus(TRUE, Free(mutexes) # {})
        slot == FirstFree(mutexes)
        made == [used |-> TRUE]
    IN /\ Answers(status)
       /\ IF status = "OK"
          THEN mutexes' = [mutexes EXCEPT ![slot] = made] /\ Keeps("mutex", slot, made)
          ELSE UNCHANGED <<mutexes, handles>>
       /\ UNCHANGED <<stage, taskVars, semaphores, queues>>
-------------------------------------------------------------------------------
(* Operations outside a run *)

\* A task-context call: every port refuses it, since no task makes it.
Operate ==
    /\ run # "running"
    /\ answer' = "BAD_STATE"
    /\ UNCHANGED <<stage, taskVars, pools, lastError, handles>>

\* What a give finds at the slot of its handle, whose session may be over.
GiveStatus(s) ==
    IF ~(s.used /\ s.maximum > 0 /\ s.count <= s.maximum) THEN "INVALID_ARGUMENT"
    ELSE IF ~s.left /\ s.count = s.maximum THEN "LIMIT_REACHED" ELSE "OK"

\* xSemaphoreGiveFromISR.  A task left on the list by a run takes the permit with
\* it: it is unlinked and, being TERMINATED, not made ready; the ones behind it are
\* lost with its links.
GiveFromISR(h) ==
    LET s == semaphores[h.slot] IN
    /\ run # "running" /\ h.kind = "semaphore"
    /\ answer' = GiveStatus(s)
    /\ semaphores' =
          IF GiveStatus(s) # "OK" THEN semaphores
          ELSE IF s.left THEN [semaphores EXCEPT ![h.slot].left = FALSE]
          ELSE [semaphores EXCEPT ![h.slot].count = @ + 1]
    /\ UNCHANGED <<stage, taskVars, queues, mutexes, lastError, handles>>
-------------------------------------------------------------------------------
(* os_Start and the end of a run *)

\* Mutant: the pointer to the Idle task is not looked at.
IdleMissingAlways == TRUE

IdleMissing == idle = NoTask

\* os_EnsureIdleTask
IdleStatus == IF IdleMissing THEN TaskStatus(IdlePriority, TRUE, TRUE, TRUE) ELSE "OK"

EnsureIdle ==
    IF IdleMissing THEN AddTask(IdlePriority) /\ idle' = Len(tasks)
    ELSE UNCHANGED <<tasks, ready, idle>>

\* There is no Idle task and none can be made, or the kernel has started before.
StartRefused ==
    /\ run # "running"
    /\ IdleStatus # "OK" \/ started
    /\ answer' = IF IdleStatus # "OK" THEN IdleStatus ELSE "BAD_STATE"
    /\ UNCHANGED <<stage, taskVars, pools, lastError, handles>>

\* The port cannot make its threads, events or timer: the Idle task stays.
StartFails ==
    /\ run # "running" /\ IdleStatus = "OK" /\ ~started
    /\ EnsureIdle
    /\ answer' = "BAD_STATE"
    /\ UNCHANGED <<stage, current, pools, lastError, handles>>

\* The port has what it needs; os_SchedStart takes the first task of the highest
\* priority, counting the Idle task that os_EnsureIdleTask may have just added.
StartRuns ==
    LET queue == IF IdleMissing THEN [ready EXCEPT ![IdlePriority] = Append(@, Len(tasks))]
                 ELSE ready
    IN /\ run # "running" /\ IdleStatus = "OK" /\ ~started
       /\ run' = "running" /\ started' = TRUE /\ lastRun' = session
       /\ IF IdleMissing THEN tasks' = Append(tasks, IdlePriority) /\ idle' = Len(tasks)
          ELSE UNCHANGED <<tasks, idle>>
       /\ \E p \in Priorities :
             /\ queue[p] # <<>> /\ \A q \in Priorities : q > p => queue[q] = <<>>
             /\ current' = Head(queue[p])
             /\ ready' = [queue EXCEPT ![p] = Tail(@)]
       /\ UNCHANGED <<initialized, session, pools, lastError, answer, handles>>

\* What a run leaves of a semaphore: any count, or tasks on its wait list.
AfterRun(s) ==
    IF ~s.used THEN {s}
    ELSE {[s EXCEPT !.count = c, !.left = FALSE] : c \in 0 .. s.maximum}
         \cup {[s EXCEPT !.count = 0, !.left = TRUE]}

\* Mutant: the kernel may be started again.
StartedAfterRunCleared == FALSE

\* os_KernelStopAll leaves `started' set, so that os_Init has to come first.
StartedAfterRun == TRUE

\* The run ends, with or without a failure: os_KernelStopAll, and os_Start returns.
RunEnds ==
    /\ run = "running" /\ run' = "over"
    /\ started' = StartedAfterRun
    /\ ready' = [p \in Priorities |-> <<>>] /\ current' = NoTask
    /\ answer' \in {"OK", "BAD_STATE"}
    /\ semaphores' \in {f \in [DOMAIN semaphores -> UNION {AfterRun(semaphores[i]) : i \in DOMAIN semaphores}] :
                          \A i \in DOMAIN semaphores : f[i] \in AfterRun(semaphores[i])}
    /\ UNCHANGED <<initialized, session, lastRun, tasks, idle, queues, mutexes, lastError, handles>>
-------------------------------------------------------------------------------
LifeNext ==
    \/ OsInit
    \/ \E p \in Priorities \cup {PriorityCount}, sound, stack \in BOOLEAN : CreateTask(p, sound, stack)
    \/ \E maximum, initial \in Counts : CreateSemaphore(maximum, initial)
    \/ \E length, itemSize \in Sizes, given \in BOOLEAN : CreateQueue(length, itemSize, given)
    \/ CreateMutex
    \/ Operate
    \/ \E h \in handles : GiveFromISR(h)
    \/ StartRefused \/ StartFails \/ StartRuns \/ RunEnds

LifeSpec == LifeInit /\ [][LifeNext]_lifeVars
-------------------------------------------------------------------------------
(* Properties *)

\* Until it is started, an initialized kernel is what a run may begin with,
\* whatever calls were made and refused (and what MiniRtos takes for its initial
\* state): the tasks queue in the order of their creation, semaphores have counts
\* within a positive maximum and nobody on their lists, and the size of a queue's
\* storage is a size.
ConfigurationSound ==
    initialized /\ ~started =>
        /\ \A p \in Priorities :
              /\ ToSet(ready[p]) = {i \in 0 .. Len(tasks) - 1 : tasks[i + 1] = p}
              /\ \A a, b \in DOMAIN ready[p] : a < b => ready[p][a] < ready[p][b]
        /\ \A i \in DOMAIN semaphores : LET s == semaphores[i] IN
              s.used => s.maximum > 0 /\ s.count \in 0 .. s.maximum /\ ~s.left
        /\ \A i \in DOMAIN queues : LET q == queues[i] IN
              q.used => q.capacity > 0 /\ q.itemSize > 0 /\ q.capacity * q.itemSize <= SizeMax

\* However often os_Start is refused, fails in the port or is called again, the
\* kernel has at most one task of the Idle priority, the one it remembers; and a run
\* always has it, in a TCB of the pool, so the scheduler always finds a task.
OneIdle ==
    /\ Len(tasks) <= MaxTasks
    /\ \A i \in 1 .. Len(tasks) : tasks[i] = IdlePriority <=> idle = i - 1
    /\ run = "running" => idle # NoTask

\* A handle of the current session leads to an object of its own, with the
\* parameters it was created with, through later creations, gives and runs.
LiveHandles ==
    LET Pool(kind) == CASE kind = "semaphore" -> semaphores
                        [] kind = "queue" -> queues
                        [] OTHER -> mutexes
        Fixed(kind, object) ==
            IF kind = "semaphore" THEN <<object.used, object.maximum>> ELSE object
        live == {h \in handles : h.session = session}
    IN /\ \A h \in live : Fixed(h.kind, Pool(h.kind)[h.slot]) = Fixed(h.kind, h.object)
       /\ \A g, h \in live : g.kind = h.kind /\ g.slot = h.slot => g = h

\* A kernel runs once: after a run, whichever way it ended, only os_Init makes
\* another os_Start succeed, so no run starts with the TCBs of threads that are gone.
RunNeedsInit == [][run # "running" /\ run' = "running" => initialized /\ session # lastRun]_lifeVars

\* A handle that survived os_Init is refused unless its slot has been created anew.
StaleHandlesRefused == [][\A h \in handles :
         (h.session # session /\ GiveFromISR(h) /\ answer' = "OK") =>
             \E g \in handles : g.session = session /\ g.kind = h.kind /\ g.slot = h.slot]_lifeVars

===============================================================================
