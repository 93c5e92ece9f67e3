------------------------------- MODULE OsKernel -------------------------------
(***************************************************************************)
(* The kernel's global state (g_os_kernel, os_kernel_state.h, with the     *)
(* public limits of os.h and the mutex pool of os_mutex.c) and the list    *)
(* operations of os_list.c every other module is built from.               *)
(*                                                                         *)
(* The C kernel is one structure changed by functions that call each       *)
(* other, so the model is one record and operators from records to         *)
(* records, named after the C functions without their os_ prefix; an       *)
(* action of a later module applies the handler's operators to `kernel'.   *)
(* A list of TCB nodes is the sequence of its owners.  Fields that the C   *)
(* code keeps twice are kept once: `linked', `delay_list' and `wait_list'  *)
(* are membership in a sequence, `wait_kind' and `wait_object' are the     *)
(* identity of the wait list, `wait_deadline' is the wake tick.  The       *)
(* switch trace (last_from, last_to, switch_count) is left out.            *)
(***************************************************************************)
EXTENDS Integers, SequencesExt

CONSTANTS
    TaskCount,       \* tasks created before os_Start, the Idle task included
    MaxTasks,        \* OS_MAX_TASKS
    PriorityCount,   \* OS_PRIORITY_COUNT
    BasePriority,    \* the priority each task was created with
    SemCount,        \* semaphores created
    QueueCount,      \* queues created
    MutexCount,      \* mutexes created
    TickModulus,     \* 2^w, the width of TickType_t (2^32 in the code)
    TimeSlice        \* OS_TIME_SLICE_TICKS

VARIABLE kernel      \* g_os_kernel

IdlePriority == 0
Priorities == 0 .. PriorityCount - 1
Tasks == 0 .. TaskCount - 1
NoTask == -1                                        \* a NULL os_task_t *

ASSUME OsKernelAssumption ==
    /\ TaskCount \in Nat \ {0} /\ MaxTasks \in Nat /\ TaskCount <= MaxTasks
    /\ PriorityCount \in Nat /\ PriorityCount > 1
    /\ BasePriority \in [Tasks -> Priorities]
    /\ SemCount \in Nat /\ QueueCount \in Nat /\ MutexCount \in Nat
    /\ TickModulus \in Nat /\ TickModulus > 3 /\ TickModulus % 2 = 0
    /\ TimeSlice \in Nat \ {0}

\* Only os_EnsureIdleTask creates a task at the Idle priority.
IsIdle(t) == BasePriority[t] = IdlePriority

Ticks == 0 .. TickModulus - 1
WaitForever == TickModulus - 1                      \* OS_WAIT_FOREVER
MaxDelay == TickModulus \div 2 - 1                  \* OS_MAX_DELAY_TICKS

Semaphores == 0 .. SemCount - 1
Queues == 0 .. QueueCount - 1
Mutexes == 0 .. MutexCount - 1

\* The os_list_t members of the objects on which a task can block.
SemWaiters(s) == <<"semaphore", s>>
SendWaiters(q) == <<"send", q>>
ReceiveWaiters(q) == <<"receive", q>>
MutexWaiters(m) == <<"mutex", m>>
WaitLists == {SemWaiters(s) : s \in Semaphores}
             \cup {SendWaiters(q) : q \in Queues}
             \cup {ReceiveWaiters(q) : q \in Queues}
             \cup {MutexWaiters(m) : m \in Mutexes}
NoWait == <<"none", 0>>                             \* OS_WAIT_NONE, wait_list NULL

TaskStates == {"READY", "RUNNING", "BLOCKED_DELAY", "BLOCKED_OBJECT", "TERMINATED"}
Statuses == {"OK", "INVALID_ARGUMENT", "LIMIT_REACHED", "BAD_STATE", "TIMEOUT", "NOT_OWNER"}

Kernel ==
    [started   : BOOLEAN,
     state     : [Tasks -> TaskStates],
     effective : [Tasks -> Priorities],
     ready     : [Priorities -> Seq(Tasks)],
     bitmap    : SUBSET Priorities,
     current   : Tasks \cup {NoTask},
     slice     : 0 .. TimeSlice,               \* slice_remaining of `current'
     tick      : Ticks,
     delayed   : Seq(Tasks),                   \* *px_delayed
     overflow  : Seq(Tasks),                   \* *px_overflow_delayed
     wake      : [Tasks -> Ticks],             \* wake_tick, 0 outside both lists
     waitOn    : [Tasks -> WaitLists \cup {NoWait}],
     waiters   : [WaitLists -> Seq(Tasks)],
     result    : [Tasks -> Statuses],          \* wait_result
     owner     : [Mutexes -> Tasks \cup {NoTask}],
     nesting   : Nat,                          \* critical_nesting
     pending   : BOOLEAN]                      \* sched_pending
-------------------------------------------------------------------------------
(* os_list.c *)

\* os_ListRemove: unlinks t.  The callers that test `linked' first are the
\* ones that may apply it to a list t is not on.
ListRemove(list, t) ==
    IF t \in ToSet(list) THEN RemoveAt(list, CHOOSE i \in 1 .. Len(list) : list[i] = t)
                         ELSE list

\* The insertion loops of os_WaitInsertByPriority and os_TimeDelayListInsert:
\* t goes in front of the first node at one of the positions S, or at the tail.
InsertBeforeFirst(list, t, S) == InsertAt(list, Min(S \cup {Len(list) + 1}), t)

\* schedule_node.linked: the node is shared by the ready and the wait lists.
ScheduleLinked(k, t) == \/ \E p \in Priorities : t \in ToSet(k.ready[p])
                        \/ \E l \in WaitLists : t \in ToSet(k.waiters[l])

DelayLinked(k, t) == t \in ToSet(k.delayed) \/ t \in ToSet(k.overflow)

\* Writes the status the blocked or calling task's API returns.
SetResult(k, t, status) == [k EXCEPT !.result[t] = status]
===============================================================================
