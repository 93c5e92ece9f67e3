-------------------------------- MODULE OsPort --------------------------------
(***************************************************************************)
(* The interface between the kernel and its ports, os_port.h: a blocking   *)
(* call of the API becomes a request with its parameters, which each port  *)
(* carries to its own os_port_task_request and there to the kernel's       *)
(* handler, for the task that is current by then.  The three ports share   *)
(* this dispatch; they differ in what they do before and after it.         *)
(***************************************************************************)
EXTENDS MiniRtos

CONSTANT Calls          \* the requests each task may make

\* os_port_req_id_t with the parameters of a request.
Request(call, object, ticks, message) ==
    [call |-> call, object |-> object, ticks |-> ticks, message |-> message]
NoRequest == Request("NONE", 0, 0, NoMessage)
ExitRequest == Request("EXIT", 0, 0, NoMessage)

Requests == {Request("YIELD", 0, 0, NoMessage)}
            \cup {Request("DELAY", 0, d, NoMessage) : d \in Delays}
            \cup {Request("SEM_TAKE", s, w, NoMessage) : s \in Semaphores, w \in Timeouts}
            \cup {Request("SEM_GIVE", s, 0, NoMessage) : s \in Semaphores}
            \cup {Request("QUEUE_SEND", q, w, msg) : q \in Queues, w \in Timeouts, msg \in Messages}
            \cup {Request("QUEUE_RECEIVE", q, w, NoMessage) : q \in Queues, w \in Timeouts}
            \cup {Request("MUTEX_LOCK", m, w, NoMessage) : m \in Mutexes, w \in Timeouts}
            \cup {Request("MUTEX_UNLOCK", m, 0, NoMessage) : m \in Mutexes}

\* os_Start adds the Idle task if there is none; its body is vTaskYield in a loop
\* (os_EnsureIdleTask, os_IdleTaskEntry).
ASSUME OsPortAssumption ==
    /\ Calls \in [Tasks -> SUBSET Requests]
    /\ \E t \in Tasks : IsIdle(t)
    /\ \A t \in Tasks : IsIdle(t) => \A r \in Calls[t] : r.call = "YIELD"

objects == <<semCount, ring, buffer>>

\* The switch of os_port_task_request, for the current task.
Handle(r) ==
    LET t == kernel.current IN
    \/ r.call = "YIELD" /\ TaskYield(t) /\ UNCHANGED objects
    \/ r.call = "DELAY" /\ TaskDelay(t, r.ticks) /\ UNCHANGED objects
    \/ r.call = "SEM_TAKE" /\ SemTake(r.object, r.ticks) /\ UNCHANGED queueVars
    \/ r.call = "SEM_GIVE" /\ SemGive(r.object) /\ UNCHANGED queueVars
    \/ r.call = "QUEUE_SEND" /\ QueueSend(r.object, r.message, r.ticks) /\ UNCHANGED semCount
    \/ r.call = "QUEUE_RECEIVE" /\ QueueReceive(r.object, r.ticks) /\ UNCHANGED semCount
    \/ r.call = "MUTEX_LOCK" /\ MutexLock(r.object, r.ticks) /\ UNCHANGED objects
    \/ r.call = "MUTEX_UNLOCK" /\ MutexUnlock(r.object) /\ UNCHANGED objects
    \/ r.call = "EXIT" /\ TaskExit(t) /\ UNCHANGED objects
===============================================================================
