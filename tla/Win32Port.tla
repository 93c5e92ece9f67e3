------------------------------- MODULE Win32Port -------------------------------
(***************************************************************************)
(* The Win32 port, os_port_win32.c: each task has a worker thread, a       *)
(* mailbox for its request, a phase and a gate; the control thread, which  *)
(* called os_Start, waits for the request event and for the timer, runs    *)
(* the kernel's handlers, and suspends, resumes or releases the workers.   *)
(*                                                                         *)
(* All threads are bound to one processor and the control thread has a     *)
(* higher priority than the workers, so a worker takes a step only while   *)
(* the control thread has nothing to do.  A worker's steps are split       *)
(* wherever it writes what the control thread reads.  The calls to Windows *)
(* succeed unless CallsFail lets them fail; no code outside the workers    *)
(* calls the kernel.                                                       *)
(***************************************************************************)
EXTENDS OsPort

CONSTANTS RunTicks,     \* run_ticks, 0 for no limit
          CallsFail,    \* whether a call to Windows may fail
          MaxPending    \* a bound: with so many ticks pending no more are put off, but
                        \* for one that ends a failed run

VARIABLES control,      \* where the control thread stands
          running,      \* g_port.running
          failed,       \* g_port.failed
          requestEvent, \* request_event is signalled
          timerDue,     \* tick_timer is signalled
          pendingTicks, \* g_port.pending_ticks
          thread        \* the slots of g_port, and where each worker stands

ASSUME Win32PortAssumption ==
    /\ RunTicks \in Nat /\ MaxPending \in Nat \ {0} /\ CallsFail \in BOOLEAN

\* A worker's slot.  pc: "new" before os_PortTaskEntry, "user" in the task's
\* code, then the stores of os_port_task_request up to the gate and behind it,
\* "leave" behind the request to exit, "ended" when the thread has returned.
Slot == [pc        : {"new", "user", "phase", "signal", "wait", "resume", "read", "leave", "ended"},
         phase     : {"CREATED", "USER", "REQUEST", "EXITED"},
         mailbox   : Requests \cup {NoRequest, ExitRequest},
         exiting   : BOOLEAN,                   \* `wait' is false
         response  : Statuses,
         gate      : BOOLEAN,                   \* the event is signalled
         suspended : BOOLEAN]

CreatedSlot == [pc |-> "new", phase |-> "CREATED", mailbox |-> NoRequest, exiting |-> FALSE,
                response |-> "BAD_STATE", gate |-> FALSE, suspended |-> TRUE]

flags == <<control, running, failed>>
events == <<requestEvent, timerDue, pendingTicks>>
portVars == <<kernel, objects, flags, events, thread>>

PortInit ==
    /\ Init
    /\ control = "created" /\ running = FALSE /\ failed = FALSE
    /\ requestEvent = FALSE /\ timerDue = FALSE /\ pendingTicks = 0
    /\ thread = [t \in Tasks |-> CreatedSlot]
-------------------------------------------------------------------------------
(* The workers *)

\* The control thread waits for an event; it sleeps through the failure of a worker.
Waiting == (control = "wait" /\ running) \/ control = "asleep"

\* It has no event to deal with, or it waits for the workers to end.
WorkersRun == \/ Waiting /\ ~requestEvent /\ ~timerDue
              \/ control = "join"

\* A worker that is not suspended goes on from `from'.
Worker(t, from) == WorkersRun /\ ~thread[t].suspended /\ thread[t].pc = from
Update(t, slot) == thread' = [thread EXCEPT ![t] = slot]
OnlySlots == UNCHANGED <<kernel, objects, flags, events>>

\* os_PortTaskEntry
Enter(t) ==
    /\ Worker(t, "new")
    /\ Update(t, [thread[t] EXCEPT !.phase = "USER", !.pc = "user"])
    /\ OnlySlots

\* os_port_task_request up to the store of the request code.
Posted(slot, request) ==
    [slot EXCEPT !.response = "BAD_STATE", !.mailbox = request,
                 !.exiting = (request = ExitRequest), !.pc = "phase"]

\* The task calls the kernel; a call made after the run is refused at once.
Call(t) ==
    /\ Worker(t, "user") /\ running
    /\ \E request \in Calls[t] : Update(t, Posted(thread[t], request))
    /\ OnlySlots

\* The task's entry function returns; the Idle task's only after the run.
Return(t) ==
    /\ Worker(t, "user")
    /\ running => ~IsIdle(t)
    /\ Update(t, IF running THEN Posted(thread[t], ExitRequest)
                 ELSE [thread[t] EXCEPT !.phase = "EXITED", !.pc = "ended"])
    /\ OnlySlots

StorePhase(t) ==
    /\ Worker(t, "phase")
    /\ Update(t, [thread[t] EXCEPT !.phase = "REQUEST", !.pc = "signal"])
    /\ OnlySlots

Signal(t) ==
    /\ Worker(t, "signal")
    /\ requestEvent' = TRUE
    /\ Update(t, [thread[t] EXCEPT !.pc = IF thread[t].exiting THEN "leave" ELSE "wait"])
    /\ UNCHANGED <<kernel, objects, flags, timerDue, pendingTicks>>

\* The gate is an event that resets when it lets a thread pass.
PassGate(t) ==
    /\ Worker(t, "wait") /\ thread[t].gate
    /\ Update(t, [thread[t] EXCEPT !.gate = FALSE, !.pc = "resume"])
    /\ OnlySlots

LeaveRequest(t) ==
    /\ Worker(t, "resume")
    /\ Update(t, [thread[t] EXCEPT !.phase = "USER", !.pc = "read"])
    /\ OnlySlots

\* The call returns the response to the task.
ReadResponse(t) ==
    /\ Worker(t, "read")
    /\ Update(t, [thread[t] EXCEPT !.pc = "user"])
    /\ OnlySlots

Leave(t) ==
    /\ Worker(t, "leave")
    /\ Update(t, [thread[t] EXCEPT !.phase = "EXITED", !.pc = "ended"])
    /\ OnlySlots

\* Mutant: the failure is noted, and the run goes on.
PortFailOnlyNotes == failed' = TRUE /\ UNCHANGED running

\* os_PortFail
PortFail == failed' = TRUE /\ running' = FALSE

\* A worker's call to Windows fails: it cannot store its slot, signal its request or
\* wait at its gate.  The control thread is not told.
WorkerFails(t) ==
    /\ CallsFail
    /\ \/ /\ Worker(t, "new") /\ Update(t, [thread[t] EXCEPT !.pc = "ended"])
       \/ /\ Worker(t, "signal")
          /\ Update(t, [thread[t] EXCEPT !.pc = IF thread[t].exiting THEN "leave" ELSE "user"])
       \/ /\ Worker(t, "wait") /\ Update(t, [thread[t] EXCEPT !.pc = "user"])
    /\ PortFail
    /\ control' = IF control = "wait" THEN "asleep" ELSE control
    /\ UNCHANGED <<kernel, objects, events>>

\* The port's own code; what the task does in between is its choice.
PortCode(t) ==
    \/ Enter(t)
    \/ StorePhase(t) \/ Signal(t) \/ PassGate(t) \/ LeaveRequest(t) \/ ReadResponse(t)
    \/ Leave(t)
WorkerStep(t) == PortCode(t) \/ Call(t) \/ Return(t) \/ WorkerFails(t)
-------------------------------------------------------------------------------
(* The control thread *)

Suspended(slots, t) == [slots EXCEPT ![t].suspended = TRUE]

\* Mutant: a resumed worker finds its gate open as well.
ActivateTwice(slots, k) ==
    IF k.current = NoTask THEN slots
    ELSE [slots EXCEPT ![k.current].response = k.result[k.current],
                       ![k.current].suspended = FALSE,
                       ![k.current].gate = TRUE]

\* Mutant: a worker let through its gate finds no response.
ActivateWithoutResponse(slots, k) ==
    LET t == k.current IN
    IF t = NoTask THEN slots
    ELSE IF slots[t].suspended THEN [slots EXCEPT ![t].suspended = FALSE,
                                                  ![t].response = k.result[t]]
    ELSE [slots EXCEPT ![t].gate = TRUE]

\* os_PortActivate: a suspended worker is resumed, another passes its gate.
Activate(slots, k) ==
    LET t == k.current
        answered == [slots EXCEPT ![t].response = k.result[t]]
    IN IF t = NoTask THEN slots
       ELSE IF slots[t].suspended THEN [answered EXCEPT ![t].suspended = FALSE]
       ELSE [answered EXCEPT ![t].gate = TRUE]

\* The response is there before the call that fails to let the worker go.
ActivateFails(slots, k) ==
    /\ CallsFail /\ k.current # NoTask
    /\ thread' = [slots EXCEPT ![k.current].response = k.result[k.current]]
    /\ PortFail

\* os_port_start_scheduler, up to its loop.
StartScheduler ==
    /\ control = "created"
    /\ SchedStart
    /\ control' = "wait"
    /\ \/ running' = TRUE /\ thread' = Activate(thread, kernel') /\ UNCHANGED failed
       \/ ActivateFails(thread, kernel')
    /\ UNCHANGED <<objects, events>>

\* Mutant: any current task is suspended, wherever its worker stands.
InterruptibleAnywhere == TRUE

\* Only a worker in its task's code may be suspended.
Interruptible == kernel.current = NoTask \/ thread[kernel.current].phase = "USER"

\* The timer is periodic; an expiry that finds it signalled is lost.
TimerFires ==
    /\ Waiting \/ (control = "drain" /\ running)
    /\ ~timerDue /\ (pendingTicks < MaxPending \/ Interruptible \/ control = "asleep")
    /\ timerDue' = TRUE
TimerExpires ==
    /\ TimerFires
    /\ UNCHANGED <<kernel, objects, flags, requestEvent, pendingTicks, thread>>

\* os_PortFindRequester: the first slot whose mailbox is full.
Posting == {t \in Tasks : thread[t].mailbox # NoRequest}
FindRequester == IF Posting = {} THEN NoTask ELSE Min(Posting)

\* os_PortFail, unless `ok'.
FailUnless(ok) == failed' = (failed \/ ~ok)

TakeRequest ==
    /\ Waiting /\ requestEvent
    /\ requestEvent' = FALSE
    /\ UNCHANGED timerDue

\* The first full mailbox is the current task's; its request is handled.
ServeRequest ==
    /\ TakeRequest
    /\ FindRequester = kernel.current
    /\ Handle(thread[kernel.current].mailbox)
    /\ thread' = [thread EXCEPT ![kernel.current].mailbox = NoRequest]
    /\ FailUnless(KernelValidate(kernel'))
    /\ running' = ~failed'
    /\ control' = IF running' THEN "drain" ELSE "wait"
    /\ UNCHANGED pendingTicks

\* There is no mailbox, or it belongs to another task: the port fails.
RefuseRequest ==
    /\ TakeRequest
    /\ FindRequester # kernel.current
    /\ thread' = [t \in Tasks |-> IF t = FindRequester
                                  THEN [thread[t] EXCEPT !.mailbox = NoRequest] ELSE thread[t]]
    /\ PortFail /\ control' = "wait"
    /\ UNCHANGED <<kernel, objects, pendingTicks>>

\* os_PortApplyTick; os_PortObserveTick ends a run of limited length.
RunGoesOn(k) == running /\ KernelValidate(k) /\ ~(RunTicks # 0 /\ k.tick >= RunTicks)
ApplyTick ==
    /\ kernel' = TimeTick(kernel)
    /\ FailUnless(KernelValidate(kernel'))
    /\ running' = RunGoesOn(kernel')
    /\ UNCHANGED objects

\* Mutant: the ticks that arrived during a request become one.
DrainAtOnce ==
    /\ control = "drain" /\ pendingTicks > 0 /\ running
    /\ pendingTicks' = 0
    /\ ApplyTick
    /\ UNCHANGED <<control, requestEvent, timerDue, thread>>

\* Mutant: the last pending tick is applied once more.
DrainOneMore ==
    /\ control = "drain" /\ running /\ pendingTicks >= 0
    /\ pendingTicks' = pendingTicks - 1
    /\ ApplyTick
    /\ UNCHANGED <<control, requestEvent, timerDue, thread>>

\* A tick that was put off is applied after the request.
DrainTick ==
    /\ control = "drain" /\ pendingTicks > 0 /\ running
    /\ pendingTicks' = pendingTicks - 1
    /\ ApplyTick
    /\ UNCHANGED <<control, requestEvent, timerDue, thread>>

\* The end of os_PortProcessRequest.
FinishRequest ==
    /\ control = "drain" /\ (pendingTicks = 0 \/ ~running)
    /\ LET goesOn == running /\ KernelHasLiveTasks(kernel) IN
       \/ /\ running' = goesOn /\ thread' = (IF goesOn THEN Activate(thread, kernel) ELSE thread)
          /\ UNCHANGED failed
       \/ goesOn /\ ActivateFails(thread, kernel)
    /\ control' = "wait"
    /\ UNCHANGED <<kernel, objects, events>>

\* Requests go first when both objects are signalled.
TakeTimer ==
    /\ Waiting /\ timerDue /\ ~requestEvent
    /\ timerDue' = FALSE /\ control' = "wait"
    /\ UNCHANGED requestEvent

PutOffTick ==
    /\ TakeTimer
    /\ ~Interruptible
    /\ pendingTicks' = pendingTicks + 1
    /\ UNCHANGED <<kernel, objects, running, failed, thread>>

\* Mutant: the current worker is not suspended for the tick.
PreemptWithoutSuspending ==
    /\ TakeTimer
    /\ Interruptible
    /\ ApplyTick
    /\ thread' = IF running' /\ kernel'.current # kernel.current
                 THEN Activate(thread, kernel') ELSE thread
    /\ UNCHANGED pendingTicks

\* os_PortSuspendCurrent, the tick, and the task it leaves current goes on.
PreemptByTick ==
    /\ TakeTimer
    /\ Interruptible
    /\ ApplyTick
    /\ LET stopped == IF kernel.current = NoTask THEN thread
                      ELSE Suspended(thread, kernel.current)
       IN thread' = IF running' THEN Activate(stopped, kernel') ELSE stopped
    /\ UNCHANGED pendingTicks

\* The current worker cannot be suspended, so that there is no tick, or the next one
\* cannot be set going.
PreemptFails ==
    /\ CallsFail /\ TakeTimer
    /\ Interruptible /\ kernel.current # NoTask
    /\ \/ PortFail /\ UNCHANGED <<kernel, thread>>
       \/ /\ kernel' = TimeTick(kernel) /\ RunGoesOn(kernel')
          /\ ActivateFails(Suspended(thread, kernel.current), kernel')
    /\ UNCHANGED <<objects, pendingTicks>>

\* The control thread's own wait fails.
WaitFails ==
    /\ CallsFail /\ control = "wait" /\ running
    /\ PortFail
    /\ UNCHANGED <<kernel, objects, control, events, thread>>

\* Mutant: only the suspended workers are set going.
ReleaseSuspended ==
    /\ control = "wait" /\ ~running
    /\ control' = "join"
    /\ thread' = [t \in Tasks |-> [thread[t] EXCEPT !.suspended = FALSE]]
    /\ UNCHANGED <<kernel, objects, running, failed, events>>

\* os_PortReleaseThreads: every worker is set going, to find the run over.
ReleaseThreads ==
    /\ control = "wait" /\ ~running
    /\ control' = "join"
    /\ thread' = [t \in Tasks |-> [thread[t] EXCEPT !.suspended = FALSE, !.gate = TRUE]]
    /\ UNCHANGED <<kernel, objects, running, failed, events>>

\* The workers have ended, or the wait for them times out; the slots lose their
\* threads and the kernel its tasks.
AllEnded == \A t \in Tasks : thread[t].pc = "ended"
JoinThreads ==
    /\ control = "join"
    /\ control' = "stopped"
    /\ FailUnless(AllEnded)
    /\ kernel' = KernelStopAll(kernel)
    /\ thread' = [t \in Tasks |-> CreatedSlot]
    /\ UNCHANGED <<objects, running, events>>

ControlStep ==
    \/ StartScheduler
    \/ ServeRequest \/ RefuseRequest \/ DrainTick \/ FinishRequest
    \/ PutOffTick \/ PreemptByTick \/ PreemptFails \/ WaitFails
    \/ ReleaseThreads \/ JoinThreads

PortNext == ControlStep \/ TimerExpires \/ \E t \in Tasks : WorkerStep(t)
PortSpec == PortInit /\ [][PortNext]_portVars

\* The control thread, which nothing outranks, deals with what it waits for, the
\* timer keeps expiring, and a worker that is let go again and again gets on with
\* the port's code.  A task need not make another call.  Each conjunct names the
\* control thread's step by the variable that only this step changes so.
PortFairness ==
    /\ WF_control(control = "created" /\ control' = "wait")
    /\ WF_requestEvent(TakeRequest)
    /\ WF_timerDue(TakeTimer)
    /\ WF_pendingTicks(/\ control = "drain" /\ running
                       /\ pendingTicks > 0 /\ pendingTicks' = pendingTicks - 1)
    /\ WF_control(/\ control = "drain" /\ (pendingTicks = 0 \/ ~running)
                  /\ control' = "wait")
    /\ WF_control(control = "wait" /\ ~running /\ control' = "join")
    /\ WF_control(control = "join" /\ control' = "stopped")
    /\ WF_timerDue(TimerFires)
    /\ \A t \in Tasks : SF_portVars(PortCode(t))

FairPortSpec == PortSpec /\ PortFairness
-------------------------------------------------------------------------------
\* Every variable of the port has its type, and no more ticks are pending than
\* the timer's bound lets expire: none is taken from an empty count.
PortTypeOK ==
    /\ control \in {"created", "wait", "asleep", "drain", "join", "stopped"}
    /\ running \in BOOLEAN /\ failed \in BOOLEAN
    /\ requestEvent \in BOOLEAN /\ timerDue \in BOOLEAN
    /\ pendingTicks \in 0 .. MaxPending + (IF failed THEN 1 ELSE 0)
    /\ thread \in [Tasks -> Slot]

\* The worker could go on, if the processor were given to it.
CanRun(t) ==
    /\ ~thread[t].suspended
    /\ thread[t].pc # "ended"
    /\ thread[t].pc = "wait" => thread[t].gate

\* docs/design.md:285: one task runs at a time.  Whenever the control thread has
\* dealt with all requests, the worker of the kernel's current task can go on and
\* no other can, but for one that has exited and only has to return.
OnlyCurrentRuns ==
    control = "wait" /\ running /\ ~requestEvent =>
        {t \in Tasks : CanRun(t) /\ thread[t].pc # "leave"} = {kernel.current}

\* A gate is open only for the current task, whose request has been handled: no
\* later request finds an open gate and returns before it was served.
OpenGateIsAnAnswer ==
    running => \A t \in Tasks : thread[t].gate =>
        t = kernel.current /\ thread[t].pc = "wait" /\ thread[t].mailbox = NoRequest

\* When the run ends every worker can get to its end: none is left suspended or
\* at a gate nobody will open.
NobodyLeftBehind ==
    control = "join" => \A t \in Tasks : thread[t].pc # "ended" => CanRun(t)

\* The port meets a request it refuses only if a worker was suspended between the
\* stores of its request and of its phase (os_port_win32.c:198): every other order of
\* calls and ticks is served.
RefusedOnlyBetweenStores ==
    control = "wait" /\ running /\ requestEvent /\ FindRequester # kernel.current =>
        \E t \in Tasks : thread[t].suspended /\ thread[t].pc = "phase"

\* A call returns what the kernel wrote for the caller, also when ticks and
\* other tasks run between the answer and the caller's reading it.
Reads(t) == thread[t].pc = "read" /\ thread'[t].pc = "user"
ReturnsOwnResult ==
    \A t \in Tasks : Reads(t) /\ running => thread[t].response = kernel.result[t]
ResponsesMatch == [][ReturnsOwnResult]_portVars

\* os_port_win32.c:463: no tick is lost during a request.  Kernel time and the
\* pending ticks together advance by one with every tick taken from the timer,
\* and by nothing else, unless the port fails.
TickAccounted ==
    kernel.started /\ control # "join" /\ ~failed' =>
        (kernel'.tick + pendingTicks' - kernel.tick - pendingTicks) % TickModulus =
            IF timerDue /\ ~timerDue' THEN 1 ELSE 0
TicksAccounted == [][TickAccounted]_portVars

\* A run of limited length ends, whether its tasks make calls or compute, and
\* wherever in a call the ticks find them; and so does any run when a call to Windows
\* fails, in the control thread or in a worker, which cannot tell the control thread.
RunIsOver == (failed \/ RunTicks # 0) ~> (control = "stopped")

\* os_port_win32.c:484: a tick that is put off during a request advances kernel
\* time when the request has been dealt with.
PutOffInRequest == pendingTicks > 0 /\ \E t \in Tasks : thread[t].phase = "REQUEST"
PutOffTicksApplied == (running /\ PutOffInRequest) ~> (pendingTicks = 0 \/ ~running)

\* os_port_win32.c:358: there is one pending mailbox at most.
OneMailboxFull == Cardinality(Posting) <= 1
===============================================================================
