------------------------------ MODULE Win32Proofs ------------------------------
(***************************************************************************)
(* Proofs about Win32Port: the invariant of the protocol between the       *)
(* workers and the control thread, whatever the tasks ask for and wherever *)
(* the timer finds them, and whichever call to Windows fails.              *)
(***************************************************************************)
EXTENDS Win32Port, CallProofs

(* The invariant of the port *)

\* A worker that takes no step on its own, but for returning after its exit.
Halted(s) ==
    \/ s.suspended
    \/ s.pc = "wait" /\ ~s.gate
    \/ s.pc \in {"leave", "ended"}

\* A worker's slot during the run, `asks' when its request is the one the control
\* thread is to find: a mailbox is full from the store of the request code until
\* the request is served, and a response is valid wherever it can be read.
Fits(s, asks, over, result) ==
    /\ s.phase = "USER" => s.pc \in {"user", "phase", "read"}
    /\ s.suspended => s.pc \in {"new", "user", "phase", "read"}
    /\ s.gate => s.pc = "wait"
    /\ s.pc \in {"phase", "signal"} =>
          s.mailbox # NoRequest /\ (s.exiting <=> s.mailbox = ExitRequest)
    /\ s.mailbox # NoRequest /\ s.pc \notin {"phase", "signal"} => asks
    /\ s.pc \in {"leave", "ended"} => over \/ asks
    /\ s.pc \in {"resume", "read"} \/ s.gate => s.suspended \/ s.response = result

\* The slot of the current task: it is at its gate with a request while the
\* control thread has one to serve, goes on while there is none, and stands still
\* while the ticks that were put off are applied.
AtTurn(s, event, stage) ==
    /\ stage = "wait" /\ event =>
          /\ ~s.suspended /\ ~s.gate /\ s.mailbox # NoRequest
          /\ s.pc = IF s.mailbox = ExitRequest THEN "leave" ELSE "wait"
    /\ stage = "wait" /\ ~event =>
          /\ ~s.suspended /\ s.pc \notin {"leave", "ended"}
          /\ s.pc = "wait" => s.gate
    /\ stage = "drain" => ~event /\ Halted(s) /\ s.pc \notin {"leave", "ended"}

Settled(slots, k, event, stage) ==
    /\ \A t \in Tasks :
          /\ Fits(slots[t], t = k.current /\ event, k.state[t] = "TERMINATED", k.result[t])
          /\ t # k.current => Halted(slots[t])
    /\ AtTurn(slots[k.current], event, stage)

\* A worker that gets to its end when the run is over.
CanFinish(s) == ~s.suspended /\ (s.pc \in {"phase", "signal", "wait"} => s.gate)

SlotsTyped ==
    /\ control \in {"created", "wait", "asleep", "drain", "join", "stopped"}
    /\ running \in BOOLEAN /\ failed \in BOOLEAN
    /\ requestEvent \in BOOLEAN /\ timerDue \in BOOLEAN
    /\ thread \in [Tasks -> Slot]
    /\ \A t \in Tasks : thread[t].mailbox \in MayAsk(t) \cup {NoRequest}

StageInv ==
    /\ control = "created" <=> ~kernel.started
    /\ control = "created" =>
          /\ ~running /\ ~failed /\ ~requestEvent /\ ~timerDue /\ pendingTicks = 0
          /\ thread = [t \in Tasks |-> CreatedSlot]
    /\ control = "asleep" => failed
    /\ running => ~failed /\ control \in {"wait", "drain"}
    /\ control = "join" => \A t \in Tasks : CanFinish(thread[t])

\* The timer does not expire when no more ticks may be put off, but for one after
\* a worker has failed.
TickInv ==
    /\ pendingTicks \in Nat
    /\ pendingTicks <= MaxPending + (IF failed /\ control # "asleep" /\ ~running THEN 1 ELSE 0)
    /\ control = "wait" /\ running /\ timerDue /\ ~requestEvent =>
          pendingTicks < MaxPending \/ Interruptible

Protocol == running => Settled(thread, kernel, requestEvent, control)
PortInv == SlotsTyped /\ StageInv /\ TickInv /\ Protocol

\* The kernel is the specification's until it is stopped.
KernelPart == control # "stopped" => SafeInv /\ PriorityInv(kernel)

\* What the proofs use of the kernel while it runs.
LEMMA RunningKernel ==
    ASSUME PortInv, KernelPart, control \notin {"created", "stopped"}
    PROVE  /\ SafeInv /\ PriorityInv(kernel) /\ kernel.started
           /\ kernel.current \in Tasks /\ kernel.state[kernel.current] = "RUNNING"
           /\ kernel.result \in [Tasks -> Statuses] /\ NoTask \notin Tasks
<1>1. SafeInv /\ PriorityInv(kernel) /\ kernel.started
  BY DEF KernelPart, PortInv, SlotsTyped, StageInv
<1>2. KernelInv(kernel) /\ kernel \in GoodKernel
  BY <1>1 DEF SafeInv, TypeInv
<1>3. QED
  BY <1>1, <1>2, SomebodyRuns, FieldTypes

\* The state in which os_Start is called.
LEMMA InitPort == PortInit => PortInv /\ KernelPart
<1> SUFFICES ASSUME PortInit PROVE PortInv /\ KernelPart
  OBVIOUS
<1>1. SafeInv /\ PriorityInv(kernel)
  BY InitSafe, InitPriorities DEF PortInit
<1>2. ~kernel.started
  BY CreatedFilled DEF PortInit, Init, Filled
<1>3. CreatedSlot \in Slot /\ CreatedSlot.mailbox = NoRequest
  BY DEF CreatedSlot, Slot, Statuses
<1>4. MaxPending \in Nat
  BY Win32PortAssumption
<1>5. SlotsTyped /\ StageInv /\ TickInv /\ Protocol
  <2> HIDE DEF CreatedSlot
  <2>1. SlotsTyped
    BY <1>3 DEF PortInit, SlotsTyped
  <2>2. StageInv
    BY <1>2 DEF PortInit, StageInv
  <2>3. TickInv
    BY <1>4 DEF PortInit, TickInv
  <2>4. Protocol
    BY DEF PortInit, Protocol
  <2>5. QED
    BY <2>1, <2>2, <2>3, <2>4
<1>6. QED
  BY <1>1, <1>5 DEF PortInv, KernelPart

\* The worker that takes a step during the run is the current task's, or one that
\* has exited.
LEMMA WhoMoves ==
    ASSUME PortInv, KernelPart, running, NEW t \in Tasks, NEW from, Worker(t, from)
    PROVE  /\ control = "wait" /\ ~requestEvent /\ ~timerDue
           /\ Fits(thread[t], FALSE, kernel.state[t] = "TERMINATED", kernel.result[t])
           /\ IF t = kernel.current THEN AtTurn(thread[t], FALSE, "wait") ELSE Halted(thread[t])
<1>1. control = "wait" /\ ~requestEvent /\ ~timerDue /\ ~thread[t].suspended /\ thread[t].pc = from
  BY DEF PortInv, StageInv, Worker, WorkersRun, Waiting
<1>2. Settled(thread, kernel, requestEvent, "wait") /\ requestEvent = FALSE
  BY <1>1 DEF PortInv, Protocol, SlotsTyped
<1>3. kernel.current \in Tasks
  BY <1>1, RunningKernel
<1>4. CASE t = kernel.current
  BY <1>1, <1>2, <1>4 DEF Settled
<1>5. CASE t # kernel.current
  <2>1. Halted(thread[t])
        /\ Fits(thread[t], t = kernel.current /\ requestEvent, kernel.state[t] = "TERMINATED", kernel.result[t])
    BY <1>2, <1>5 DEF Settled
  <2>2. (t = kernel.current /\ requestEvent) = FALSE
    BY <1>5
  <2>3. QED
    BY <1>1, <1>5, <2>1, <2>2
<1>6. QED
  BY <1>4, <1>5

\* A step of worker t that leaves its slot as s: what s must be like for the
\* invariant to be kept, whether the run goes on or is over.
LEMMA Moved ==
    ASSUME PortInv, KernelPart, NEW t \in Tasks, WorkersRun, NEW s \in Slot,
           thread' = [thread EXCEPT ![t] = s], s.mailbox \in MayAsk(t) \cup {NoRequest},
           UNCHANGED <<kernel, control, running, failed, timerDue, pendingTicks>>,
           requestEvent' \in BOOLEAN, running /\ t # kernel.current => requestEvent' = requestEvent,
           control = "join" => CanFinish(s),
           running => Fits(s, t = kernel.current /\ requestEvent',
                           kernel.state[t] = "TERMINATED", kernel.result[t]),
           running /\ t # kernel.current => Halted(s),
           running /\ t = kernel.current => AtTurn(s, requestEvent', "wait")
    PROVE  PortInv'
<1>1. /\ thread \in [Tasks -> Slot] /\ thread' \in [Tasks -> Slot] /\ thread'[t] = s
      /\ \A u \in Tasks : u # t => thread'[u] = thread[u]
  BY DEF PortInv, SlotsTyped
<1>2. control \in {"wait", "asleep", "join"}
  BY DEF WorkersRun, Waiting
<1>3. SlotsTyped'
  BY <1>1 DEF PortInv, SlotsTyped
<1>4. StageInv'
  BY <1>1, <1>2 DEF PortInv, StageInv
<1>5. TickInv'
  BY <1>2 DEF PortInv, StageInv, TickInv, WorkersRun, Waiting
<1>6. Protocol'
  <2> SUFFICES ASSUME running PROVE Settled(thread', kernel, requestEvent', control)
    BY DEF Protocol
  <2>1. control = "wait" /\ requestEvent = FALSE
    BY DEF PortInv, StageInv, SlotsTyped, WorkersRun, Waiting
  <2>2. Settled(thread, kernel, requestEvent, control) /\ kernel.current \in Tasks
    BY <2>1, RunningKernel DEF PortInv, Protocol
  <2>3. ASSUME NEW u \in Tasks
        PROVE  /\ Fits(thread'[u], u = kernel.current /\ requestEvent',
                       kernel.state[u] = "TERMINATED", kernel.result[u])
               /\ u # kernel.current => Halted(thread'[u])
    <3>1. CASE u = t
      BY <1>1, <3>1
    <3>2. CASE u # t
      <4>1. (u = kernel.current /\ requestEvent') <=> (u = kernel.current /\ requestEvent)
        BY <3>2
      <4>2. (u = kernel.current /\ requestEvent') = (u = kernel.current /\ requestEvent)
        BY <4>1
      <4>3. QED
        BY <1>1, <2>2, <3>2, <4>2 DEF Settled
    <3>3. QED
      BY <3>1, <3>2
  <2>4. AtTurn(thread'[kernel.current], requestEvent', control)
    <3>1. CASE t = kernel.current
      BY <1>1, <2>1, <3>1
    <3>2. CASE t # kernel.current
      BY <1>1, <2>2, <3>2 DEF Settled
    <3>3. QED
      BY <3>1, <3>2
  <2>5. QED
    BY <2>3, <2>4 DEF Settled
<1>7. QED
  BY <1>3, <1>4, <1>5, <1>6 DEF PortInv

\* A step of the current task's worker that only changes its slot.
LEMMA MovedOn ==
    ASSUME PortInv, KernelPart, NEW t \in Tasks, NEW from, Worker(t, from), from \notin {"leave", "ended"},
           ~(from = "wait" /\ ~thread[t].gate), NEW s \in Slot,
           thread' = [thread EXCEPT ![t] = s], s.mailbox \in MayAsk(t) \cup {NoRequest},
           OnlySlots, s.suspended = thread[t].suspended,
           control = "join" => (s.pc \in {"phase", "signal", "wait"} => s.gate),
           ASSUME running, t = kernel.current,
                  Fits(thread[t], FALSE, kernel.state[t] = "TERMINATED", kernel.result[t])
           PROVE  /\ Fits(s, FALSE, kernel.state[t] = "TERMINATED", kernel.result[t])
                  /\ s.pc \notin {"leave", "ended"} /\ (s.pc = "wait" => s.gate)
    PROVE  PortInv'
<1>1. /\ UNCHANGED <<kernel, control, running, failed, timerDue, pendingTicks, requestEvent>>
      /\ WorkersRun /\ ~thread[t].suspended /\ (~requestEvent \/ control = "join")
  BY DEF OnlySlots, flags, events, Worker, WorkersRun, Waiting
<1>2. control = "join" => CanFinish(s)
  BY DEF Worker, CanFinish
<1>3. ASSUME running
      PROVE  /\ t = kernel.current /\ requestEvent = FALSE
             /\ Fits(thread[t], FALSE, kernel.state[t] = "TERMINATED", kernel.result[t])
  <2>1. /\ ~requestEvent /\ (t # kernel.current => Halted(thread[t]))
        /\ Fits(thread[t], FALSE, kernel.state[t] = "TERMINATED", kernel.result[t])
    BY <1>3, WhoMoves
  <2>2. ~Halted(thread[t])
    BY DEF Halted, Worker
  <2>3. QED
    BY <2>1, <2>2 DEF PortInv, SlotsTyped
<1>4. ASSUME running
      PROVE  /\ Fits(s, t = kernel.current /\ requestEvent', kernel.state[t] = "TERMINATED", kernel.result[t])
             /\ AtTurn(s, requestEvent', "wait")
  <2>1. (t = kernel.current /\ requestEvent') = FALSE /\ requestEvent' = FALSE
    BY <1>1, <1>3, <1>4
  <2>2. /\ Fits(s, FALSE, kernel.state[t] = "TERMINATED", kernel.result[t])
        /\ s.pc \notin {"leave", "ended"} /\ (s.pc = "wait" => s.gate)
    BY <1>3, <1>4
  <2>3. AtTurn(s, FALSE, "wait")
    BY <2>2 DEF AtTurn, Worker
  <2>4. QED
    BY <2>1, <2>2, <2>3
<1>5. requestEvent' \in BOOLEAN /\ WorkersRun
  BY <1>1 DEF PortInv, SlotsTyped, Worker
<1>6. QED
  BY <1>1, <1>2, <1>3, <1>4, <1>5, Moved

\* os_PortTaskEntry, and the steps of os_port_task_request but for the signal.
LEMMA WorkerGoesOn ==
    ASSUME PortInv, KernelPart, NEW t \in Tasks,
           \/ Enter(t) \/ Call(t) \/ Return(t) \/ StorePhase(t)
           \/ PassGate(t) \/ LeaveRequest(t) \/ ReadResponse(t)
    PROVE  PortInv'
<1> DEFINE o == thread[t]
<1>1. o \in Slot /\ o.mailbox \in MayAsk(t) \cup {NoRequest} /\ "BAD_STATE" \in Statuses
  BY DEF PortInv, SlotsTyped, Statuses
<1>2. control = "join" => CanFinish(o)
  BY DEF PortInv, StageInv
<1> HIDE DEF o
<1>3. ASSUME Enter(t) PROVE PortInv'
  <2> DEFINE s == [o EXCEPT !.phase = "USER", !.pc = "user"]
  <2>1. /\ s \in Slot /\ s.pc = "user" /\ s.mailbox = o.mailbox /\ s.suspended = o.suspended
        /\ s.gate = o.gate
    BY <1>1 DEF Slot
  <2>2. Worker(t, "new") /\ o.pc = "new" /\ thread' = [thread EXCEPT ![t] = s] /\ OnlySlots
    BY <1>3 DEF Enter, Update, Worker, o
  <2> HIDE DEF s
  <2>3. ASSUME Fits(o, FALSE, kernel.state[t] = "TERMINATED", kernel.result[t])
        PROVE  Fits(s, FALSE, kernel.state[t] = "TERMINATED", kernel.result[t])
    BY <2>1, <2>2, <2>3 DEF Fits
  <2>4. QED
    BY <1>1, <2>1, <2>2, <2>3, MovedOn DEF o
<1>4. ASSUME NEW r \in MayAsk(t), thread' = [thread EXCEPT ![t] = Posted(o, r)], Worker(t, "user"),
             running, OnlySlots
      PROVE  PortInv'
  <2> DEFINE s == Posted(o, r)
  <2>1. r \in Requests \cup {ExitRequest} /\ r # NoRequest
    BY MayAskParts
  <2>2. /\ s \in Slot /\ s.pc = "phase" /\ s.mailbox = r /\ s.suspended = o.suspended
        /\ s.gate = o.gate /\ s.exiting = (r = ExitRequest) /\ s.phase = o.phase
    BY <1>1, <2>1 DEF Slot, Posted
  <2>3. o.pc = "user"
    BY <1>4 DEF Worker, o
  <2> HIDE DEF s
  <2>4. ASSUME Fits(o, FALSE, kernel.state[t] = "TERMINATED", kernel.result[t])
        PROVE  Fits(s, FALSE, kernel.state[t] = "TERMINATED", kernel.result[t])
    BY <2>1, <2>2, <2>3, <2>4 DEF Fits
  <2>5. control # "join"
    BY <1>4 DEF PortInv, StageInv
  <2>6. thread' = [thread EXCEPT ![t] = s]
    BY <1>4 DEF s
  <2>7. QED
    BY <1>1, <1>4, <2>2, <2>4, <2>5, <2>6, MovedOn DEF o
<1>5. ASSUME Call(t) PROVE PortInv'
  <2>1. PICK r \in Calls[t] : thread' = [thread EXCEPT ![t] = Posted(o, r)]
    BY <1>5 DEF Call, Update, o
  <2>2. r \in MayAsk(t) /\ Worker(t, "user") /\ running /\ OnlySlots
    BY <1>5, <2>1 DEF MayAsk, Call
  <2>3. QED
    BY <1>4, <2>1, <2>2
<1>6. ASSUME Return(t), running PROVE PortInv'
  <2>1. ExitRequest \in MayAsk(t) /\ thread' = [thread EXCEPT ![t] = Posted(o, ExitRequest)]
    BY <1>6 DEF MayAsk, Return, Update, o
  <2>2. Worker(t, "user") /\ OnlySlots
    BY <1>6 DEF Return
  <2>3. QED
    BY <1>4, <1>6, <2>1, <2>2
<1>7. ASSUME Return(t), ~running PROVE PortInv'
  <2> DEFINE s == [o EXCEPT !.phase = "EXITED", !.pc = "ended"]
  <2>1. /\ s \in Slot /\ s.pc = "ended" /\ s.mailbox = o.mailbox /\ s.suspended = o.suspended
    BY <1>1 DEF Slot
  <2>2. Worker(t, "user") /\ thread' = [thread EXCEPT ![t] = s] /\ OnlySlots
    BY <1>7 DEF Return, Update, o
  <2> HIDE DEF s
  <2>3. QED
    BY <1>1, <1>7, <2>1, <2>2, MovedOn DEF o
<1>8. ASSUME StorePhase(t) PROVE PortInv'
  <2> DEFINE s == [o EXCEPT !.phase = "REQUEST", !.pc = "signal"]
  <2>1. /\ s \in Slot /\ s.pc = "signal" /\ s.mailbox = o.mailbox /\ s.suspended = o.suspended
        /\ s.gate = o.gate /\ s.exiting = o.exiting /\ s.phase = "REQUEST"
    BY <1>1 DEF Slot
  <2>2. Worker(t, "phase") /\ o.pc = "phase" /\ thread' = [thread EXCEPT ![t] = s] /\ OnlySlots
    BY <1>8 DEF StorePhase, Update, Worker, o
  <2> HIDE DEF s
  <2>3. ASSUME Fits(o, FALSE, kernel.state[t] = "TERMINATED", kernel.result[t]), ~o.suspended
        PROVE  Fits(s, FALSE, kernel.state[t] = "TERMINATED", kernel.result[t])
    BY <2>1, <2>2, <2>3 DEF Fits
  <2>4. ~o.suspended
    BY <2>2 DEF Worker, o
  <2>5. control = "join" => s.gate
    BY <1>2, <2>1, <2>2 DEF CanFinish
  <2>6. QED
    BY <1>1, <2>1, <2>2, <2>3, <2>4, <2>5, MovedOn DEF o
<1>9. ASSUME PassGate(t) PROVE PortInv'
  <2> DEFINE s == [o EXCEPT !.gate = FALSE, !.pc = "resume"]
  <2>1. /\ s \in Slot /\ s.pc = "resume" /\ s.mailbox = o.mailbox /\ s.suspended = o.suspended
        /\ s.gate = FALSE /\ s.phase = o.phase /\ s.response = o.response
    BY <1>1 DEF Slot
  <2>2. /\ Worker(t, "wait") /\ o.pc = "wait" /\ o.gate /\ ~o.suspended
        /\ thread' = [thread EXCEPT ![t] = s] /\ OnlySlots
    BY <1>9 DEF PassGate, Update, Worker, o
  <2> HIDE DEF s
  <2>3. ASSUME Fits(o, FALSE, kernel.state[t] = "TERMINATED", kernel.result[t])
        PROVE  Fits(s, FALSE, kernel.state[t] = "TERMINATED", kernel.result[t])
    BY <2>1, <2>2, <2>3 DEF Fits
  <2>4. QED
    BY <1>1, <2>1, <2>2, <2>3, MovedOn DEF o
<1>10. ASSUME LeaveRequest(t) PROVE PortInv'
  <2> DEFINE s == [o EXCEPT !.phase = "USER", !.pc = "read"]
  <2>1. /\ s \in Slot /\ s.pc = "read" /\ s.mailbox = o.mailbox /\ s.suspended = o.suspended
        /\ s.gate = o.gate /\ s.response = o.response
    BY <1>1 DEF Slot
  <2>2. /\ Worker(t, "resume") /\ o.pc = "resume"
        /\ thread' = [thread EXCEPT ![t] = s] /\ OnlySlots
    BY <1>10 DEF LeaveRequest, Update, Worker, o
  <2> HIDE DEF s
  <2>3. ASSUME Fits(o, FALSE, kernel.state[t] = "TERMINATED", kernel.result[t])
        PROVE  Fits(s, FALSE, kernel.state[t] = "TERMINATED", kernel.result[t])
    BY <2>1, <2>2, <2>3 DEF Fits
  <2>4. QED
    BY <1>1, <2>1, <2>2, <2>3, MovedOn DEF o
<1>11. ASSUME ReadResponse(t) PROVE PortInv'
  <2> DEFINE s == [o EXCEPT !.pc = "user"]
  <2>1. /\ s \in Slot /\ s.pc = "user" /\ s.mailbox = o.mailbox /\ s.suspended = o.suspended
        /\ s.gate = o.gate /\ s.phase = o.phase
    BY <1>1 DEF Slot
  <2>2. /\ Worker(t, "read") /\ o.pc = "read"
        /\ thread' = [thread EXCEPT ![t] = s] /\ OnlySlots
    BY <1>11 DEF ReadResponse, Update, Worker, o
  <2> HIDE DEF s
  <2>3. ASSUME Fits(o, FALSE, kernel.state[t] = "TERMINATED", kernel.result[t])
        PROVE  Fits(s, FALSE, kernel.state[t] = "TERMINATED", kernel.result[t])
    BY <2>1, <2>2, <2>3 DEF Fits
  <2>4. QED
    BY <1>1, <2>1, <2>2, <2>3, MovedOn DEF o
<1>12. QED
  BY <1>3, <1>5, <1>6, <1>7, <1>8, <1>9, <1>10, <1>11

\* The signal after which the control thread finds the request, or the end.
LEMMA WorkerSignals ==
    ASSUME PortInv, KernelPart, NEW t \in Tasks, Signal(t)
    PROVE  PortInv'
<1> DEFINE o == thread[t]
           s == [o EXCEPT !.pc = IF o.exiting THEN "leave" ELSE "wait"]
<1>1. o \in Slot /\ o.mailbox \in MayAsk(t) \cup {NoRequest}
  BY DEF PortInv, SlotsTyped
<1>2. control = "join" => CanFinish(o)
  BY DEF PortInv, StageInv
<1>3. /\ Worker(t, "signal") /\ thread' = [thread EXCEPT ![t] = s] /\ requestEvent' = TRUE
      /\ UNCHANGED <<kernel, control, running, failed, timerDue, pendingTicks>>
  BY DEF Signal, Update, flags
<1>4. o.pc = "signal" /\ ~o.suspended /\ WorkersRun
  BY <1>3 DEF Worker
<1> HIDE DEF o
<1>5. /\ s \in Slot /\ s.pc = (IF o.exiting THEN "leave" ELSE "wait") /\ s.mailbox = o.mailbox
      /\ s.suspended = o.suspended /\ s.gate = o.gate /\ s.phase = o.phase
  BY <1>1 DEF Slot
<1> HIDE DEF s
<1>6. control = "join" => CanFinish(s)
  BY <1>2, <1>4, <1>5 DEF CanFinish
<1>7. ASSUME running
      PROVE  /\ t = kernel.current
             /\ Fits(s, TRUE, kernel.state[t] = "TERMINATED", kernel.result[t])
             /\ AtTurn(s, TRUE, "wait")
  <2>1. /\ Fits(o, FALSE, kernel.state[t] = "TERMINATED", kernel.result[t])
        /\ t # kernel.current => Halted(o)
    BY <1>3, <1>7, WhoMoves DEF o
  <2>2. t = kernel.current
    BY <1>4, <2>1 DEF Halted
  <2>3. Fits(s, TRUE, kernel.state[t] = "TERMINATED", kernel.result[t])
    BY <1>4, <1>5, <2>1 DEF Fits
  <2>4. AtTurn(s, TRUE, "wait")
    BY <1>4, <1>5, <2>1 DEF Fits, AtTurn
  <2>5. QED
    BY <2>2, <2>3, <2>4
<1>8. running => (t = kernel.current /\ requestEvent') = TRUE
  BY <1>3, <1>7
<1>9. running => Fits(s, t = kernel.current /\ requestEvent', kernel.state[t] = "TERMINATED", kernel.result[t])
  BY <1>7, <1>8
<1>10. QED
  BY <1>1, <1>3, <1>4, <1>5, <1>6, <1>7, <1>9, Moved

\* The worker of a task that has ended returns.
LEMMA WorkerLeaves ==
    ASSUME PortInv, KernelPart, NEW t \in Tasks, Leave(t)
    PROVE  PortInv'
<1> DEFINE o == thread[t]
           s == [o EXCEPT !.phase = "EXITED", !.pc = "ended"]
<1>1. o \in Slot /\ o.mailbox \in MayAsk(t) \cup {NoRequest}
  BY DEF PortInv, SlotsTyped
<1>2. /\ Worker(t, "leave") /\ thread' = [thread EXCEPT ![t] = s] /\ requestEvent' = requestEvent
      /\ UNCHANGED <<kernel, control, running, failed, timerDue, pendingTicks>>
  BY DEF Leave, Update, OnlySlots, flags, events
<1>3. o.pc = "leave" /\ ~o.suspended /\ WorkersRun
  BY <1>2 DEF Worker
<1> HIDE DEF o
<1>4. /\ s \in Slot /\ s.pc = "ended" /\ s.mailbox = o.mailbox /\ s.phase = "EXITED"
      /\ s.suspended = o.suspended /\ s.gate = o.gate
  BY <1>1 DEF Slot
<1> HIDE DEF s
<1>5. CanFinish(s) /\ Halted(s)
  BY <1>3, <1>4 DEF CanFinish, Halted
<1>6. ASSUME running
      PROVE  /\ t # kernel.current
             /\ Fits(s, FALSE, kernel.state[t] = "TERMINATED", kernel.result[t])
  <2>1. /\ Fits(o, FALSE, kernel.state[t] = "TERMINATED", kernel.result[t])
        /\ t = kernel.current => AtTurn(o, FALSE, "wait")
    BY <1>2, <1>6, WhoMoves DEF o
  <2>2. t # kernel.current
    BY <1>3, <2>1 DEF AtTurn
  <2>3. Fits(s, FALSE, kernel.state[t] = "TERMINATED", kernel.result[t])
    BY <1>3, <1>4, <2>1 DEF Fits
  <2>4. QED
    BY <2>2, <2>3
<1>7. running => (t = kernel.current /\ requestEvent') = FALSE
  BY <1>6
<1>8. running => Fits(s, t = kernel.current /\ requestEvent', kernel.state[t] = "TERMINATED", kernel.result[t])
  BY <1>6, <1>7
<1>9. requestEvent' \in BOOLEAN
  BY <1>2 DEF PortInv, SlotsTyped
<1>10. QED
  BY <1>1, <1>2, <1>3, <1>4, <1>5, <1>6, <1>8, <1>9, Moved

\* A worker whose call to Windows fails ends the run; it is still to get to its end.
LEMMA WorkerGivesUp ==
    ASSUME PortInv, KernelPart, NEW t \in Tasks, WorkerFails(t)
    PROVE  PortInv'
<1> DEFINE o == thread[t]
<1>1. o \in Slot /\ o.mailbox \in MayAsk(t) \cup {NoRequest} /\ thread \in [Tasks -> Slot]
  BY DEF PortInv, SlotsTyped
<1>2. control = "join" => CanFinish(o)
  BY DEF PortInv, StageInv
<1>3. /\ failed' = TRUE /\ running' = FALSE /\ UNCHANGED <<kernel, requestEvent, timerDue, pendingTicks>>
      /\ control' = IF control = "wait" THEN "asleep" ELSE control
      /\ control \in {"wait", "asleep", "join"} /\ WorkersRun
  BY DEF WorkerFails, PortFail, events, Worker, WorkersRun, Waiting
<1>4. PICK x \in {"ended", "leave", "user"} : thread' = [thread EXCEPT ![t] = [o EXCEPT !.pc = x]]
  BY DEF WorkerFails, Update, o
<1> HIDE DEF o
<1> DEFINE s == [o EXCEPT !.pc = x]
<1>5. s \in Slot /\ s.mailbox = o.mailbox /\ s.pc = x /\ s.suspended = o.suspended
  BY <1>1 DEF Slot
<1>6. /\ thread' \in [Tasks -> Slot] /\ thread'[t] = s
      /\ \A u \in Tasks : u # t => thread'[u] = thread[u]
  BY <1>1, <1>4, <1>5
<1> HIDE DEF s
<1>7. SlotsTyped'
  BY <1>1, <1>3, <1>5, <1>6 DEF PortInv, SlotsTyped
<1>8. StageInv'
  <2>1. control = "join" => CanFinish(s)
    BY <1>2, <1>5 DEF CanFinish
  <2>2. QED
    BY <1>3, <1>6, <2>1 DEF PortInv, StageInv
<1>9. TickInv'
  <2>1. pendingTicks \in Nat /\ MaxPending \in Nat
    BY Win32PortAssumption DEF PortInv, TickInv
  <2>2. CASE control \in {"wait", "asleep"}
    <3>1. control = "wait" => ~failed
      BY <1>3 DEF PortInv, StageInv, WorkersRun, Waiting
    <3>2. pendingTicks <= MaxPending /\ control' = "asleep"
      BY <1>3, <2>1, <2>2, <3>1 DEF PortInv, TickInv
    <3>3. QED
      BY <1>3, <2>1, <3>2 DEF TickInv
  <2>3. CASE control = "join"
    <3>1. pendingTicks <= MaxPending + 1
      BY <2>1, <2>3 DEF PortInv, TickInv
    <3>2. QED
      BY <1>3, <2>1, <2>3, <3>1 DEF TickInv
  <2>4. QED
    BY <1>3, <2>2, <2>3
<1>10. Protocol'
  BY <1>3 DEF Protocol
<1>11. QED
  BY <1>7, <1>8, <1>9, <1>10 DEF PortInv

\* Every step of a worker.
LEMMA WorkerKeeps ==
    ASSUME PortInv, KernelPart, NEW t \in Tasks, WorkerStep(t)
    PROVE  PortInv' /\ KernelPart'
<1>1. PortInv'
  BY WorkerGoesOn, WorkerSignals, WorkerLeaves, WorkerGivesUp DEF WorkerStep, PortCode
<1>2. UNCHANGED <<kernel, objects>> /\ (control' = "stopped" <=> control = "stopped")
  BY DEF WorkerStep, PortCode, Enter, Call, Return, StorePhase, Signal, PassGate, LeaveRequest,
         ReadResponse, Leave, WorkerFails, OnlySlots, flags
<1>3. SafeInv /\ PriorityInv(kernel) => SafeInv' /\ PriorityInv(kernel')
  <2>1. [Next]_vars
    BY <1>2 DEF vars, objects
  <2>2. QED
    BY <1>2, <2>1, StepSafe
<1>4. QED
  BY <1>1, <1>2, <1>3 DEF KernelPart
-------------------------------------------------------------------------------
(* The control thread *)

\* Every worker stands still: the control thread deals with the kernel.
Still(slots, k) ==
    \A t \in Tasks :
        Fits(slots[t], FALSE, k.state[t] = "TERMINATED", k.result[t]) /\ Halted(slots[t])

\* A handler changes results, but none that a worker may already read.
LEMMA StillCarried ==
    ASSUME NEW slots, NEW k, NEW r, Still(slots, k), Carries(k, r)
    PROVE  Still(slots, r)
<1> SUFFICES ASSUME NEW t \in Tasks
             PROVE  Fits(slots[t], FALSE, r.state[t] = "TERMINATED", r.result[t]) /\ Halted(slots[t])
  BY DEF Still
<1>1. /\ Fits(slots[t], FALSE, k.state[t] = "TERMINATED", k.result[t]) /\ Halted(slots[t])
      /\ k.state[t] = "TERMINATED" => r.state[t] = "TERMINATED"
  BY DEF Still, Carries
<1>2. QED
  BY <1>1 DEF Fits, Halted

\* The ticks that were put off are applied while the workers stand still.
LEMMA StillSettled ==
    ASSUME NEW slots, NEW k, Still(slots, k), k.current \in Tasks, k.state[k.current] = "RUNNING"
    PROVE  Settled(slots, k, FALSE, "drain")
<1>1. \A t \in Tasks : (t = k.current /\ FALSE) = FALSE
  OBVIOUS
<1>2. \A t \in Tasks : /\ Fits(slots[t], t = k.current /\ FALSE, k.state[t] = "TERMINATED", k.result[t])
                       /\ Halted(slots[t])
  BY <1>1 DEF Still
<1>3. slots[k.current].pc \notin {"leave", "ended"}
  BY DEF Still, Fits
<1>4. AtTurn(slots[k.current], FALSE, "drain")
  BY <1>2, <1>3 DEF AtTurn
<1>5. QED
  BY <1>2, <1>4 DEF Settled

\* What os_PortActivate does to the slots.
LEMMA Activated ==
    ASSUME NEW slots \in [Tasks -> Slot], NEW k, k.current \in Tasks,
           k.result[k.current] \in Statuses, NoTask \notin Tasks
    PROVE  LET c == k.current
               a == Activate(slots, k)
           IN /\ a \in [Tasks -> Slot] /\ \A u \in Tasks : u # c => a[u] = slots[u]
              /\ a[c].pc = slots[c].pc /\ a[c].phase = slots[c].phase
              /\ a[c].mailbox = slots[c].mailbox /\ a[c].exiting = slots[c].exiting
              /\ a[c].response = k.result[c] /\ ~a[c].suspended
              /\ a[c].gate = (slots[c].gate \/ ~slots[c].suspended)
<1> DEFINE c == k.current
           answered == [slots EXCEPT ![c].response = k.result[c]]
           o == answered[c]
<1>1. slots[c] \in Slot /\ c # NoTask
  OBVIOUS
<1>2. /\ answered \in [Tasks -> Slot] /\ \A u \in Tasks : u # c => answered[u] = slots[u]
      /\ o = [slots[c] EXCEPT !.response = k.result[c]]
  BY <1>1 DEF Slot
<1>3. /\ o \in Slot /\ o.pc = slots[c].pc /\ o.phase = slots[c].phase
      /\ o.mailbox = slots[c].mailbox /\ o.exiting = slots[c].exiting
      /\ o.response = k.result[c] /\ o.suspended = slots[c].suspended /\ o.gate = slots[c].gate
  BY <1>1, <1>2 DEF Slot
<1>4. Activate(slots, k) = IF slots[c].suspended THEN [answered EXCEPT ![c] = [o EXCEPT !.suspended = FALSE]]
                                                 ELSE [answered EXCEPT ![c] = [o EXCEPT !.gate = TRUE]]
  BY <1>1 DEF Activate
<1> HIDE DEF answered
<1>5. o \in Slot /\ slots[c].gate \in BOOLEAN /\ slots[c].suspended \in BOOLEAN
  BY <1>1, <1>3 DEF Slot
<1> DEFINE p == IF slots[c].suspended THEN [o EXCEPT !.suspended = FALSE] ELSE [o EXCEPT !.gate = TRUE]
<1>6. /\ p \in Slot /\ p.pc = o.pc /\ p.phase = o.phase /\ p.mailbox = o.mailbox
      /\ p.exiting = o.exiting /\ p.response = o.response /\ ~p.suspended
      /\ p.gate = (slots[c].gate \/ ~slots[c].suspended)
  <2>1. CASE slots[c].suspended
    BY <1>3, <1>5, <2>1 DEF Slot
  <2>2. CASE ~slots[c].suspended
    BY <1>3, <1>5, <2>2 DEF Slot
  <2>3. QED
    BY <2>1, <2>2
<1>7. Activate(slots, k) = [answered EXCEPT ![c] = p]
  BY <1>4
<1> HIDE DEF p, o
<1>8. QED
  BY <1>2, <1>3, <1>6, <1>7 DEF c

\* The worker of the task the kernel leaves current goes on, alone.
LEMMA StillActivated ==
    ASSUME NEW slots \in [Tasks -> Slot], NEW k, Still(slots, k),
           k.current \in Tasks, k.state[k.current] = "RUNNING",
           k.result[k.current] \in Statuses, NoTask \notin Tasks
    PROVE  Settled(Activate(slots, k), k, FALSE, "wait")
<1> DEFINE c == k.current
           a == Activate(slots, k)
<1>1. /\ a \in [Tasks -> Slot] /\ \A u \in Tasks : u # c => a[u] = slots[u]
      /\ a[c].pc = slots[c].pc /\ a[c].phase = slots[c].phase
      /\ a[c].mailbox = slots[c].mailbox /\ a[c].exiting = slots[c].exiting
      /\ a[c].response = k.result[c] /\ ~a[c].suspended
      /\ a[c].gate = (slots[c].gate \/ ~slots[c].suspended)
  BY Activated
<1> HIDE DEF a
<1>2. /\ Fits(slots[c], FALSE, k.state[c] = "TERMINATED", k.result[c])
      /\ Halted(slots[c]) /\ k.state[c] # "TERMINATED"
  BY DEF Still
<1>3. slots[c].pc \notin {"leave", "ended"}
  BY <1>2 DEF Fits
<1>4. slots[c].suspended \/ (slots[c].pc = "wait" /\ ~slots[c].gate)
  BY <1>2, <1>3 DEF Halted
<1>5. a[c].gate => a[c].pc = "wait"
  BY <1>1, <1>2, <1>4 DEF Fits
<1>6. Fits(a[c], FALSE, k.state[c] = "TERMINATED", k.result[c])
  BY <1>1, <1>2, <1>5 DEF Fits
<1>7. slots[c].pc = "wait" => ~slots[c].suspended
  BY <1>2 DEF Fits
<1>8. AtTurn(a[c], FALSE, "wait")
  BY <1>1, <1>3, <1>7 DEF AtTurn
<1>9. \A t \in Tasks : (t = k.current /\ FALSE) = FALSE
  OBVIOUS
<1>10. \A t \in Tasks : /\ Fits(a[t], t = k.current /\ FALSE, k.state[t] = "TERMINATED", k.result[t])
                        /\ t # k.current => Halted(a[t])
  BY <1>1, <1>6, <1>9 DEF Still
<1>11. QED
  BY <1>8, <1>10 DEF Settled, a

\* Between two requests only the current task's worker does not stand still.
LEMMA OthersStandStill ==
    ASSUME NEW event \in BOOLEAN, NEW stage, NEW k, k.current \in Tasks, NEW slots, Settled(slots, k, event, stage)
    PROVE  /\ \A t \in Tasks \ {k.current} :
                 Fits(slots[t], FALSE, k.state[t] = "TERMINATED", k.result[t]) /\ Halted(slots[t])
           /\ Fits(slots[k.current], event, k.state[k.current] = "TERMINATED", k.result[k.current])
<1>1. \A t \in Tasks \ {k.current} : (t = k.current /\ event) = FALSE
  OBVIOUS
<1>2. (k.current = k.current /\ event) = event
  OBVIOUS
<1>3. QED
  BY <1>1, <1>2 DEF Settled

\* While the ticks that were put off are applied, none does.
LEMMA DrainsStill ==
    ASSUME NEW event \in BOOLEAN, NEW k, k.current \in Tasks, NEW slots, Settled(slots, k, event, "drain")
    PROVE  ~event /\ Still(slots, k)
<1>1. ~event /\ Halted(slots[k.current])
  BY DEF Settled, AtTurn
<1>2. QED
  BY ZenonT(60), <1>1, OthersStandStill DEF Still

\* The first full mailbox is one of them.
LEMMA Requester ==
    /\ Posting = {} => FindRequester = NoTask
    /\ Posting # {} => FindRequester \in Posting
<1>1. Posting \subseteq Nat
  BY OsKernelAssumption DEF Posting, Tasks
<1>2. QED
  BY <1>1, MinimumOfNaturals DEF FindRequester

\* The kernel keeps its invariant while the port leaves it alone.
LEMMA KernelLeft ==
    ASSUME KernelPart, control # "stopped", UNCHANGED <<kernel, objects>>
    PROVE  KernelPart' /\ SafeInv' /\ PriorityInv(kernel')
<1>1. SafeInv /\ PriorityInv(kernel) /\ [Next]_vars
  BY DEF KernelPart, vars, objects
<1>2. SafeInv' /\ PriorityInv(kernel')
  BY <1>1, StepSafe
<1>3. QED
  BY <1>2 DEF KernelPart

\* os_PortStartScheduler: of all workers only that of the first task goes on.
LEMMA StartKeeps ==
    ASSUME PortInv, KernelPart, StartScheduler
    PROVE  PortInv' /\ KernelPart'
<1>1. /\ control = "created" /\ SchedStart /\ control' = "wait" /\ UNCHANGED objects
      /\ requestEvent' = requestEvent /\ timerDue' = timerDue /\ pendingTicks' = pendingTicks
  BY DEF StartScheduler, events
<1>2. /\ ~running /\ ~failed /\ ~requestEvent /\ ~timerDue /\ pendingTicks = 0
      /\ thread = [t \in Tasks |-> CreatedSlot] /\ SlotsTyped
  BY <1>1 DEF PortInv, StageInv
<1>3. SafeInv /\ PriorityInv(kernel)
  BY <1>1 DEF KernelPart
<1>4. SafeInv' /\ PriorityInv(kernel') /\ Carries(kernel, kernel')
  BY <1>1, <1>3, StartStep
<1> DEFINE k == kernel'
           c == k.current
<1>5. /\ k.started /\ c \in Tasks /\ k.state[c] = "RUNNING" /\ k.result[c] \in Statuses
      /\ NoTask \notin Tasks
  <2>1. kernel' \in GoodKernel
    BY <1>4 DEF SafeInv, TypeInv
  <2>2. QED
    BY <1>4, <2>1, FieldTypes DEF Carries
<1>6. thread \in [Tasks -> Slot] /\ \A t \in Tasks : thread[t].mailbox \in MayAsk(t) \cup {NoRequest}
  BY <1>2 DEF SlotsTyped
<1>7. Still(thread, k)
  <2>1. ASSUME NEW t \in Tasks
        PROVE  Fits(thread[t], FALSE, k.state[t] = "TERMINATED", k.result[t]) /\ Halted(thread[t])
    <3>1. thread[t] = CreatedSlot
      BY <1>2
    <3>2. /\ CreatedSlot.phase = "CREATED" /\ CreatedSlot.suspended /\ CreatedSlot.pc = "new"
          /\ ~CreatedSlot.gate /\ CreatedSlot.mailbox = NoRequest
      BY DEF CreatedSlot
    <3> HIDE DEF k
    <3>3. QED
      BY <3>1, <3>2 DEF Fits, Halted
  <2>2. QED
    BY <2>1 DEF Still
<1>8. \/ running' = TRUE /\ failed' = failed /\ thread' = Activate(thread, k)
      \/ /\ running' = FALSE /\ failed' = TRUE
         /\ thread' = [thread EXCEPT ![c].response = k.result[c]]
  BY DEF StartScheduler, ActivateFails, PortFail
<1> HIDE DEF k
<1>9. /\ Activate(thread, k) \in [Tasks -> Slot]
      /\ \A t \in Tasks : Activate(thread, k)[t].mailbox = thread[t].mailbox
  BY <1>5, <1>6, Activated
<1>10. LET a == [thread EXCEPT ![c].response = k.result[c]]
       IN a \in [Tasks -> Slot] /\ \A t \in Tasks : a[t].mailbox = thread[t].mailbox
  BY <1>5, <1>6 DEF Slot
<1>11. /\ thread' \in [Tasks -> Slot] /\ \A t \in Tasks : thread'[t].mailbox = thread[t].mailbox
       /\ running' \in BOOLEAN /\ failed' \in BOOLEAN /\ (running' => ~failed')
  <2>1. CASE running' = TRUE /\ failed' = failed /\ thread' = Activate(thread, k)
    BY <1>2, <1>9, <2>1 DEF SlotsTyped
  <2>2. CASE /\ running' = FALSE /\ failed' = TRUE
             /\ thread' = [thread EXCEPT ![c].response = k.result[c]]
    BY <1>10, <2>2
  <2>3. QED
    BY <1>8, <2>1, <2>2
<1>12. SlotsTyped'
  BY <1>1, <1>2, <1>6, <1>11 DEF SlotsTyped
<1>13. StageInv'
  BY <1>1, <1>5, <1>11 DEF StageInv, k
<1>14. TickInv'
  <2>1. pendingTicks' = 0 /\ ~timerDue' /\ MaxPending \in Nat
    BY <1>1, <1>2, Win32PortAssumption
  <2>2. QED
    BY <2>1 DEF TickInv
<1>15. Protocol'
  <2> SUFFICES ASSUME running' PROVE Settled(thread', k, requestEvent', control')
    BY DEF Protocol, k
  <2>1. thread' = Activate(thread, k)
    BY <1>8
  <2>2. Settled(thread', k, FALSE, "wait")
    BY <1>5, <1>6, <1>7, <2>1, StillActivated
  <2>3. requestEvent' = FALSE
    BY <1>1, <1>2 DEF SlotsTyped
  <2>4. QED
    BY <1>1, <2>2, <2>3
<1>16. QED
  BY <1>4, <1>12, <1>13, <1>14, <1>15 DEF PortInv, KernelPart

\* The request of the current task: its answer waits for the end of the ticks.
LEMMA ServeKeeps ==
    ASSUME PortInv, KernelPart, ServeRequest
    PROVE  PortInv' /\ KernelPart'
<1> DEFINE c == kernel.current
           s == [thread[c] EXCEPT !.mailbox = NoRequest]
<1>1. /\ control \in {"wait", "asleep"} /\ requestEvent /\ requestEvent' = FALSE
      /\ timerDue' = timerDue /\ pendingTicks' = pendingTicks /\ FindRequester = c
      /\ Handle(thread[c].mailbox) /\ thread' = [thread EXCEPT ![c] = s]
      /\ failed' = (failed \/ ~KernelValidate(kernel')) /\ running' = ~failed'
      /\ control' = IF running' THEN "drain" ELSE "wait"
      /\ control = "wait" => running
  BY DEF ServeRequest, TakeRequest, Waiting, FailUnless
<1>2. /\ SafeInv /\ PriorityInv(kernel) /\ kernel.started /\ c \in Tasks
      /\ NoTask \notin Tasks
  BY <1>1, RunningKernel
<1>3. thread[c].mailbox # NoRequest
  BY <1>1, <1>2, Requester DEF Posting
<1>4. /\ thread \in [Tasks -> Slot] /\ thread[c].mailbox \in MayAsk(c)
      /\ \A t \in Tasks : thread[t].mailbox \in MayAsk(t) \cup {NoRequest}
  BY <1>2, <1>3 DEF PortInv, SlotsTyped
<1>5. /\ SafeInv' /\ PriorityInv(kernel') /\ Carries(kernel, kernel')
      /\ thread[c].mailbox = ExitRequest => kernel'.state[c] = "TERMINATED"
  BY <1>1, <1>2, <1>4, HandleStep
<1>6. /\ s \in Slot /\ s.mailbox = NoRequest /\ s.pc = thread[c].pc /\ s.phase = thread[c].phase
      /\ s.suspended = thread[c].suspended /\ s.gate = thread[c].gate
      /\ s.response = thread[c].response
  BY <1>2, <1>4 DEF Slot
<1> HIDE DEF s
<1>7. /\ thread' \in [Tasks -> Slot] /\ thread'[c] = s
      /\ \A t \in Tasks : t # c => thread'[t] = thread[t]
  BY <1>1, <1>2, <1>4, <1>6
<1>8. SlotsTyped'
  <2>1. \A t \in Tasks : thread'[t].mailbox \in MayAsk(t) \cup {NoRequest}
    BY <1>2, <1>4, <1>6, <1>7
  <2>2. QED
    BY <1>1, <1>7, <2>1 DEF PortInv, SlotsTyped
<1>9. StageInv'
  BY <1>1, <1>5 DEF StageInv, Carries
<1>10. TickInv'
  <2>1. pendingTicks \in Nat /\ MaxPending \in Nat
    BY Win32PortAssumption DEF PortInv, TickInv
  <2>2. pendingTicks <= MaxPending
    BY <1>1, <2>1 DEF PortInv, TickInv
  <2>3. QED
    BY <1>1, <2>1, <2>2 DEF TickInv
<1>11. Protocol'
  <2> SUFFICES ASSUME running' PROVE Settled(thread', kernel', requestEvent', control')
    BY DEF Protocol
  <2>1. control = "wait" /\ running /\ control' = "drain" /\ requestEvent = TRUE
    BY <1>1 DEF PortInv, StageInv, SlotsTyped
  <2>2. Settled(thread, kernel, TRUE, "wait")
    BY <2>1 DEF PortInv, Protocol
  <2>3. /\ Fits(thread[c], TRUE, kernel.state[c] = "TERMINATED", kernel.result[c])
        /\ \A t \in Tasks \ {c} :
              Fits(thread[t], FALSE, kernel.state[t] = "TERMINATED", kernel.result[t]) /\ Halted(thread[t])
    BY <1>2, <2>2, OthersStandStill
  <2>4. /\ ~thread[c].suspended /\ ~thread[c].gate
        /\ thread[c].pc = IF thread[c].mailbox = ExitRequest THEN "leave" ELSE "wait"
    BY <2>2 DEF Settled, AtTurn
  <2>5. Fits(s, FALSE, kernel'.state[c] = "TERMINATED", kernel'.result[c]) /\ Halted(s)
    BY <1>5, <1>6, <2>3, <2>4 DEF Fits, Halted
  <2>6. ASSUME NEW t \in Tasks, t # c
        PROVE  Fits(thread[t], FALSE, kernel'.state[t] = "TERMINATED", kernel'.result[t]) /\ Halted(thread[t])
    <3>1. /\ Fits(thread[t], FALSE, kernel.state[t] = "TERMINATED", kernel.result[t]) /\ Halted(thread[t])
          /\ kernel.state[t] = "TERMINATED" => kernel'.state[t] = "TERMINATED"
      BY <1>5, <2>3, <2>6 DEF Carries
    <3>2. QED
      BY <3>1 DEF Fits, Halted
  <2>7. Still(thread', kernel')
    BY <1>7, <2>5, <2>6 DEF Still
  <2>8. Settled(thread', kernel', FALSE, "drain")
    BY <1>5, <2>7, StillSettled DEF Carries
  <2>9. QED
    BY <1>1, <2>1, <2>8
<1>12. QED
  BY <1>5, <1>8, <1>9, <1>10, <1>11 DEF PortInv, KernelPart

\* A request the port does not expect ends the run.
LEMMA RefuseKeeps ==
    ASSUME PortInv, KernelPart, RefuseRequest
    PROVE  PortInv' /\ KernelPart'
<1>1. /\ control \in {"wait", "asleep"} /\ control' = "wait" /\ requestEvent' = FALSE
      /\ timerDue' = timerDue /\ failed' = TRUE /\ running' = FALSE
      /\ UNCHANGED <<kernel, objects>> /\ pendingTicks' = pendingTicks
      /\ control = "wait" => running
      /\ thread' = [t \in Tasks |-> IF t = FindRequester
                                    THEN [thread[t] EXCEPT !.mailbox = NoRequest] ELSE thread[t]]
  BY DEF RefuseRequest, TakeRequest, Waiting, PortFail
<1>2. thread' \in [Tasks -> Slot]
      /\ \A t \in Tasks : thread'[t].mailbox \in MayAsk(t) \cup {NoRequest}
  <2>1. \A t \in Tasks : thread[t] \in Slot /\ thread[t].mailbox \in MayAsk(t) \cup {NoRequest}
    BY DEF PortInv, SlotsTyped
  <2>2. ASSUME NEW t \in Tasks
        PROVE  LET s == [thread[t] EXCEPT !.mailbox = NoRequest] IN s \in Slot /\ s.mailbox = NoRequest
    BY <2>1 DEF Slot
  <2>3. QED
    BY <1>1, <2>1, <2>2
<1>3. SlotsTyped'
  BY <1>1, <1>2 DEF PortInv, SlotsTyped
<1>4. StageInv'
  BY <1>1 DEF PortInv, StageInv
<1>5. TickInv'
  <2>1. pendingTicks \in Nat /\ MaxPending \in Nat
    BY Win32PortAssumption DEF PortInv, TickInv
  <2>2. pendingTicks <= MaxPending
    BY <1>1, <2>1 DEF PortInv, TickInv
  <2>3. QED
    BY <1>1, <2>1, <2>2 DEF TickInv
<1>6. Protocol'
  BY <1>1 DEF Protocol
<1>7. KernelPart'
  BY <1>1, KernelLeft
<1>8. QED
  BY <1>3, <1>4, <1>5, <1>6, <1>7 DEF PortInv


\* os_PortApplyTick, for a kernel that runs; the run may end with it.
LEMMA AppliedTick ==
    ASSUME SafeInv, PriorityInv(kernel), kernel.started, ApplyTick
    PROVE  /\ SafeInv' /\ PriorityInv(kernel') /\ Carries(kernel, kernel')
           /\ kernel'.tick = (kernel.tick + 1) % TickModulus
           /\ running' \in BOOLEAN /\ failed' \in BOOLEAN
           /\ running' => running /\ (failed' <=> failed)
           /\ failed => failed'
<1>1. /\ kernel' = TimeTick(kernel) /\ UNCHANGED objects
      /\ failed' = (failed \/ ~KernelValidate(kernel')) /\ running' = RunGoesOn(kernel')
  BY DEF ApplyTick, FailUnless
<1>2. running' \in BOOLEAN /\ failed' \in BOOLEAN
  BY <1>1 DEF RunGoesOn
<1>3. running' => running /\ (failed' <=> failed)
  BY <1>1 DEF RunGoesOn
<1>4. QED
  BY <1>1, <1>2, <1>3, TickStep

\* A tick that was put off, applied before anybody goes on.
LEMMA DrainKeeps ==
    ASSUME PortInv, KernelPart, DrainTick
    PROVE  PortInv' /\ KernelPart'
<1>1. /\ control = "drain" /\ running /\ pendingTicks > 0 /\ pendingTicks' = pendingTicks - 1
      /\ control' = control /\ requestEvent' = requestEvent /\ timerDue' = timerDue
      /\ thread' = thread /\ ApplyTick
  BY DEF DrainTick
<1>2. /\ SafeInv /\ PriorityInv(kernel) /\ kernel.started /\ kernel.current \in Tasks
      /\ ~failed
  BY <1>1, RunningKernel DEF PortInv, StageInv
<1>3. /\ SafeInv' /\ PriorityInv(kernel') /\ Carries(kernel, kernel')
      /\ running' \in BOOLEAN /\ failed' \in BOOLEAN
      /\ running' => running /\ (failed' <=> failed)
  BY <1>1, <1>2, AppliedTick
<1>4. SlotsTyped'
  BY <1>1, <1>3 DEF PortInv, SlotsTyped
<1>5. StageInv'
  BY <1>1, <1>2, <1>3 DEF StageInv, Carries
<1>6. TickInv'
  <2>1. pendingTicks \in Nat /\ MaxPending \in Nat
    BY Win32PortAssumption DEF PortInv, TickInv
  <2>2. pendingTicks <= MaxPending
    BY <1>1, <2>1 DEF PortInv, TickInv
  <2>3. pendingTicks' \in Nat /\ pendingTicks' <= MaxPending
    BY <1>1, <2>1, <2>2
  <2>4. QED
    BY <1>1, <2>1, <2>3 DEF TickInv
<1>7. Protocol'
  <2> SUFFICES ASSUME running' PROVE Settled(thread', kernel', requestEvent', control')
    BY DEF Protocol
  <2>1. requestEvent \in BOOLEAN /\ Settled(thread, kernel, requestEvent, "drain")
    BY <1>1 DEF PortInv, Protocol, SlotsTyped
  <2>2. ~requestEvent /\ Still(thread, kernel)
    BY <1>2, <2>1, DrainsStill
  <2>3. requestEvent = FALSE /\ Still(thread, kernel')
    BY <1>3, <2>1, <2>2, StillCarried
  <2>4. Settled(thread, kernel', FALSE, "drain")
    BY <1>3, <2>3, StillSettled DEF Carries
  <2>5. QED
    BY <1>1, <2>3, <2>4
<1>8. QED
  BY <1>3, <1>4, <1>5, <1>6, <1>7 DEF PortInv, KernelPart

\* The end of the request: the current task's worker goes on, or the run is over.
LEMMA FinishKeeps ==
    ASSUME PortInv, KernelPart, FinishRequest
    PROVE  PortInv' /\ KernelPart'
<1> DEFINE c == kernel.current
           a == Activate(thread, kernel)
           b == [thread EXCEPT ![c].response = kernel.result[c]]
<1>1. /\ control = "drain" /\ control' = "wait" /\ (pendingTicks = 0 \/ ~running)
      /\ UNCHANGED <<kernel, objects>> /\ requestEvent' = requestEvent /\ timerDue' = timerDue
      /\ pendingTicks' = pendingTicks
  BY DEF FinishRequest, events
<1>2. /\ c \in Tasks /\ kernel.state[c] = "RUNNING" /\ kernel.result[c] \in Statuses
      /\ NoTask \notin Tasks /\ kernel.started
  BY <1>1, RunningKernel
<1>3. /\ thread \in [Tasks -> Slot] /\ \A t \in Tasks : thread[t].mailbox \in MayAsk(t) \cup {NoRequest}
      /\ running \in BOOLEAN /\ failed \in BOOLEAN /\ (running => ~failed)
  BY DEF PortInv, SlotsTyped, StageInv
<1>4. \/ running' = FALSE /\ thread' = thread /\ failed' = failed
      \/ running /\ running' = TRUE /\ thread' = a /\ failed' = failed
      \/ running /\ running' = FALSE /\ failed' = TRUE /\ thread' = b
  BY DEF FinishRequest, ActivateFails, PortFail
<1>5. a \in [Tasks -> Slot] /\ \A t \in Tasks : a[t].mailbox = thread[t].mailbox
  BY <1>2, <1>3, Activated
<1>6. b \in [Tasks -> Slot] /\ \A t \in Tasks : b[t].mailbox = thread[t].mailbox
  BY <1>2, <1>3 DEF Slot
<1> HIDE DEF a, b
<1>7. /\ thread' \in [Tasks -> Slot] /\ \A t \in Tasks : thread'[t].mailbox = thread[t].mailbox
      /\ running' \in BOOLEAN /\ failed' \in BOOLEAN /\ (running' => running /\ ~failed')
  <2>1. CASE running' = FALSE /\ thread' = thread /\ failed' = failed
    BY <1>3, <2>1
  <2>2. CASE running /\ running' = TRUE /\ thread' = a /\ failed' = failed
    BY <1>3, <1>5, <2>2
  <2>3. CASE running /\ running' = FALSE /\ failed' = TRUE /\ thread' = b
    BY <1>6, <2>3
  <2>4. QED
    BY <1>4, <2>1, <2>2, <2>3
<1>8. SlotsTyped'
  BY <1>1, <1>3, <1>7 DEF PortInv, SlotsTyped
<1>9. StageInv'
  BY <1>1, <1>2, <1>7 DEF StageInv
<1>10. TickInv'
  <2>1. pendingTicks \in Nat /\ MaxPending \in Nat \ {0}
    BY Win32PortAssumption DEF PortInv, TickInv
  <2>2. CASE running
    <3>1. pendingTicks' = 0
      BY <1>1, <2>2
    <3>2. QED
      BY <2>1, <3>1 DEF TickInv
  <2>3. CASE ~running
    <3>1. ~running' /\ failed' = failed
      BY <1>4, <2>3
    <3>2. pendingTicks <= MaxPending + (IF failed THEN 1 ELSE 0)
      BY <1>1, <2>3 DEF PortInv, TickInv
    <3>3. QED
      BY <1>1, <2>1, <3>1, <3>2 DEF TickInv
  <2>4. QED
    BY <2>2, <2>3
<1>11. Protocol'
  <2> SUFFICES ASSUME running' PROVE Settled(thread', kernel', requestEvent', control')
    BY DEF Protocol
  <2>1. running /\ thread' = a
    BY <1>4, <1>7
  <2>2. requestEvent \in BOOLEAN /\ Settled(thread, kernel, requestEvent, "drain")
    BY <1>1, <2>1 DEF PortInv, Protocol, SlotsTyped
  <2>3. ~requestEvent /\ Still(thread, kernel)
    BY <1>2, <2>2, DrainsStill
  <2>4. Settled(a, kernel, FALSE, "wait")
    BY <1>2, <1>3, <2>3, StillActivated DEF a
  <2>5. requestEvent' = FALSE
    BY <1>1, <2>2, <2>3
  <2>6. QED
    BY <1>1, <2>1, <2>4, <2>5
<1>12. KernelPart'
  BY <1>1, KernelLeft
<1>13. QED
  BY <1>8, <1>9, <1>10, <1>11, <1>12 DEF PortInv

\* A tick that finds the current task in a call is put off.
LEMMA PutOffKeeps ==
    ASSUME PortInv, KernelPart, PutOffTick
    PROVE  PortInv' /\ KernelPart'
<1>1. /\ control \in {"wait", "asleep"} /\ timerDue /\ ~requestEvent /\ ~Interruptible
      /\ control = "wait" => running
      /\ control' = "wait" /\ timerDue' = FALSE /\ requestEvent' = requestEvent
      /\ pendingTicks' = pendingTicks + 1 /\ UNCHANGED <<kernel, objects>>
      /\ running' = running /\ failed' = failed /\ thread' = thread
  BY DEF PutOffTick, TakeTimer, Waiting
<1>2. SlotsTyped'
  BY <1>1 DEF PortInv, SlotsTyped
<1>3. StageInv'
  BY <1>1 DEF PortInv, StageInv
<1>4. TickInv'
  <2>1. pendingTicks \in Nat /\ MaxPending \in Nat
    BY Win32PortAssumption DEF PortInv, TickInv
  <2>2. CASE control = "wait"
    <3>1. pendingTicks < MaxPending
      BY <1>1, <2>2 DEF PortInv, TickInv
    <3>2. pendingTicks' \in Nat /\ pendingTicks' <= MaxPending
      BY <1>1, <2>1, <3>1
    <3>3. QED
      BY <1>1, <2>1, <3>2 DEF TickInv
  <2>3. CASE control = "asleep"
    <3>1. pendingTicks <= MaxPending /\ failed /\ ~running
      BY <2>1, <2>3 DEF PortInv, TickInv, StageInv
    <3>2. pendingTicks' \in Nat /\ pendingTicks' <= MaxPending + 1
      BY <1>1, <2>1, <3>1
    <3>3. QED
      BY <1>1, <2>1, <3>1, <3>2 DEF TickInv
  <2>4. QED
    BY <1>1, <2>2, <2>3
<1>5. Protocol'
  <2>1. running => control = "wait"
    BY <1>1 DEF PortInv, StageInv
  <2>2. QED
    BY <1>1, <2>1 DEF PortInv, Protocol
<1>6. KernelPart'
  BY <1>1, KernelLeft
<1>7. QED
  BY <1>2, <1>3, <1>4, <1>5, <1>6 DEF PortInv


\* A worker that runs the task's own code may be suspended where it stands.
LEMMA SuspendedStill ==
    ASSUME PortInv, kernel.current \in Tasks, Interruptible, ~requestEvent, control = "wait",
           running, NoTask \notin Tasks
    PROVE  Still(Suspended(thread, kernel.current), kernel)
<1> DEFINE c == kernel.current
           s == [thread[c] EXCEPT !.suspended = TRUE]
           after == Suspended(thread, c)
<1>1. /\ thread \in [Tasks -> Slot] /\ requestEvent = FALSE
      /\ Settled(thread, kernel, FALSE, "wait")
  BY DEF PortInv, SlotsTyped, Protocol
<1>2. /\ s.pc = thread[c].pc /\ s.phase = thread[c].phase /\ s.mailbox = thread[c].mailbox
      /\ s.exiting = thread[c].exiting /\ s.gate = thread[c].gate /\ s.suspended = TRUE
      /\ s.response = thread[c].response
  BY <1>1 DEF Slot
<1>3. after[c] = s /\ \A t \in Tasks : t # c => after[t] = thread[t]
  BY <1>1 DEF Suspended
<1> HIDE DEF s, after
<1>4. thread[c].phase = "USER"
  BY DEF Interruptible
<1>5. /\ Fits(thread[c], FALSE, kernel.state[c] = "TERMINATED", kernel.result[c])
      /\ \A t \in Tasks \ {c} :
            Fits(thread[t], FALSE, kernel.state[t] = "TERMINATED", kernel.result[t]) /\ Halted(thread[t])
  BY <1>1, OthersStandStill
<1>6. Fits(s, FALSE, kernel.state[c] = "TERMINATED", kernel.result[c]) /\ Halted(s)
  BY <1>2, <1>4, <1>5 DEF Fits, Halted
<1>7. Still(after, kernel)
  BY <1>3, <1>5, <1>6 DEF Still
<1>8. QED
  BY <1>7 DEF after

\* Suspending a worker, and telling one its result, leaves the slots what they are.
LEMMA SlotsStay ==
    ASSUME NEW slots \in [Tasks -> Slot], NEW c \in Tasks, NEW d \in Tasks, NEW v \in Statuses
    PROVE  /\ Suspended(slots, c) \in [Tasks -> Slot]
           /\ \A t \in Tasks : Suspended(slots, c)[t].mailbox = slots[t].mailbox
           /\ [slots EXCEPT ![d].response = v] \in [Tasks -> Slot]
           /\ \A t \in Tasks : [slots EXCEPT ![d].response = v][t].mailbox = slots[t].mailbox
  BY ZenonT(60) DEF Suspended, Slot

\* os_PortSuspendCurrent, a tick, and the task it leaves current goes on.
LEMMA PreemptKeeps ==
    ASSUME PortInv, KernelPart, PreemptByTick
    PROVE  PortInv' /\ KernelPart'
<1> DEFINE c == kernel.current
           stopped == Suspended(thread, c)
           next == Activate(stopped, kernel')
<1>1. /\ control \in {"wait", "asleep"} /\ ~requestEvent /\ Interruptible
      /\ control = "wait" => running
      /\ control' = "wait" /\ timerDue' = FALSE /\ requestEvent' = requestEvent
      /\ pendingTicks' = pendingTicks /\ ApplyTick
  BY DEF PreemptByTick, TakeTimer, Waiting
<1>2. /\ SafeInv /\ PriorityInv(kernel) /\ kernel.started /\ c \in Tasks
      /\ kernel.result \in [Tasks -> Statuses] /\ NoTask \notin Tasks
  BY <1>1, RunningKernel
<1>3. /\ SafeInv' /\ PriorityInv(kernel') /\ Carries(kernel, kernel')
      /\ running' \in BOOLEAN /\ failed' \in BOOLEAN
      /\ running' => running /\ (failed' <=> failed)
      /\ failed => failed'
  BY <1>1, <1>2, AppliedTick
<1>4. thread' = IF running' THEN next ELSE stopped
  BY <1>2 DEF PreemptByTick
<1>5. /\ thread \in [Tasks -> Slot] /\ \A t \in Tasks : thread[t].mailbox \in MayAsk(t) \cup {NoRequest}
      /\ running => ~failed /\ control \in {"wait", "drain"}
  BY DEF PortInv, SlotsTyped, StageInv
<1>6. stopped \in [Tasks -> Slot] /\ \A t \in Tasks : stopped[t].mailbox = thread[t].mailbox
  BY ZenonT(60), <1>2, <1>5, SlotsStay
<1>7. running' => Still(stopped, kernel)
  BY <1>1, <1>2, <1>3, <1>5, SuspendedStill
<1> HIDE DEF stopped
<1>8. next \in [Tasks -> Slot] /\ \A t \in Tasks : next[t].mailbox = thread[t].mailbox
  <2>1. /\ kernel'.current \in Tasks /\ kernel'.result[kernel'.current] \in Statuses
    BY <1>3 DEF Carries
  <2> DEFINE k == kernel'
  <2> HIDE DEF k
  <2>2. k.current \in Tasks /\ k.result[k.current] \in Statuses
    BY <2>1 DEF k
  <2> DEFINE a == Activate(stopped, k)
  <2>3. /\ a \in [Tasks -> Slot] /\ \A u \in Tasks : u # k.current => a[u] = stopped[u]
        /\ a[k.current].mailbox = stopped[k.current].mailbox
    BY <1>2, <1>6, <2>2, Activated
  <2> HIDE DEF a
  <2>4. a \in [Tasks -> Slot] /\ \A t \in Tasks : a[t].mailbox = thread[t].mailbox
    BY <1>6, <2>3
  <2>5. QED
    BY <2>4 DEF a, k
<1> HIDE DEF next
<1>9. thread' \in [Tasks -> Slot] /\ \A t \in Tasks : thread'[t].mailbox = thread[t].mailbox
  BY <1>3, <1>4, <1>6, <1>8
<1>10. SlotsTyped'
  BY <1>1, <1>3, <1>5, <1>9 DEF PortInv, SlotsTyped
<1>11. StageInv'
  BY <1>1, <1>3, <1>5 DEF StageInv, Carries
<1>12. TickInv'
  <2>1. pendingTicks \in Nat /\ MaxPending \in Nat
    BY Win32PortAssumption DEF PortInv, TickInv
  <2>2. pendingTicks <= MaxPending
    BY <1>1, <2>1 DEF PortInv, TickInv
  <2>3. QED
    BY <1>1, <2>1, <2>2 DEF TickInv
<1>13. Protocol'
  <2> SUFFICES ASSUME running' PROVE Settled(thread', kernel', requestEvent', control')
    BY DEF Protocol
  <2>1. Still(stopped, kernel') /\ thread' = next
    BY <1>3, <1>4, <1>7, StillCarried
  <2>2. Settled(next, kernel', FALSE, "wait")
    <3>1. kernel'.current \in Tasks /\ kernel'.state[kernel'.current] = "RUNNING"
          /\ kernel'.result[kernel'.current] \in Statuses
      BY <1>3 DEF Carries
    <3>2. QED
      BY <1>2, <1>6, <2>1, <3>1, StillActivated DEF next
  <2>3. requestEvent' = FALSE
    BY <1>1 DEF PortInv, SlotsTyped
  <2>4. QED
    BY <1>1, <2>1, <2>2, <2>3
<1>14. QED
  BY <1>3, <1>10, <1>11, <1>12, <1>13 DEF PortInv, KernelPart

\* A step that fails the port and leaves nobody but its own loop to go on.
LEMMA FailureKeeps ==
    ASSUME PortInv, control \in {"wait", "asleep"}, control' = "wait", kernel'.started,
           PortFail, pendingTicks' = pendingTicks, requestEvent' \in BOOLEAN, timerDue' \in BOOLEAN,
           control = "wait" => running,
           thread' \in [Tasks -> Slot], \A t \in Tasks : thread'[t].mailbox = thread[t].mailbox
    PROVE  PortInv'
<1>1. failed' = TRUE /\ running' = FALSE
  BY DEF PortFail
<1>2. SlotsTyped'
  BY <1>1 DEF PortInv, SlotsTyped
<1>3. StageInv'
  BY <1>1 DEF StageInv
<1>4. TickInv'
  <2>1. pendingTicks \in Nat /\ MaxPending \in Nat
    BY Win32PortAssumption DEF PortInv, TickInv
  <2>2. pendingTicks <= MaxPending
    BY <2>1 DEF PortInv, TickInv
  <2>3. QED
    BY <1>1, <2>1, <2>2 DEF TickInv
<1>5. Protocol'
  BY <1>1 DEF Protocol
<1>6. QED
  BY <1>2, <1>3, <1>4, <1>5 DEF PortInv

\* The worker cannot be suspended, or not be set going again; or the wait fails.
LEMMA PreemptFailsKeeps ==
    ASSUME PortInv, KernelPart, PreemptFails \/ WaitFails
    PROVE  PortInv' /\ KernelPart'
<1>1. /\ control \in {"wait", "asleep"} /\ control' = "wait" /\ PortFail
      /\ control = "wait" => running
      /\ UNCHANGED objects /\ pendingTicks' = pendingTicks
      /\ requestEvent' = requestEvent /\ (timerDue' = FALSE \/ timerDue' = timerDue)
  BY DEF PreemptFails, WaitFails, TakeTimer, Waiting, ActivateFails, events
<1>2. requestEvent' \in BOOLEAN /\ timerDue' \in BOOLEAN /\ thread \in [Tasks -> Slot]
  BY <1>1 DEF PortInv, SlotsTyped
<1>3. /\ SafeInv /\ PriorityInv(kernel) /\ kernel.started /\ kernel.current \in Tasks
      /\ NoTask \notin Tasks
  BY <1>1, RunningKernel
<1>4. CASE UNCHANGED <<kernel, thread>>
  BY <1>1, <1>2, <1>3, <1>4, FailureKeeps, KernelLeft
<1>5. CASE /\ kernel' = TimeTick(kernel)
           /\ ActivateFails(Suspended(thread, kernel.current), kernel')
  <2> DEFINE stopped == Suspended(thread, kernel.current)
             d == kernel'.current
             v == kernel'.result[d]
  <2>1. SafeInv' /\ PriorityInv(kernel') /\ Carries(kernel, kernel')
    BY <1>1, <1>3, <1>5, TickStep
  <2>2. d \in Tasks /\ v \in Statuses /\ kernel'.started
    BY <2>1 DEF Carries
  <2>3. thread' = [stopped EXCEPT ![d].response = v]
    BY <1>5 DEF ActivateFails
  <2> HIDE DEF d, v
  <2>4. stopped \in [Tasks -> Slot] /\ \A t \in Tasks : stopped[t].mailbox = thread[t].mailbox
    BY <1>2, <1>3, SlotsStay, <2>2
  <2> HIDE DEF stopped
  <2>5. thread' \in [Tasks -> Slot] /\ \A t \in Tasks : thread'[t].mailbox = stopped[t].mailbox
    BY <2>2, <2>3, <2>4, SlotsStay
  <2>6. PortInv'
    BY <1>1, <1>2, <2>2, <2>4, <2>5, FailureKeeps
  <2>7. QED
    BY <2>1, <2>6 DEF KernelPart
<1>6. QED
  BY <1>4, <1>5 DEF PreemptFails, WaitFails

\* os_PortReleaseThreads, os_PortJoinThreads, and the timer.
LEMMA ReleaseKeeps ==
    ASSUME PortInv, KernelPart, ReleaseThreads
    PROVE  PortInv' /\ KernelPart'
<1>1. /\ control = "wait" /\ ~running /\ control' = "join"
      /\ UNCHANGED <<kernel, objects>> /\ running' = running /\ failed' = failed
      /\ requestEvent' = requestEvent /\ timerDue' = timerDue /\ pendingTicks' = pendingTicks
      /\ thread' = [t \in Tasks |-> [thread[t] EXCEPT !.suspended = FALSE, !.gate = TRUE]]
  BY DEF ReleaseThreads, events
<1>2. \A t \in Tasks : thread[t] \in Slot /\ thread[t].mailbox \in MayAsk(t) \cup {NoRequest}
  BY DEF PortInv, SlotsTyped
<1>3. ASSUME NEW t \in Tasks
      PROVE  LET s == [thread[t] EXCEPT !.suspended = FALSE, !.gate = TRUE] IN
             s \in Slot /\ s.mailbox = thread[t].mailbox /\ ~s.suspended /\ s.gate
  BY <1>2 DEF Slot
<1>4. /\ thread' \in [Tasks -> Slot] /\ \A t \in Tasks : thread'[t].mailbox = thread[t].mailbox
      /\ \A t \in Tasks : ~thread'[t].suspended /\ thread'[t].gate
  BY <1>1, <1>3
<1>5. SlotsTyped'
  BY <1>1, <1>2, <1>4 DEF PortInv, SlotsTyped
<1>6. StageInv'
  BY <1>1, <1>4 DEF PortInv, StageInv, CanFinish
<1>7. TickInv'
  BY <1>1 DEF PortInv, TickInv
<1>8. Protocol'
  BY <1>1 DEF Protocol
<1>9. KernelPart'
  BY <1>1, KernelLeft
<1>10. QED
  BY <1>5, <1>6, <1>7, <1>8, <1>9 DEF PortInv

\* The end of os_Start on the host: only whether the threads have ended is kept.
LEMMA JoinKeeps ==
    ASSUME PortInv, KernelPart, JoinThreads
    PROVE  PortInv' /\ KernelPart'
<1>1. /\ control = "join" /\ control' = "stopped" /\ running' = running
      /\ failed' = (failed \/ ~AllEnded)
      /\ kernel' = KernelStopAll(kernel) /\ thread' = [t \in Tasks |-> CreatedSlot]
      /\ requestEvent' = requestEvent /\ timerDue' = timerDue /\ pendingTicks' = pendingTicks
  BY DEF JoinThreads, FailUnless, events
<1>2. ~running
  BY <1>1 DEF PortInv, StageInv
<1>3. kernel'.started
  <2>1. kernel \in Kernel
    BY <1>1 DEF KernelPart, SafeInv, TypeInv, GoodKernel
  <2>2. QED
    BY <1>1, <2>1 DEF KernelStopAll, Kernel
<1>4. CreatedSlot \in Slot /\ CreatedSlot.mailbox = NoRequest
  BY DEF CreatedSlot, Slot, Statuses
<1>5. SlotsTyped'
  <2> HIDE DEF CreatedSlot
  <2>1. QED
    BY <1>1, <1>4 DEF PortInv, SlotsTyped
<1>6. StageInv'
  BY <1>1, <1>2, <1>3 DEF StageInv
<1>7. TickInv'
  <2>1. pendingTicks \in Nat /\ MaxPending \in Nat
    BY Win32PortAssumption DEF PortInv, TickInv
  <2>2. pendingTicks <= MaxPending + (IF failed THEN 1 ELSE 0)
    BY <1>1, <1>2, <2>1 DEF PortInv, TickInv
  <2>3. pendingTicks <= MaxPending + (IF failed' THEN 1 ELSE 0)
    <3>1. failed => failed'
      BY <1>1
    <3>2. CASE failed
      BY <2>2, <3>1, <3>2
    <3>3. CASE ~failed
      BY <2>1, <2>2, <3>3
    <3>4. QED
      BY <3>2, <3>3
  <2>4. QED
    BY <1>1, <1>2, <2>1, <2>3 DEF TickInv
<1>8. Protocol'
  BY <1>1, <1>2 DEF Protocol
<1>9. QED
  BY <1>1, <1>5, <1>6, <1>7, <1>8 DEF PortInv, KernelPart

\* The timer that expires while the control thread is at work is seen afterwards.
LEMMA TimerKeeps ==
    ASSUME PortInv, KernelPart, TimerExpires
    PROVE  PortInv' /\ KernelPart'
<1>1. /\ \/ control = "wait" /\ running
         \/ control = "asleep"
         \/ control = "drain" /\ running
      /\ pendingTicks < MaxPending \/ Interruptible \/ control = "asleep"
      /\ timerDue' = TRUE /\ UNCHANGED <<kernel, objects>>
      /\ control' = control /\ running' = running /\ failed' = failed
      /\ requestEvent' = requestEvent /\ pendingTicks' = pendingTicks /\ thread' = thread
  BY DEF TimerExpires, TimerFires, Waiting, flags
<1>2. SlotsTyped'
  BY <1>1 DEF PortInv, SlotsTyped
<1>3. StageInv'
  BY <1>1, <1>1 DEF PortInv, StageInv
<1>4. TickInv'
  BY <1>1 DEF PortInv, TickInv, Interruptible
<1>5. Protocol'
  BY <1>1 DEF PortInv, Protocol
<1>6. KernelPart'
  <2>1. control # "stopped"
    BY <1>1
  <2>2. QED
    BY <1>1, <2>1, KernelLeft
<1>7. QED
  BY <1>2, <1>3, <1>4, <1>5, <1>6 DEF PortInv

\* A step of nobody.
LEMMA StutterKeeps ==
    ASSUME PortInv, KernelPart, UNCHANGED portVars
    PROVE  PortInv' /\ KernelPart'
<1>1. /\ UNCHANGED <<kernel, objects>> /\ control' = control /\ running' = running /\ failed' = failed
      /\ requestEvent' = requestEvent /\ timerDue' = timerDue /\ pendingTicks' = pendingTicks
      /\ thread' = thread
  BY DEF portVars, flags, events
<1>2. SlotsTyped'
  BY <1>1 DEF PortInv, SlotsTyped
<1>3. StageInv'
  BY <1>1 DEF PortInv, StageInv
<1>4. TickInv'
  BY <1>1 DEF PortInv, TickInv, Interruptible
<1>5. Protocol'
  BY <1>1 DEF PortInv, Protocol
<1>6. KernelPart'
  BY <1>1, KernelLeft DEF KernelPart
<1>7. QED
  BY <1>2, <1>3, <1>4, <1>5, <1>6 DEF PortInv

\* The invariant holds whatever the workers, the timer and Windows do.
LEMMA AlwaysPort == PortSpec => [](PortInv /\ KernelPart)
<1>1. PortInit => PortInv /\ KernelPart
  BY InitPort
<1>2. PortInv /\ KernelPart /\ [PortNext]_portVars => (PortInv /\ KernelPart)'
  <2> SUFFICES ASSUME PortInv, KernelPart, [PortNext]_portVars PROVE PortInv' /\ KernelPart'
    OBVIOUS
  <2>1. CASE ControlStep
    BY <2>1, StartKeeps, ServeKeeps, RefuseKeeps, DrainKeeps, FinishKeeps, PutOffKeeps,
       PreemptKeeps, PreemptFailsKeeps, ReleaseKeeps, JoinKeeps DEF ControlStep
  <2>2. CASE TimerExpires
    BY <2>2, TimerKeeps
  <2>3. CASE \E t \in Tasks : WorkerStep(t)
    BY <2>3, WorkerKeeps
  <2>4. CASE UNCHANGED portVars
    BY <2>4, StutterKeeps
  <2>5. QED
    BY <2>1, <2>2, <2>3, <2>4 DEF PortNext
<1>3. QED
  BY <1>1, <1>2, PTL DEF PortSpec

-------------------------------------------------------------------------------
(* The properties *)

\* Every variable of the port keeps its type, and the ticks that were put off
\* stay within the bound: none is taken from an empty count.
THEOREM PortTypeCorrect == PortSpec => []PortTypeOK
<1>1. PortInv => PortTypeOK
  <2> SUFFICES ASSUME PortInv PROVE PortTypeOK
    OBVIOUS
  <2>1. pendingTicks \in Nat /\ MaxPending \in Nat
    BY Win32PortAssumption DEF PortInv, TickInv
  <2>2. pendingTicks \in 0 .. MaxPending + (IF failed THEN 1 ELSE 0)
    <3>1. CASE failed
      BY <2>1, <3>1 DEF PortInv, TickInv
    <3>2. CASE ~failed
      BY <2>1, <3>2 DEF PortInv, TickInv
    <3>3. QED
      BY <3>1, <3>2
  <2>3. QED
    BY <2>2 DEF PortInv, SlotsTyped, PortTypeOK
<1>2. QED
  BY <1>1, AlwaysPort, PTL

\* Of all the workers the current task's alone can run while the control thread
\* waits, however the calls, the ticks and the tasks' ends follow each other.
THEOREM OneTaskAtATime == PortSpec => []OnlyCurrentRuns
<1>1. PortInv /\ KernelPart => OnlyCurrentRuns
  <2> SUFFICES ASSUME PortInv, KernelPart, control = "wait", running, ~requestEvent
               PROVE  {t \in Tasks : CanRun(t) /\ thread[t].pc # "leave"} = {kernel.current}
    BY DEF OnlyCurrentRuns
  <2>1. /\ kernel.current \in Tasks /\ requestEvent = FALSE
        /\ Settled(thread, kernel, FALSE, "wait")
    BY RunningKernel DEF PortInv, SlotsTyped, Protocol
  <2>2. CanRun(kernel.current) /\ thread[kernel.current].pc # "leave"
    BY <2>1 DEF Settled, AtTurn, CanRun
  <2>3. ASSUME NEW t \in Tasks, t # kernel.current, CanRun(t) PROVE thread[t].pc = "leave"
    BY <2>1, <2>3 DEF Settled, Halted, CanRun
  <2>4. QED
    BY <2>1, <2>2, <2>3
<1>2. QED
  BY <1>1, AlwaysPort, PTL

\* An open gate is the answer to the current task's request, never one left over
\* from an earlier call.
THEOREM GatesAreAnswers == PortSpec => []OpenGateIsAnAnswer
<1>1. PortInv /\ KernelPart => OpenGateIsAnAnswer
  <2> SUFFICES ASSUME PortInv, KernelPart, running, NEW t \in Tasks, thread[t].gate
               PROVE  t = kernel.current /\ thread[t].pc = "wait" /\ thread[t].mailbox = NoRequest
    BY DEF OpenGateIsAnAnswer
  <2>1. /\ kernel.current \in Tasks /\ requestEvent \in BOOLEAN
        /\ Settled(thread, kernel, requestEvent, control) /\ control \in {"wait", "drain"}
    BY RunningKernel DEF PortInv, StageInv, SlotsTyped, Protocol
  <2>2. /\ t # kernel.current =>
              Fits(thread[t], FALSE, kernel.state[t] = "TERMINATED", kernel.result[t]) /\ Halted(thread[t])
        /\ Fits(thread[kernel.current], requestEvent, kernel.state[kernel.current] = "TERMINATED",
                kernel.result[kernel.current])
    BY <2>1, OthersStandStill
  <2>3. thread[t].pc = "wait" /\ ~thread[t].suspended
    BY <2>2 DEF Fits
  <2>4. t = kernel.current
    BY <2>2, <2>3 DEF Halted
  <2>5. ~requestEvent
    BY <2>1, <2>3, <2>4 DEF Settled, AtTurn, Halted
  <2>6. requestEvent = FALSE
    BY <2>1, <2>5
  <2>7. QED
    BY <2>2, <2>3, <2>4, <2>6 DEF Fits
<1>2. QED
  BY <1>1, AlwaysPort, PTL

\* Once the run is over no worker is left suspended, or at a gate that stays shut,
\* whatever call it was in when the run ended or a call to Windows failed.
THEOREM EverybodyIsReleased == PortSpec => []NobodyLeftBehind
<1>1. PortInv => NobodyLeftBehind
  BY DEF PortInv, StageInv, CanFinish, NobodyLeftBehind, CanRun
<1>2. QED
  BY <1>1, AlwaysPort, PTL

\* Whatever Windows calls fail and however requests, suspensions and the ticks put
\* off follow each other, the kernel keeps what it promises until the run is over.
\* In particular the port never fails because of os_KernelValidate.
THEOREM KernelHoldsOnWindows == PortSpec => [](control # "stopped" => KernelPromises)
<1>1. PortInv /\ KernelPart => (control # "stopped" => KernelPromises)
  BY SafePromises DEF KernelPart
<1>2. QED
  BY <1>1, AlwaysPort, PTL

\* Every step of the port before the end of the run is one of the kernel, or none.
LEMMA KernelSteps ==
    ASSUME PortInv, KernelPart, [PortNext]_portVars, control' # "stopped"
    PROVE  [Next]_vars
<1>1. CASE StartScheduler
  BY <1>1 DEF StartScheduler, Next, Start, objects
<1>2. CASE ServeRequest
  <2> DEFINE c == kernel.current
  <2>1. /\ control \in {"wait", "asleep"} /\ FindRequester = c /\ Handle(thread[c].mailbox)
    BY <1>2 DEF ServeRequest, TakeRequest, Waiting
  <2>2. c \in Tasks /\ NoTask \notin Tasks
    BY <2>1, RunningKernel
  <2>3. thread[c].mailbox # NoRequest
    BY <2>1, <2>2, Requester DEF Posting
  <2>4. thread[c].mailbox \in MayAsk(c)
    BY <2>2, <2>3 DEF PortInv, SlotsTyped
  <2>5. QED
    BY <2>1, <2>2, <2>4, RequestIsStep
<1>3. CASE DrainTick \/ PreemptByTick \/ PreemptFails
  <2>1. control \in {"wait", "asleep", "drain"} /\ UNCHANGED objects
    BY <1>3 DEF DrainTick, PreemptByTick, PreemptFails, TakeTimer, Waiting, ApplyTick
  <2>2. kernel.started
    BY <2>1, RunningKernel
  <2>3. kernel' = TimeTick(kernel) \/ UNCHANGED kernel
    BY <1>3 DEF DrainTick, PreemptByTick, PreemptFails, ApplyTick
  <2>4. QED
    BY <2>1, <2>2, <2>3 DEF Next, Timer, Tick, vars, objects
<1>4. CASE \/ RefuseRequest \/ FinishRequest \/ PutOffTick \/ WaitFails \/ ReleaseThreads
           \/ TimerExpires \/ (\E t \in Tasks : WorkerStep(t)) \/ UNCHANGED portVars
  <2>1. UNCHANGED <<kernel, objects>>
    BY <1>4 DEF RefuseRequest, FinishRequest, PutOffTick, WaitFails, ReleaseThreads, TimerExpires,
                WorkerStep, PortCode, Enter, Call, Return, StorePhase, Signal, PassGate, LeaveRequest,
                ReadResponse, Leave, WorkerFails, OnlySlots, portVars
  <2>2. QED
    BY <2>1 DEF vars, objects
<1>5. ~JoinThreads
  BY DEF JoinThreads
<1>6. QED
  BY <1>1, <1>2, <1>3, <1>4, <1>5 DEF PortNext, ControlStep

\* Until the run is over the port is an implementation of the kernel's
\* specification: none of its steps does anything else to the kernel than a call of
\* the current task, a tick or the start, and no wait ends too early, too late or
\* without its object, also after a failure.
THEOREM WindowsRunsKernel ==
    PortSpec => /\ Init /\ [][Next \/ control' = "stopped"]_vars
                /\ [][control' # "stopped" => EndsOnTime /\ HandedOver]_vars
<1> DEFINE I == PortInv /\ KernelPart
<1>1. PortSpec => []I
  BY AlwaysPort
<1>2. PortInit => Init
  BY DEF PortInit
<1>3. ASSUME PortInv, KernelPart, [PortNext]_portVars, control' # "stopped"
      PROVE  [Next]_vars /\ [EndsOnTime /\ HandedOver]_vars
  <2>1. [Next]_vars
    BY <1>3, KernelSteps
  <2>2. CASE UNCHANGED vars
    BY <2>1, <2>2
  <2>3. CASE control # "stopped"
    <3>1. SafeInv
      BY <1>3, <2>3 DEF KernelPart
    <3>2. QED
      BY <2>1, <3>1, StepEndsOnTime, StepHandsOver
  <2>4. CASE control = "stopped"
    <3>1. ~ControlStep
      BY <1>3, <2>4 DEF ControlStep, StartScheduler, ServeRequest, RefuseRequest, TakeRequest, TakeTimer,
                  Waiting, DrainTick, FinishRequest, PutOffTick, PreemptByTick, PreemptFails,
                  WaitFails, ReleaseThreads, JoinThreads
    <3>2. UNCHANGED <<kernel, objects>>
      BY <1>3, <3>1 DEF PortNext, TimerExpires, WorkerStep, PortCode, Enter, Call, Return, StorePhase,
                  Signal, PassGate, LeaveRequest, ReadResponse, Leave, WorkerFails, OnlySlots, portVars
    <3>3. UNCHANGED vars
      BY <3>2 DEF vars, objects
    <3>4. QED
      BY <2>2, <3>3
  <2>5. QED
    BY <2>1, <2>2, <2>3, <2>4
<1>4. I /\ [PortNext]_portVars => /\ [Next \/ control' = "stopped"]_vars
                                 /\ [control' # "stopped" => EndsOnTime /\ HandedOver]_vars
  BY <1>3
<1> HIDE DEF I
<1>5. QED
  BY <1>1, <1>2, <1>4, PTL DEF PortSpec

\* The port refuses no request but that of a worker which the timer suspended
\* between its two stores.
THEOREM RequestsAreServed == PortSpec => []RefusedOnlyBetweenStores
<1>1. PortInv /\ KernelPart => RefusedOnlyBetweenStores
  <2> SUFFICES ASSUME PortInv, KernelPart, control = "wait", running, requestEvent,
                      FindRequester # kernel.current
               PROVE  \E t \in Tasks : thread[t].suspended /\ thread[t].pc = "phase"
    BY DEF RefusedOnlyBetweenStores
  <2>1. /\ kernel.current \in Tasks /\ requestEvent = TRUE
        /\ Settled(thread, kernel, TRUE, "wait")
    BY RunningKernel DEF PortInv, SlotsTyped, Protocol
  <2>2. kernel.current \in Posting
    BY <2>1 DEF Settled, AtTurn, Posting
  <2>3. PICK t \in Posting : t = FindRequester
    BY <2>2, Requester
  <2>4. t \in Tasks /\ t # kernel.current /\ thread[t].mailbox # NoRequest
    BY <2>3 DEF Posting
  <2>5. Fits(thread[t], FALSE, kernel.state[t] = "TERMINATED", kernel.result[t]) /\ Halted(thread[t])
    BY <2>1, <2>4, OthersStandStill
  <2>6. thread[t].suspended /\ thread[t].pc = "phase"
    BY <2>4, <2>5 DEF Fits, Halted
  <2>7. QED
    BY <2>4, <2>6
<1>2. QED
  BY <1>1, AlwaysPort, PTL


\* os_PortActivate moves no worker through its call, whether it succeeds or not.
LEMMA ActivateMovesNobody ==
    ASSUME NEW slots \in [Tasks -> Slot], NEW k, NEW v, NEW t \in Tasks
    PROVE  /\ Activate(slots, k)[t].pc = slots[t].pc
           /\ [slots EXCEPT ![k.current].response = v][t].pc = slots[t].pc
           /\ Suspended(slots, k.current)[t].pc = slots[t].pc
           /\ Suspended(slots, k.current) \in [Tasks -> Slot]
<1> DEFINE c == k.current
           d == k.result[c]
<1>1. /\ slots[t] \in Slot
      /\ \A w : [slots[t] EXCEPT !.response = w].pc = slots[t].pc
      /\ [slots[t] EXCEPT !.suspended = TRUE].pc = slots[t].pc
      /\ \A w : [[slots[t] EXCEPT !.response = w] EXCEPT !.suspended = FALSE].pc = slots[t].pc
      /\ \A w : [[slots[t] EXCEPT !.response = w] EXCEPT !.gate = TRUE].pc = slots[t].pc
  BY DEF Slot
<1>2. Suspended(slots, c) \in [Tasks -> Slot]
  BY ZenonT(60) DEF Suspended, Slot
<1> HIDE DEF c, d
<1>3. CASE t # c
  <2>1. \A w : [slots EXCEPT ![c].response = w][t] = slots[t]
    BY <1>3
  <2>2. [slots EXCEPT ![c].suspended = TRUE][t] = slots[t]
    BY <1>3
  <2> DEFINE a == [slots EXCEPT ![c].response = d]
  <2>3. a[t] = slots[t] /\ DOMAIN a = Tasks
    BY <2>1
  <2> HIDE DEF a
  <2>4. [a EXCEPT ![c].suspended = FALSE][t] = slots[t] /\ [a EXCEPT ![c].gate = TRUE][t] = slots[t]
    BY <1>3, <2>3
  <2>5. QED
    BY <1>2, <2>1, <2>2, <2>4 DEF Activate, Suspended, a, c, d
<1>4. CASE t = c
  <2>1. \A w : [slots EXCEPT ![c].response = w][t] = [slots[t] EXCEPT !.response = w]
    BY <1>4
  <2>2. [slots EXCEPT ![c].suspended = TRUE][t] = [slots[t] EXCEPT !.suspended = TRUE]
    BY <1>4
  <2> DEFINE a == [slots EXCEPT ![c].response = d]
  <2>3. a[t] = [slots[t] EXCEPT !.response = d] /\ DOMAIN a = Tasks
    BY <2>1
  <2> HIDE DEF a
  <2>4. /\ [a EXCEPT ![c].suspended = FALSE][t] = [a[t] EXCEPT !.suspended = FALSE]
        /\ [a EXCEPT ![c].gate = TRUE][t] = [a[t] EXCEPT !.gate = TRUE]
    BY <1>4, <2>3
  <2>5. /\ [a EXCEPT ![c].suspended = FALSE][t].pc = slots[t].pc
        /\ [a EXCEPT ![c].gate = TRUE][t].pc = slots[t].pc
    <3>1. /\ [[slots[t] EXCEPT !.response = d] EXCEPT !.suspended = FALSE].pc = slots[t].pc
          /\ [[slots[t] EXCEPT !.response = d] EXCEPT !.gate = TRUE].pc = slots[t].pc
      BY <1>1
    <3>2. QED
      BY <2>3, <2>4, <3>1
  <2>6. QED
    BY <1>1, <1>2, <2>1, <2>2, <2>5 DEF Activate, Suspended, a, c, d
<1>5. QED
  BY <1>3, <1>4

\* Nor does any other step of the control thread; only at the end of the run do
\* the slots lose their threads.
LEMMA ControlMovesNobody ==
    ASSUME PortInv, running, ControlStep \/ TimerExpires, NEW t \in Tasks
    PROVE  thread'[t].pc = thread[t].pc
<1>1. thread \in [Tasks -> Slot] /\ control \in {"wait", "drain"}
  BY DEF PortInv, SlotsTyped, StageInv
<1>2. CASE ServeRequest
  <2>1. thread'[t] = thread[t] \/ thread'[t] = [thread[t] EXCEPT !.mailbox = NoRequest]
    BY <1>1, <1>2 DEF ServeRequest
  <2>2. QED
    BY <1>1, <2>1 DEF Slot
<1>3. CASE RefuseRequest
  <2>1. thread'[t] = thread[t] \/ thread'[t] = [thread[t] EXCEPT !.mailbox = NoRequest]
    BY <1>1, <1>3 DEF RefuseRequest
  <2>2. QED
    BY <1>1, <2>1 DEF Slot
<1>4. CASE DrainTick \/ PutOffTick \/ WaitFails \/ TimerExpires
  BY <1>4 DEF DrainTick, PutOffTick, WaitFails, TimerExpires
<1>5. CASE FinishRequest
  <2> DEFINE c == kernel.current
             v == kernel.result[c]
  <2>1. \/ thread' = thread
        \/ thread' = Activate(thread, kernel)
        \/ thread' = [thread EXCEPT ![c].response = v]
    BY <1>5 DEF FinishRequest, ActivateFails
  <2>2. /\ Activate(thread, kernel)[t].pc = thread[t].pc
        /\ [thread EXCEPT ![c].response = v][t].pc = thread[t].pc
    BY <1>1, ActivateMovesNobody
  <2>3. QED
    BY <2>1, <2>2
<1>6. CASE PreemptByTick
  <2> DEFINE stopped == IF kernel.current = NoTask THEN thread ELSE Suspended(thread, kernel.current)
  <2>1. stopped \in [Tasks -> Slot] /\ stopped[t].pc = thread[t].pc
    BY <1>1, ActivateMovesNobody
  <2>2. thread' = IF running' THEN Activate(stopped, kernel') ELSE stopped
    BY <1>6 DEF PreemptByTick
  <2> HIDE DEF stopped
  <2>3. Activate(stopped, kernel')[t].pc = stopped[t].pc
    BY <2>1, ActivateMovesNobody
  <2>4. QED
    BY <2>1, <2>2, <2>3
<1>7. CASE PreemptFails
  <2> DEFINE stopped == Suspended(thread, kernel.current)
  <2>1. stopped \in [Tasks -> Slot] /\ stopped[t].pc = thread[t].pc
    BY <1>1, ActivateMovesNobody
  <2> DEFINE c == kernel'.current
             v == kernel'.result[c]
  <2>2. \/ thread' = thread
        \/ thread' = [stopped EXCEPT ![c].response = v]
    BY <1>7 DEF PreemptFails, ActivateFails
  <2> HIDE DEF stopped
  <2>3. [stopped EXCEPT ![c].response = v][t].pc = stopped[t].pc
    BY <2>1, ActivateMovesNobody
  <2>4. QED
    BY <2>1, <2>2, <2>3
<1>8. QED
  BY <1>1, <1>2, <1>3, <1>4, <1>5, <1>6, <1>7
  DEF ControlStep, StartScheduler, ReleaseThreads, JoinThreads

\* A call returns what the kernel wrote for its caller, also when the tick preempts
\* the caller between the answer and the return, or other tasks run before it.
THEOREM CallsReturnOwnResult == PortSpec => ResponsesMatch
<1>1. PortInv /\ KernelPart /\ [PortNext]_portVars => [ReturnsOwnResult]_portVars
  <2> SUFFICES ASSUME PortInv, KernelPart, PortNext, NEW t \in Tasks, Reads(t), running
               PROVE  thread[t].response = kernel.result[t]
    BY DEF ReturnsOwnResult
  <2>1. thread \in [Tasks -> Slot] /\ thread[t].pc = "read" /\ thread'[t].pc = "user"
    BY DEF PortInv, SlotsTyped, Reads
  <2>2. PICK u \in Tasks : WorkerStep(u)
    BY <2>1, ControlMovesNobody DEF PortNext
  <2>3. PICK from, s : Worker(u, from) /\ thread' = [thread EXCEPT ![u] = s]
    BY <2>2 DEF WorkerStep, PortCode, Enter, Call, Return, StorePhase, Signal, PassGate,
                LeaveRequest, ReadResponse, Leave, WorkerFails, Update
  <2>4. u = t
    BY <2>1, <2>3
  <2>5. Worker(t, from) /\ ~thread[t].suspended
    BY <2>3, <2>4 DEF Worker
  <2>6. Fits(thread[t], FALSE, kernel.state[t] = "TERMINATED", kernel.result[t])
    BY <2>5, WhoMoves
  <2>7. QED
    BY <2>1, <2>5, <2>6 DEF Fits
<1>2. QED
  BY <1>1, AlwaysPort, PTL DEF PortSpec, ResponsesMatch

\* What a tick taken from the timer adds to the time and the pending ticks, whether
\* it is applied at once, put off, or taken from those put off.
LEMMA TickSums ==
    ASSUME NEW tick \in Ticks, NEW p \in Nat
    PROVE  /\ (tick + p - tick - p) % TickModulus = 0
           /\ (tick + (p + 1) - tick - p) % TickModulus = 1
           /\ LET next == (tick + 1) % TickModulus IN
              /\ (next + p - tick - p) % TickModulus = 1
              /\ (next + (p - 1) - tick - p) % TickModulus = 0
<1> DEFINE M == TickModulus
           next == (tick + 1) % M
<1>1. M \in Nat /\ M > 3 /\ tick \in Int /\ tick >= 0 /\ tick < M
  BY TicksAreNumbers
<1> HIDE DEF M
<1>2. \A n \in 0 .. M - 1 : n % M = n
  BY <1>1
<1>3. \A n \in -M .. -1 : n % M = n + M
  BY <1>1
<1>4. next = IF tick + 1 < M THEN tick + 1 ELSE 0
  <2>1. CASE tick + 1 < M
    BY <1>1, <1>2, <2>1
  <2>2. CASE tick + 1 = M
    BY <1>1, <2>2
  <2>3. QED
    BY <1>1, <2>1, <2>2
<1> HIDE DEF next
<1>5. tick + p - tick - p = 0 /\ tick + (p + 1) - tick - p = 1
  BY <1>1
<1>6. 0 % M = 0 /\ 1 % M = 1
  BY <1>1, <1>2
<1>7. (next + p - tick - p) % M = 1 /\ (next + (p - 1) - tick - p) % M = 0
  <2>1. CASE tick + 1 < M
    <3>1. next + p - tick - p = 1 /\ next + (p - 1) - tick - p = 0
      BY <1>1, <1>4, <2>1
    <3>2. QED
      BY <1>6, <3>1
  <2>2. CASE tick + 1 = M
    <3>1. next + p - tick - p = 1 - M /\ next + (p - 1) - tick - p = -M
      BY <1>1, <1>4, <2>2
    <3>2. 1 - M \in -M .. -1 /\ -M \in -M .. -1
      BY <1>1
    <3>3. (1 - M) % M = (1 - M) + M /\ (-M) % M = (-M) + M
      BY <1>3, <3>2
    <3>4. (1 - M) + M = 1 /\ (-M) + M = 0
      BY <1>1
    <3>5. QED
      BY <3>1, <3>3, <3>4
  <2>3. QED
    BY <1>1, <2>1, <2>2
<1>8. QED
  BY <1>5, <1>6, <1>7 DEF M, next


\* No tick is lost and none is counted twice: one taken from the timer is applied,
\* or put off and applied later; no request and no worker touches the time.
THEOREM NoTickIsLost == PortSpec => TicksAccounted
<1> DEFINE sum == kernel'.tick + pendingTicks' - kernel.tick - pendingTicks
<1>1. PortInv /\ KernelPart /\ [PortNext]_portVars => [TickAccounted]_portVars
  <2> SUFFICES ASSUME PortInv, KernelPart, PortNext, kernel.started, control # "join", ~failed'
               PROVE  sum % TickModulus = IF timerDue /\ ~timerDue' THEN 1 ELSE 0
    BY DEF TickAccounted
  <2>1. pendingTicks \in Nat /\ timerDue \in BOOLEAN /\ control # "created"
    BY DEF PortInv, TickInv, SlotsTyped, StageInv
  <2>2. control # "stopped"
    BY <2>1 DEF PortNext, ControlStep, StartScheduler, ServeRequest, RefuseRequest, TakeRequest,
                DrainTick, FinishRequest, PutOffTick, PreemptByTick, PreemptFails, TakeTimer,
                WaitFails, ReleaseThreads, JoinThreads, TimerExpires, TimerFires, Waiting,
                WorkerStep, PortCode, Enter, Call, Return, StorePhase, Signal, PassGate,
                LeaveRequest, ReadResponse, Leave, WorkerFails, Worker, WorkersRun
  <2>3. /\ SafeInv /\ PriorityInv(kernel) /\ kernel.current \in Tasks
        /\ kernel.tick \in Ticks
    <3>1. SafeInv /\ PriorityInv(kernel) /\ kernel.current \in Tasks /\ kernel \in Kernel
      BY <2>1, <2>2, RunningKernel DEF SafeInv, TypeInv, GoodKernel
    <3>2. QED
      BY <3>1 DEF Kernel
  <2> DEFINE p == pendingTicks
             tick == kernel.tick
             next == (tick + 1) % TickModulus
  <2>4. /\ (tick + p - tick - p) % TickModulus = 0
        /\ (tick + (p + 1) - tick - p) % TickModulus = 1
        /\ (next + p - tick - p) % TickModulus = 1
        /\ (next + (p - 1) - tick - p) % TickModulus = 0
    BY <2>1, <2>3, TickSums
  <2>5. CASE kernel'.tick = tick /\ pendingTicks' = p /\ (timerDue' \/ ~timerDue)
    BY <2>4, <2>5
  <2>6. CASE ServeRequest
    <3>1. /\ FindRequester = kernel.current /\ Handle(thread[kernel.current].mailbox)
          /\ timerDue' = timerDue /\ pendingTicks' = pendingTicks
      BY <2>6 DEF ServeRequest, TakeRequest
    <3>2. NoTask \notin Tasks
      BY <2>1, <2>2, RunningKernel
    <3>3. thread[kernel.current].mailbox # NoRequest
      BY <2>3, <3>1, <3>2, Requester DEF Posting
    <3>4. thread[kernel.current].mailbox \in MayAsk(kernel.current)
      BY <2>3, <3>3 DEF PortInv, SlotsTyped
    <3>5. SameClock(kernel, kernel')
      BY <2>3, <3>1, <3>4, HandleStep
    <3>6. QED
      BY <2>1, <2>5, <3>1, <3>5 DEF SameClock
  <2>7. CASE DrainTick
    <3>1. /\ kernel' = TimeTick(kernel) /\ UNCHANGED objects /\ timerDue' = timerDue
          /\ pendingTicks' = p - 1
      BY <2>7 DEF DrainTick, ApplyTick
    <3>2. kernel'.tick = next
      BY <2>3, <3>1, TickStep
    <3>3. QED
      BY <2>1, <2>4, <3>1, <3>2
  <2>8. CASE PreemptByTick
    <3>1. /\ kernel' = TimeTick(kernel) /\ UNCHANGED objects /\ timerDue /\ timerDue' = FALSE
          /\ pendingTicks' = p
      BY <2>8 DEF PreemptByTick, TakeTimer, ApplyTick
    <3>2. kernel'.tick = next
      BY <2>3, <3>1, TickStep
    <3>3. QED
      BY <2>4, <3>1, <3>2
  <2>9. CASE PutOffTick
    <3>1. /\ kernel' = kernel /\ timerDue /\ timerDue' = FALSE /\ pendingTicks' = p + 1
      BY <2>9 DEF PutOffTick, TakeTimer
    <3>2. QED
      BY <2>4, <3>1
  <2>10. CASE FinishRequest \/ ReleaseThreads \/ TimerExpires
    <3>1. kernel' = kernel /\ pendingTicks' = p /\ (timerDue' \/ timerDue' = timerDue)
      BY <2>10 DEF FinishRequest, ReleaseThreads, TimerExpires, TimerFires, events
    <3>2. QED
      BY <2>1, <2>5, <3>1
  <2>11. CASE \E t \in Tasks : WorkerStep(t)
    <3>1. kernel' = kernel /\ pendingTicks' = p /\ timerDue' = timerDue
      BY <2>11 DEF WorkerStep, PortCode, Enter, Call, Return, StorePhase, Signal, PassGate,
                LeaveRequest, ReadResponse, Leave, WorkerFails, OnlySlots, events
    <3>2. QED
      BY <2>1, <2>5, <3>1
  <2>12. ~StartScheduler /\ ~RefuseRequest /\ ~PreemptFails /\ ~WaitFails /\ ~JoinThreads
    BY <2>1 DEF StartScheduler, RefuseRequest, PreemptFails, WaitFails, JoinThreads, PortFail,
                ActivateFails
  <2>13. QED
    BY <2>6, <2>7, <2>8, <2>9, <2>10, <2>11, <2>12 DEF PortNext, ControlStep
<1>2. QED
  BY <1>1, AlwaysPort, PTL DEF PortSpec, TicksAccounted
===============================================================================
