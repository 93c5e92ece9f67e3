------------------------------ MODULE CallProofs ------------------------------
(***************************************************************************)
(* Proofs about the calls of the kernel's tasks.  First what the ports     *)
(* rely on: the dispatch of a request is a step of the kernel's            *)
(* specification, only a tick advances the time, who is not asked keeps    *)
(* the status of its last call, and every handler leaves some task to go   *)
(* on with.  Then what users of a queue rely on: each queue implements a   *)
(* Channel, whatever else the kernel does.                                 *)
(***************************************************************************)
EXTENDS OsPort, QueueChannel, MiniRtosProofs

\* What a task may ask for: its calls, and to end if it is not the Idle task.
MayAsk(t) == Calls[t] \cup (IF IsIdle(t) THEN {} ELSE {ExitRequest})

\* The parameters a request carries, by the call it stands for.
LEMMA RequestParts ==
    ASSUME NEW r \in Requests
    PROVE  /\ r.call \notin {"NONE", "EXIT"}
           /\ r.call = "DELAY" => r.ticks \in Delays
           /\ r.call = "SEM_TAKE" => r.object \in Semaphores /\ r.ticks \in Timeouts
           /\ r.call = "SEM_GIVE" => r.object \in Semaphores
           /\ r.call = "QUEUE_SEND" =>
                 r.object \in Queues /\ r.ticks \in Timeouts /\ r.message \in Messages
           /\ r.call = "QUEUE_RECEIVE" => r.object \in Queues /\ r.ticks \in Timeouts
           /\ r.call = "MUTEX_LOCK" => r.object \in Mutexes /\ r.ticks \in Timeouts
           /\ r.call = "MUTEX_UNLOCK" => r.object \in Mutexes
<1>1. CASE r \in {Request("YIELD", 0, 0, NoMessage)}
  BY <1>1 DEF Request
<1>2. CASE r \in {Request("DELAY", 0, d, NoMessage) : d \in Delays}
  BY <1>2 DEF Request
<1>3. CASE r \in {Request("SEM_TAKE", s, w, NoMessage) : s \in Semaphores, w \in Timeouts}
  BY <1>3 DEF Request
<1>4. CASE r \in {Request("SEM_GIVE", s, 0, NoMessage) : s \in Semaphores}
  BY <1>4 DEF Request
<1>5. CASE r \in {Request("QUEUE_SEND", q, w, msg) : q \in Queues, w \in Timeouts, msg \in Messages}
  BY <1>5 DEF Request
<1>6. CASE r \in {Request("QUEUE_RECEIVE", q, w, NoMessage) : q \in Queues, w \in Timeouts}
  BY <1>6 DEF Request
<1>7. CASE r \in {Request("MUTEX_LOCK", m, w, NoMessage) : m \in Mutexes, w \in Timeouts}
  BY <1>7 DEF Request
<1>8. CASE r \in {Request("MUTEX_UNLOCK", m, 0, NoMessage) : m \in Mutexes}
  BY <1>8 DEF Request
<1>9. QED
  BY <1>1, <1>2, <1>3, <1>4, <1>5, <1>6, <1>7, <1>8 DEF Requests

\* The two codes a mailbox holds beside the calls of a task.
LEMMA SpecialRequests ==
    /\ NoRequest # ExitRequest /\ ExitRequest.call = "EXIT"
    /\ NoRequest \notin Requests /\ ExitRequest \notin Requests
<1>1. NoRequest.call = "NONE" /\ ExitRequest.call = "EXIT"
  BY DEF NoRequest, ExitRequest, Request
<1>2. QED
  BY <1>1, RequestParts

\* What the Idle task asks for, and the others.
LEMMA MayAskParts ==
    ASSUME NEW t \in Tasks, NEW r \in MayAsk(t)
    PROVE  /\ r \in Requests \cup {ExitRequest} /\ r # NoRequest
           /\ IsIdle(t) => r.call = "YIELD"
           /\ r.call = "EXIT" <=> r = ExitRequest
<1>1. Calls[t] \subseteq Requests /\ (IsIdle(t) => \A x \in Calls[t] : x.call = "YIELD")
  BY OsPortAssumption
<1>2. QED
  BY <1>1, RequestParts, SpecialRequests DEF MayAsk

\* The dispatch of a request is a step of the kernel's specification.
LEMMA RequestIsStep ==
    ASSUME kernel.current \in Tasks, NEW r \in MayAsk(kernel.current), Handle(r)
    PROVE  Next
<1> DEFINE t == kernel.current
<1>1. /\ r \in Requests \cup {ExitRequest} /\ (IsIdle(t) => r.call = "YIELD")
      /\ r.call = "EXIT" => ~IsIdle(t)
  BY MayAskParts
<1>2. r = ExitRequest => r.call = "EXIT"
  BY SpecialRequests
<1> SUFFICES Scheduling(t) \/ UserCall(t)
  BY DEF Next
<1>3. CASE r.call = "YIELD" /\ TaskYield(t) /\ UNCHANGED objects
  BY <1>3 DEF Scheduling, objects
<1>4. CASE r.call = "EXIT" /\ TaskExit(t) /\ UNCHANGED objects
  BY <1>1, <1>4 DEF Scheduling, objects
<1>5. CASE r.call = "DELAY" /\ TaskDelay(t, r.ticks) /\ UNCHANGED objects
  <2>1. r.ticks \in Delays /\ ~IsIdle(t)
    BY <1>1, <1>2, <1>5, RequestParts
  <2>2. QED
    BY <1>5, <2>1 DEF Scheduling, objects
<1>6. CASE r.call = "SEM_TAKE" /\ SemTake(r.object, r.ticks) /\ UNCHANGED queueVars
  <2>1. r.object \in Semaphores /\ r.ticks \in Timeouts /\ ~IsIdle(t)
    BY <1>1, <1>2, <1>6, RequestParts
  <2>2. QED
    BY <1>6, <2>1 DEF UserCall, SemCall
<1>7. CASE r.call = "SEM_GIVE" /\ SemGive(r.object) /\ UNCHANGED queueVars
  <2>1. r.object \in Semaphores /\ ~IsIdle(t)
    BY <1>1, <1>2, <1>7, RequestParts
  <2>2. QED
    BY <1>7, <2>1 DEF UserCall, SemCall
<1>8. CASE r.call = "QUEUE_SEND" /\ QueueSend(r.object, r.message, r.ticks) /\ UNCHANGED semCount
  <2>1. r.object \in Queues /\ r.ticks \in Timeouts /\ r.message \in Messages /\ ~IsIdle(t)
    BY <1>1, <1>2, <1>8, RequestParts
  <2>2. QED
    BY <1>8, <2>1 DEF UserCall, QueueCall
<1>9. CASE r.call = "QUEUE_RECEIVE" /\ QueueReceive(r.object, r.ticks) /\ UNCHANGED semCount
  <2>1. r.object \in Queues /\ r.ticks \in Timeouts /\ ~IsIdle(t)
    BY <1>1, <1>2, <1>9, RequestParts
  <2>2. QED
    BY <1>9, <2>1 DEF UserCall, QueueCall
<1>10. CASE r.call = "MUTEX_LOCK" /\ MutexLock(r.object, r.ticks) /\ UNCHANGED objects
  <2>1. r.object \in Mutexes /\ r.ticks \in Timeouts /\ ~IsIdle(t)
    BY <1>1, <1>2, <1>10, RequestParts
  <2>2. QED
    BY <1>10, <2>1 DEF UserCall, MutexCall, objects
<1>11. CASE r.call = "MUTEX_UNLOCK" /\ MutexUnlock(r.object) /\ UNCHANGED objects
  <2>1. r.object \in Mutexes /\ ~IsIdle(t)
    BY <1>1, <1>2, <1>11, RequestParts
  <2>2. QED
    BY <1>11, <2>1 DEF UserCall, MutexCall, objects
<1>12. QED
  BY <1>3, <1>4, <1>5, <1>6, <1>7, <1>8, <1>9, <1>10, <1>11 DEF Handle
-------------------------------------------------------------------------------
(* What the port relies on in the kernel: only a tick advances its time, and who  *)
(* is not asked keeps the status of its last call.                                *)

SameClock(k, r) == r.started = k.started /\ r.tick = k.tick

\* What a request of t leaves alone.
Spares(k, r, t) == SameClock(k, r) /\ \A u \in Tasks : u # t => Calm(k, r, u)

\* One step after the other.
LEMMA SparesFollow ==
    ASSUME NEW k, NEW j, NEW r, NEW t, Spares(k, j, t), Spares(j, r, t)
    PROVE  Spares(k, r, t)
<1>1. ASSUME NEW u \in Tasks, u # t PROVE Calm(k, r, u)
  <2>1. Calm(k, j, u) /\ Calm(j, r, u)
    BY <1>1 DEF Spares
  <2>2. QED
    BY <2>1, CalmFollows
<1>2. QED
  BY <1>1 DEF Spares, SameClock

\* Queues and the processor are no matter of time either.
LEMMA SchedulingSpares ==
    ASSUME NEW k, NEW r, SameTasks(k, r) \/ OnlySchedules(k, r), NEW t
    PROVE  Spares(k, r, t)
<1>1. \A u \in Tasks : Calm(k, r, u)
  BY SchedulingIsCalm
<1>2. QED
  BY <1>1 DEF Spares, SameClock, SameTasks, OnlySchedules

\* Writing a status.
LEMMA StatusSpares ==
    ASSUME NEW k, NEW S, Consistent(k, S), NEW t \in Tasks, NEW s \in Statuses
    PROVE  LET r == SetResult(k, t, s) IN
           /\ Consistent(r, S) /\ (Sound(k) => Sound(r))
           /\ r.state = k.state /\ r.result[t] = s /\ Spares(k, r, t)
<1> DEFINE r == SetResult(k, t, s)
<1>1. /\ Consistent(r, S) /\ (Sound(k) => Sound(r))
      /\ r.result = [k.result EXCEPT ![t] = s]
      /\ r.started = k.started /\ r.state = k.state /\ r.current = k.current
      /\ r.tick = k.tick /\ r.delayed = k.delayed /\ r.overflow = k.overflow
      /\ r.wake = k.wake /\ r.waitOn = k.waitOn /\ r.owner = k.owner
      /\ r.effective = k.effective
      /\ \A first : Deadlines(k, first) => Deadlines(r, first)
  BY SetResultSound
<1>2. k.result \in [Tasks -> Statuses]
  BY FieldTypes DEF Consistent
<1> HIDE DEF r
<1>3. r.result[t] = s /\ \A u \in Tasks : u # t => r.result[u] = k.result[u]
  BY <1>1, <1>2
<1>4. \A u \in Tasks : u # t => Calm(k, r, u)
  BY <1>1, <1>3 DEF Calm, DelayLinked
<1>5. /\ Consistent(r, S) /\ (Sound(k) => Sound(r))
      /\ r.state = k.state /\ r.result[t] = s /\ Spares(k, r, t)
  BY <1>1, <1>3, <1>4 DEF Spares, SameClock
<1>6. QED
  BY <1>5 DEF r

\* Readying a task whose wait is granted.
LEMMA ReadyingSpares ==
    ASSUME NEW k, NEW w \in Tasks, Consistent(k, {w}), k.state[w] = "BLOCKED_OBJECT"
    PROVE  LET r == WaitMakeReady(k, w, "OK") IN
           (\A u \in Tasks : Calm(k, r, u)) /\ \A t : Spares(k, r, t)
<1> DEFINE r == WaitMakeReady(k, w, "OK")
<1>1. "OK" \in Statuses /\ w \in {w} /\ k \in GoodKernel
  BY DEF Statuses, Consistent
<1>2. Readied(k, r, w, "OK")
  BY <1>1, WaitMakeReadyExact
<1> HIDE DEF r
<1>3. \A u \in Tasks : Calm(k, r, u)
  BY <1>1, <1>2, ReadiedIsCalm
<1>4. \A t : Spares(k, r, t)
  BY <1>2, <1>3 DEF Spares, SameClock, Readied
<1>5. QED
  BY <1>3, <1>4 DEF r

\* A switch, a status or a wait of the caller.
LEMMA CallerSpares ==
    ASSUME NEW k, Sound(k)
    PROVE  /\ \A t : Spares(k, SchedYieldCurrent(k), t)
           /\ \A t \in Tasks, s \in Statuses : Spares(k, SetResult(k, t, s), t)
           /\ CurrentRuns(k) => \A l \in WaitLists, w \in Ticks :
                 w # 0 => Spares(k, WaitBlockCurrent(k, l, w), k.current)
           /\ \A w, t : Spares(k, WaitMaybePreempt(k, w), t)
<1>1. \A t : Spares(k, SchedYieldCurrent(k), t)
  BY SchedYieldCurrentSound, SchedulingSpares
<1>2. ASSUME NEW t \in Tasks, NEW s \in Statuses PROVE Spares(k, SetResult(k, t, s), t)
  <2>1. Consistent(k, {})
    BY DEF Sound
  <2>2. QED
    BY <2>1, StatusSpares
<1>3. ASSUME CurrentRuns(k), NEW l \in WaitLists, NEW w \in Ticks, w # 0
      PROVE  Spares(k, WaitBlockCurrent(k, l, w), k.current)
  <2> DEFINE r == WaitBlockCurrent(k, l, w)
             t == k.current
  <2>1. /\ Blocks(k, r, t, l)
        /\ \A u \in Tasks : u # t => (DelayLinked(r, u) <=> DelayLinked(k, u))
    BY <1>3, WaitBlockCurrentSound
  <2>2. k.result \in [Tasks -> Statuses]
    BY FieldTypes DEF Sound, Consistent
  <2> HIDE DEF r, t
  <2>3. ASSUME NEW u \in Tasks, u # t PROVE Calm(k, r, u)
    <3>1. /\ r.result[u] = k.result[u] /\ (DelayLinked(r, u) <=> DelayLinked(k, u))
          /\ r.state[u] = k.state[u] \/ {k.state[u], r.state[u]} \subseteq {"READY", "RUNNING"}
      BY <2>1, <2>2, <2>3 DEF Blocks
    <3>2. QED
      BY <3>1 DEF Calm
  <2>4. Spares(k, r, t)
    BY <2>1, <2>3 DEF Spares, SameClock, Blocks
  <2>5. QED
    BY <2>4 DEF r, t
<1>4. \A w, t : Spares(k, WaitMaybePreempt(k, w), t)
  BY WaitMaybePreemptSound, SchedulingSpares
<1>5. QED
  BY <1>1, <1>2, <1>3, <1>4

\* A call that the kernel answers at once.
Granting(r, t) == r.state[t] # "BLOCKED_OBJECT" /\ r.result[t] = "OK"

\* Which stays so.
LEMMA GrantingStays ==
    ASSUME NEW k, NEW r, NEW t \in Tasks, Granting(k, t), Calm(k, r, t)
    PROVE  Granting(r, t)
  BY DEF Granting, Calm

\* A waiter served by a semaphore or a queue.
LEMMA ServedSpares ==
    ASSUME NEW k, Sound(k), NEW l \in WaitLists, \A m \in Mutexes : l # MutexWaiters(m),
           WaitHead(k, l) # NoTask, NEW t \in Tasks, k.state[t] # "BLOCKED_OBJECT"
    PROVE  LET w == WaitHead(k, l)
               popped == WaitPop(k, l)
               first == WaitMaybePreempt(WaitMakeReady(SetResult(popped, t, "OK"), w, "OK"), w)
           IN /\ Spares(k, first, t) /\ Granting(first, t)
              /\ Spares(k, WaitMaybePreempt(SetResult(WaitMakeReady(popped, w, "OK"), t, "OK"), w), t)
<1> DEFINE w == WaitHead(k, l)
           v == WaitPop(k, l)
           told == SetResult(v, t, "OK")
           r == WaitMakeReady(v, w, "OK")
           q == WaitMakeReady(told, w, "OK")
           a == SetResult(r, t, "OK")
           first == WaitMaybePreempt(q, w)
           second == WaitMaybePreempt(a, w)
<1>1. Sound(r) /\ Served(k, r, w) /\ Sound(q) /\ Served(k, q, w) /\ w \in Tasks
  BY GrantServes
<1>2. Consistent(k, {}) /\ "OK" \in Statuses
  BY DEF Sound, Statuses
<1>3. SameTasks(k, v) /\ Consistent(v, {w}) /\ k.state[w] = "BLOCKED_OBJECT"
  BY <1>2, WaitPopExact
<1> HIDE DEF v, w
<1>4. v.state[w] = "BLOCKED_OBJECT" /\ Spares(k, v, t) /\ v.state[t] # "BLOCKED_OBJECT"
  BY <1>3, SchedulingSpares DEF SameTasks
<1>5. /\ Consistent(told, {w}) /\ told.state = v.state /\ told.result[t] = "OK"
      /\ Spares(v, told, t)
  BY <1>2, <1>3, StatusSpares
<1> HIDE DEF told
<1>6. Spares(told, q, t) /\ Calm(told, q, t)
  BY <1>1, <1>4, <1>5, ReadyingSpares
<1>7. Spares(v, r, t)
  BY <1>1, <1>3, <1>4, ReadyingSpares
<1> HIDE DEF q, r
<1>8. Sound(a) /\ Spares(r, a, t)
  BY <1>1, <1>2, StatusSpares DEF Sound
<1> HIDE DEF a
<1>9. Spares(q, first, t) /\ Calm(q, first, t) /\ Spares(a, second, t)
  BY <1>1, <1>8, WaitMaybePreemptSound, SchedulingSpares, SchedulingIsCalm
<1> HIDE DEF first, second
<1>10. Spares(k, first, t)
  BY <1>4, <1>5, <1>6, <1>9, SparesFollow
<1>11. Spares(k, second, t)
  BY <1>4, <1>7, <1>8, <1>9, SparesFollow
<1>12. Granting(told, t)
  BY <1>4, <1>5 DEF Granting
<1>13. Granting(first, t)
  BY <1>6, <1>9, <1>12, GrantingStays
<1>14. QED
  BY <1>10, <1>11, <1>13 DEF first, second, a, q, r, told, v, w

\* os_MutexUnlockCurrent hands the mutex on and changes priorities.
LEMMA GivenSpares ==
    ASSUME NEW k, Sound(k), NEW m \in Mutexes, NEW t \in Tasks
    PROVE  Spares(k, MutexGiven(k, m, t), t)
<1> DEFINE l == MutexWaiters(m)
           w == WaitHead(k, l)
           popped == WaitPop(k, l)
           owned == [popped EXCEPT !.owner[m] = w]
           passed == MutexPassed(k, m, t)
           loose == IF w = NoTask THEN {} ELSE {w}
<1>1. Consistent(k, {}) /\ l \in WaitLists
  BY ListsDiffer DEF Sound
<1>2. /\ Consistent(passed, loose)
      /\ passed.started = k.started /\ passed.state = k.state
      /\ passed.tick = k.tick /\ passed.delayed = k.delayed /\ passed.overflow = k.overflow
  BY ZenonT(60), <1>1, MutexPassedSound
<1>3. SameTasks(k, popped) /\ popped \in Kernel
  <2>1. SameTasks(k, popped) /\ (popped = k \/ Consistent(popped, {w}))
    BY <1>1, WaitPopExact
  <2> HIDE DEF popped, w
  <2>2. QED
    BY <1>1, <2>1 DEF Consistent, GoodKernel
<1>4. passed = SetResult(owned, t, "OK")
  BY DEF MutexPassed
<1> HIDE DEF passed, popped, w, l, loose
<1>5. passed.result = [k.result EXCEPT ![t] = "OK"] /\ k.result \in [Tasks -> Statuses]
  BY <1>1, <1>3, <1>4, FieldTypes DEF SetResult, Kernel, SameTasks, Consistent
<1>6. \A u \in Tasks : u # t => passed.result[u] = k.result[u]
  BY <1>5
<1>7. Spares(k, passed, t)
  BY <1>2, <1>6 DEF Spares, SameClock, Calm, DelayLinked
<1>8. SameTasks(passed, MutexWaitersChanged(passed))
  BY <1>2, MutexWaitersChangedExact
<1>9. Spares(passed, MutexWaitersChanged(passed), t)
  BY <1>8, SchedulingSpares
<1>10. QED
  BY <1>7, <1>9, SparesFollow DEF MutexGiven, passed

\* os_MutexLockCurrent and os_MutexUnlockCurrent.
LEMMA MutexSpares ==
    ASSUME NEW k, Sound(k), CurrentRuns(k), NEW m \in Mutexes
    PROVE  LET l == MutexWaiters(m)
               t == k.current
               given == MutexGiven(k, m, t)
               w == WaitHead(k, l)
           IN /\ Spares(k, SetResult([k EXCEPT !.owner[m] = t], t, "OK"), t)
              /\ \A timeout \in Ticks : timeout # 0 =>
                    LET j == MutexWaitersChanged(WaitBlockCurrent(k, l, timeout)) IN
                    Spares(k, j, t) /\ Spares(k, SchedSchedule(j, FALSE), t)
              /\ Spares(k, given, t)
              /\ w # NoTask => Spares(k, WaitMaybePreempt(WaitMakeReady(given, w, "OK"), w), t)
<1> DEFINE l == MutexWaiters(m)
           t == k.current
           v == MutexGiven(k, m, t)
           w == WaitHead(k, l)
           r == WaitMakeReady(v, w, "OK")
           owned == [k EXCEPT !.owner[m] = t]
<1>1. /\ k \in Kernel /\ l \in WaitLists /\ t \in Tasks /\ "OK" \in Statuses
      /\ Consistent(k, {}) /\ k.result \in [Tasks -> Statuses]
  BY ListsDiffer, FieldTypes DEF Sound, Consistent, GoodKernel, CurrentRuns, Statuses
<1>2. Spares(k, SetResult(owned, t, "OK"), t)
  <2> DEFINE a == SetResult(owned, t, "OK")
  <2>1. /\ a.state = k.state /\ a.delayed = k.delayed /\ a.overflow = k.overflow
        /\ a.started = k.started /\ a.tick = k.tick /\ a.result = [k.result EXCEPT ![t] = "OK"]
    BY <1>1 DEF SetResult, Kernel
  <2> HIDE DEF a, t
  <2>2. \A u \in Tasks : u # t => a.result[u] = k.result[u]
    BY <1>1, <2>1
  <2>3. Spares(k, a, t)
    BY <2>1, <2>2 DEF Spares, SameClock, Calm, DelayLinked
  <2>4. QED
    BY <2>3 DEF a
<1>3. ASSUME NEW timeout \in Ticks, timeout # 0
      PROVE  LET j == MutexWaitersChanged(WaitBlockCurrent(k, l, timeout)) IN
             Spares(k, j, t) /\ Spares(k, SchedSchedule(j, FALSE), t)
  <2> DEFINE b == WaitBlockCurrent(k, l, timeout)
             j == MutexWaitersChanged(b)
  <2>1. Sound(b) /\ Spares(k, b, t)
    BY <1>1, <1>3, WaitBlockCurrentSound, CallerSpares
  <2> HIDE DEF b
  <2>2. Consistent(j, {}) /\ SameTasks(b, j)
    BY <2>1, MutexWaitersChangedExact DEF Sound
  <2> HIDE DEF j
  <2>3. Sound(j) /\ Spares(k, j, t)
    BY <2>1, <2>2, SchedulingSpares, SparesFollow DEF Sound, SameTasks
  <2>4. Spares(j, SchedSchedule(j, FALSE), t)
    BY <2>3, SchedScheduleSound, SchedulingSpares
  <2>5. Spares(k, j, t) /\ Spares(k, SchedSchedule(j, FALSE), t)
    BY <2>3, <2>4, SparesFollow
  <2>6. QED
    BY <2>5 DEF j, b
<1>4. /\ Consistent(v, IF w = NoTask THEN {} ELSE {w}) /\ w \in Tasks \cup {NoTask}
      /\ v.started = k.started /\ v.state = k.state /\ v.current = k.current
      /\ v.tick = k.tick /\ v.delayed = k.delayed /\ v.overflow = k.overflow
      /\ v.wake = k.wake /\ v.waitOn = k.waitOn
      /\ v.owner = [k.owner EXCEPT ![m] = w]
      /\ w # NoTask => k.waitOn[w] = l /\ k.state[w] = "BLOCKED_OBJECT"
      /\ w = NoTask => NobodyWaits(k, l)
  BY <1>1, MutexGivenSound
<1>5. Spares(k, v, t)
  BY <1>1, GivenSpares
<1> HIDE DEF v, l, w, t
<1>6. ASSUME w # NoTask PROVE Spares(k, WaitMaybePreempt(r, w), t)
  <2>1. PoppedFrom(k, v, w)
    BY <1>4, <1>6 DEF PoppedFrom
  <2>2. Sound(r)
    BY <2>1, GrantSound
  <2>3. Spares(v, r, t)
    BY <1>4, <1>6, ReadyingSpares
  <2> HIDE DEF r
  <2>4. Spares(r, WaitMaybePreempt(r, w), t)
    BY <2>2, CallerSpares
  <2>5. QED
    BY <1>5, <2>3, <2>4, SparesFollow
<1>7. /\ Spares(k, SetResult(owned, t, "OK"), t)
      /\ \A timeout \in Ticks : timeout # 0 =>
            LET j == MutexWaitersChanged(WaitBlockCurrent(k, l, timeout)) IN
            Spares(k, j, t) /\ Spares(k, SchedSchedule(j, FALSE), t)
      /\ Spares(k, v, t)
      /\ w # NoTask => Spares(k, WaitMaybePreempt(r, w), t)
  BY <1>2, <1>3, <1>5, <1>6
<1>8. QED
  BY <1>7 DEF r, v, l, w, t

\* No request advances the tick counter, stops the kernel, or touches another's call.
LEMMA RequestSpares ==
    ASSUME KernelInv(kernel), kernel.current \in Tasks, NEW r \in Requests \cup {ExitRequest}, Handle(r)
    PROVE  Spares(kernel, kernel', kernel.current)
<1> DEFINE t == kernel.current
<1>1. /\ {"OK", "TIMEOUT", "BAD_STATE", "NOT_OWNER", "LIMIT_REACHED"} \subseteq Statuses
      /\ Delays \subseteq Ticks /\ Timeouts \subseteq Ticks
  BY MiniRtosAssumption DEF Statuses
<1>2. Sound(kernel) /\ Consistent(kernel, {}) /\ kernel.state[t] # "BLOCKED_OBJECT"
  <2>1. t # NoTask
    BY DEF Tasks, NoTask
  <2>2. QED
    BY <2>1 DEF KernelInv, Sound
<1>3. r = ExitRequest => r.call = "EXIT"
  BY SpecialRequests
<1>4. \A s \in Statuses : Spares(kernel, SetResult(kernel, t, s), t)
  BY <1>2, CallerSpares
<1>5. ASSUME TaskYield(t) PROVE Spares(kernel, kernel', t)
  BY <1>2, <1>5, CallerSpares DEF TaskYield
<1>6. ASSUME TaskExit(t) PROVE Spares(kernel, kernel', t)
  <2>1. CurrentRuns(kernel)
        /\ kernel' = SchedCurrentBlocked([MutexReleaseTask(kernel, t) EXCEPT !.state[t] = "TERMINATED"])
    BY <1>6 DEF TaskExit
  <2>2. /\ kernel'.tick = kernel.tick /\ kernel'.started = kernel.started
        /\ \A u \in Tasks : u # t => Calm(kernel, kernel', u)
    BY <1>2, <2>1, ExitSound
  <2>3. QED
    BY <2>2 DEF Spares, SameClock
<1>7. ASSUME r.call = "DELAY", TaskDelay(t, r.ticks) PROVE Spares(kernel, kernel', t)
  <2>1. r.ticks \in Ticks
    BY <1>1, <1>3, <1>7, RequestParts
  <2>2. CASE TaskYield(t)
    BY <1>5, <2>2
  <2>3. CASE r.ticks > 0 /\ kernel' = SchedCurrentBlocked(
                 TimeDelayListInsert([kernel EXCEPT !.state[t] = "BLOCKED_DELAY"], t,
                                     (kernel.tick + Clamp(r.ticks)) % TickModulus))
    <3>1. r.ticks # 0 /\ CurrentRuns(kernel)
      BY <1>7, <2>1, <2>3, TicksAreNumbers DEF TaskDelay
    <3>2. /\ kernel'.tick = kernel.tick /\ kernel'.started = kernel.started
          /\ \A u \in Tasks : u # t => Calm(kernel, kernel', u)
      BY <1>2, <2>1, <2>3, <3>1, DelaySound
    <3>3. QED
      BY <3>2 DEF Spares, SameClock
  <2>4. QED
    BY <1>7, <2>2, <2>3 DEF TaskDelay
<1>8. ASSUME r.call = "SEM_TAKE", SemTake(r.object, r.ticks) PROVE Spares(kernel, kernel', t)
  <2>1. r.ticks \in Ticks /\ SemWaiters(r.object) \in WaitLists
    BY <1>1, <1>3, <1>8, RequestParts, ListsDiffer
  <2>2. QED
    BY <1>1, <1>2, <1>4, <1>8, <2>1, CallerSpares DEF SemTake
<1>9. ASSUME r.call = "SEM_GIVE", SemGive(r.object) PROVE Spares(kernel, kernel', t)
  <2> DEFINE s == r.object
             l == SemWaiters(s)
  <2>1. s \in Semaphores /\ l \in WaitLists /\ \A m \in Mutexes : l # MutexWaiters(m)
    BY <1>1, <1>3, <1>9, RequestParts, ListsDiffer
  <2>2. CASE WaitHead(kernel, l) = NoTask
    <3>1. \E status \in Statuses : kernel' = SetResult(kernel, t, status)
      BY <1>1, <1>9, <2>2 DEF SemGive, GiveOutcome
    <3>2. QED
      BY <1>4, <3>1
  <2>3. CASE WaitHead(kernel, l) # NoTask
    <3>1. kernel' = WaitMaybePreempt(SetResult(WaitMakeReady(WaitPop(kernel, l), WaitHead(kernel, l), "OK"),
                                               t, "OK"), WaitHead(kernel, l))
      BY <1>9, <2>3 DEF SemGive, GiveOutcome
    <3> HIDE DEF l
    <3>2. QED
      BY <1>1, <1>2, <2>1, <2>3, <3>1, ServedSpares
  <2>4. QED
    BY <2>2, <2>3
<1>10. ASSUME NEW l \in WaitLists, WaitHead(kernel, l) = NoTask
       PROVE  Spares(kernel, SetResult(WaitPop(kernel, l), t, "OK"), t)
  BY <1>1, <1>4, <1>10, NothingToPop
<1>11. ASSUME r.call = "QUEUE_SEND", QueueSend(r.object, r.message, r.ticks)
       PROVE  Spares(kernel, kernel', t)
  <2> DEFINE q == r.object
             l == ReceiveWaiters(q)
             w == WaitHead(kernel, l)
  <2>1. /\ r.ticks \in Ticks /\ l \in WaitLists /\ \A m \in Mutexes : l # MutexWaiters(m)
        /\ SendWaiters(q) \in WaitLists
    BY <1>1, <1>3, <1>11, RequestParts, ListsDiffer
  <2>2. CurrentRuns(kernel)
    BY <1>11 DEF QueueSend
  <2>3. CASE w # NoTask /\ kernel' = WaitMaybePreempt(WaitMakeReady(
                                         SetResult(WaitPop(kernel, l), t, "OK"), w, "OK"), w)
    <3> HIDE DEF l
    <3>1. QED
      BY <1>1, <1>2, <2>1, <2>3, ServedSpares
  <2>4. CASE w = NoTask /\ kernel' = SetResult(WaitPop(kernel, l), t, "OK")
    BY <1>10, <2>1, <2>4
  <2>5. CASE kernel' = SetResult(kernel, t, "TIMEOUT")
    BY <1>1, <1>4, <2>5
  <2>6. CASE r.ticks # 0 /\ kernel' = WaitBlockCurrent(kernel, SendWaiters(q), r.ticks)
    BY <1>2, <2>1, <2>2, <2>6, CallerSpares
  <2>7. QED
    BY <1>11, <2>3, <2>4, <2>5, <2>6 DEF QueueSend
<1>12. ASSUME r.call = "QUEUE_RECEIVE", QueueReceive(r.object, r.ticks)
       PROVE  Spares(kernel, kernel', t)
  <2> DEFINE q == r.object
             l == SendWaiters(q)
             w == WaitHead(kernel, l)
  <2>1. /\ r.ticks \in Ticks /\ l \in WaitLists /\ \A m \in Mutexes : l # MutexWaiters(m)
        /\ ReceiveWaiters(q) \in WaitLists
    BY <1>1, <1>3, <1>12, RequestParts, ListsDiffer
  <2>2. CurrentRuns(kernel)
    BY <1>12 DEF QueueReceive
  <2>3. CASE w # NoTask /\ kernel' = WaitMaybePreempt(WaitMakeReady(
                                         SetResult(WaitPop(kernel, l), t, "OK"), w, "OK"), w)
    <3> HIDE DEF l
    <3>1. QED
      BY <1>1, <1>2, <2>1, <2>3, ServedSpares
  <2>4. CASE w = NoTask /\ kernel' = SetResult(WaitPop(kernel, l), t, "OK")
    BY <1>10, <2>1, <2>4
  <2>5. CASE kernel' = SetResult(kernel, t, "TIMEOUT")
    BY <1>1, <1>4, <2>5
  <2>6. CASE r.ticks # 0 /\ kernel' = WaitBlockCurrent(kernel, ReceiveWaiters(q), r.ticks)
    BY <1>2, <2>1, <2>2, <2>6, CallerSpares
  <2>7. QED
    BY <1>12, <2>3, <2>4, <2>5, <2>6 DEF QueueReceive
<1>13. ASSUME r.call = "MUTEX_LOCK", MutexLock(r.object, r.ticks) PROVE Spares(kernel, kernel', t)
  <2> DEFINE m == r.object
             j == MutexWaitersChanged(WaitBlockCurrent(kernel, MutexWaiters(m), r.ticks))
  <2>1. r.ticks \in Ticks /\ m \in Mutexes /\ CurrentRuns(kernel)
    BY <1>1, <1>3, <1>13, RequestParts DEF MutexLock
  <2>2. CASE kernel' = SetResult([kernel EXCEPT !.owner[m] = t], t, "OK")
    BY <1>2, <2>1, <2>2, MutexSpares
  <2>3. CASE \/ kernel' = SetResult(kernel, t, "BAD_STATE")
             \/ kernel' = SetResult(kernel, t, "TIMEOUT")
    BY <1>1, <1>4, <2>3
  <2>4. CASE r.ticks # 0 /\ (kernel' = j \/ kernel' = SchedSchedule(j, FALSE))
    BY <1>2, <2>1, <2>4, MutexSpares
  <2>5. QED
    BY <1>13, <2>2, <2>3, <2>4 DEF MutexLock
<1>14. ASSUME r.call = "MUTEX_UNLOCK", MutexUnlock(r.object) PROVE Spares(kernel, kernel', t)
  <2> DEFINE m == r.object
             l == MutexWaiters(m)
             w == WaitHead(kernel, l)
             v == MutexGiven(kernel, m, t)
  <2>1. m \in Mutexes /\ CurrentRuns(kernel)
    BY <1>1, <1>3, <1>14, RequestParts DEF MutexUnlock
  <2>2. CASE kernel' = SetResult(kernel, t, "NOT_OWNER")
    BY <1>1, <1>4, <2>2
  <2>3. CASE kernel' = v
    BY <1>2, <2>1, <2>3, MutexSpares
  <2>4. CASE w # NoTask /\ kernel' = WaitMaybePreempt(WaitMakeReady(v, w, "OK"), w)
    BY <1>2, <2>1, <2>4, MutexSpares
  <2>5. QED
    BY <1>14, <2>2, <2>3, <2>4 DEF MutexUnlock, MutexGiven, MutexPassed
<1>15. QED
  BY <1>5, <1>6, <1>7, <1>8, <1>9, <1>11, <1>12, <1>13, <1>14 DEF Handle

\* The calls that wait for a resource, and what the kernel may have for a caller that
\* waits at most `timeout': a wait for ever has no deadline, and no time-out.
Waits == {"SEM_TAKE", "QUEUE_SEND", "QUEUE_RECEIVE"}
Outcome(k, t, timeout) ==
    IF k.state[t] = "BLOCKED_OBJECT" THEN DelayLinked(k, t) => timeout # WaitForever
    ELSE k.result[t] = "OK" \/ (k.result[t] = "TIMEOUT" /\ timeout # WaitForever)

\* Nobody else's handler gives it another.
LEMMA OutcomeStays ==
    ASSUME NEW k, NEW r, NEW t, NEW timeout, Outcome(k, t, timeout), Calm(k, r, t)
    PROVE  Outcome(r, t, timeout)
  BY DEF Outcome, Calm

\* The caller's own handler leaves it one of these.
LEMMA RequestOutcome ==
    ASSUME KernelInv(kernel), kernel.current \in Tasks, NEW r \in MayAsk(kernel.current), Handle(r),
           r.call \in Waits
    PROVE  Outcome(kernel', kernel.current, r.ticks)
<1> DEFINE t == kernel.current
<1>1. /\ r \in Requests \cup {ExitRequest} /\ Timeouts \subseteq Ticks
      /\ "OK" \in Statuses /\ "TIMEOUT" \in Statuses /\ 0 # WaitForever
  BY MayAskParts, MiniRtosAssumption, OsKernelAssumption DEF Statuses, WaitForever
<1>2. Sound(kernel) /\ Consistent(kernel, {}) /\ kernel.state[t] = "RUNNING"
  <2>1. t # NoTask
    BY DEF Tasks, NoTask
  <2>2. QED
    BY <2>1 DEF KernelInv, Sound
<1>3. r = ExitRequest => r.call = "EXIT"
  BY SpecialRequests
<1>4. ~DelayLinked(kernel, t)
  BY <1>2 DEF Consistent, StatesAgree
<1>5. ASSUME NEW j, j = SetResult(kernel, t, "OK") \/ (j = SetResult(kernel, t, "TIMEOUT") /\ r.ticks = 0)
      PROVE  Outcome(j, t, r.ticks)
  <2>1. /\ j.state[t] = "RUNNING"
        /\ j.result[t] = "OK" \/ (j.result[t] = "TIMEOUT" /\ r.ticks # WaitForever)
    BY <1>1, <1>2, <1>5, StatusSpares
  <2>2. QED
    BY <2>1 DEF Outcome
<1>6. ASSUME CurrentRuns(kernel), NEW l \in WaitLists, r.ticks \in Ticks, r.ticks # 0
      PROVE  Outcome(WaitBlockCurrent(kernel, l, r.ticks), t, r.ticks)
  <2> DEFINE j == WaitBlockCurrent(kernel, l, r.ticks)
  <2>1. /\ Blocks(kernel, j, t, l)
        /\ r.ticks = WaitForever => (DelayLinked(j, t) <=> DelayLinked(kernel, t))
    BY <1>2, <1>6, WaitBlockCurrentSound
  <2> HIDE DEF j
  <2>2. Outcome(j, t, r.ticks)
    BY <1>4, <2>1 DEF Blocks, Outcome
  <2>3. QED
    BY <2>2 DEF j
<1>7. ASSUME NEW l \in WaitLists, \A m \in Mutexes : l # MutexWaiters(m), WaitHead(kernel, l) # NoTask,
             NEW j, j = WaitMaybePreempt(WaitMakeReady(SetResult(WaitPop(kernel, l), t, "OK"),
                                                      WaitHead(kernel, l), "OK"), WaitHead(kernel, l))
      PROVE  Outcome(j, t, r.ticks)
  <2>1. Granting(j, t)
    BY <1>2, <1>7, ServedSpares
  <2>2. QED
    BY <2>1 DEF Granting, Outcome
<1>8. ASSUME NEW l \in WaitLists, WaitHead(kernel, l) = NoTask,
             NEW j, j = SetResult(WaitPop(kernel, l), t, "OK")
      PROVE  Outcome(j, t, r.ticks)
  BY <1>5, <1>8, NothingToPop
<1>9. CASE r.call = "SEM_TAKE" /\ SemTake(r.object, r.ticks)
  <2>1. r.ticks \in Ticks /\ SemWaiters(r.object) \in WaitLists
    BY <1>1, <1>3, <1>9, RequestParts, ListsDiffer
  <2>2. QED
    BY <1>5, <1>6, <1>9, <2>1 DEF SemTake
<1>10. CASE r.call = "QUEUE_SEND" /\ QueueSend(r.object, r.message, r.ticks)
  <2> DEFINE l == ReceiveWaiters(r.object)
  <2>1. /\ r.ticks \in Ticks /\ l \in WaitLists /\ \A m \in Mutexes : l # MutexWaiters(m)
        /\ SendWaiters(r.object) \in WaitLists
    BY <1>1, <1>3, <1>10, RequestParts, ListsDiffer
  <2>2. \/ /\ WaitHead(kernel, l) # NoTask
           /\ kernel' = WaitMaybePreempt(WaitMakeReady(SetResult(WaitPop(kernel, l), t, "OK"),
                                                      WaitHead(kernel, l), "OK"), WaitHead(kernel, l))
        \/ WaitHead(kernel, l) = NoTask /\ kernel' = SetResult(WaitPop(kernel, l), t, "OK")
        \/ kernel' = SetResult(kernel, t, "TIMEOUT") /\ r.ticks = 0
        \/ /\ CurrentRuns(kernel) /\ r.ticks # 0
           /\ kernel' = WaitBlockCurrent(kernel, SendWaiters(r.object), r.ticks)
    BY <1>10 DEF QueueSend
  <2> HIDE DEF l
  <2>3. QED
    BY <1>5, <1>6, <1>7, <1>8, <2>1, <2>2
<1>11. CASE r.call = "QUEUE_RECEIVE" /\ QueueReceive(r.object, r.ticks)
  <2> DEFINE l == SendWaiters(r.object)
  <2>1. /\ r.ticks \in Ticks /\ l \in WaitLists /\ \A m \in Mutexes : l # MutexWaiters(m)
        /\ ReceiveWaiters(r.object) \in WaitLists
    BY <1>1, <1>3, <1>11, RequestParts, ListsDiffer
  <2>2. \/ /\ WaitHead(kernel, l) # NoTask
           /\ kernel' = WaitMaybePreempt(WaitMakeReady(SetResult(WaitPop(kernel, l), t, "OK"),
                                                      WaitHead(kernel, l), "OK"), WaitHead(kernel, l))
        \/ WaitHead(kernel, l) = NoTask /\ kernel' = SetResult(WaitPop(kernel, l), t, "OK")
        \/ kernel' = SetResult(kernel, t, "TIMEOUT") /\ r.ticks = 0
        \/ /\ CurrentRuns(kernel) /\ r.ticks # 0
           /\ kernel' = WaitBlockCurrent(kernel, ReceiveWaiters(r.object), r.ticks)
    BY <1>11 DEF QueueReceive
  <2> HIDE DEF l
  <2>3. QED
    BY <1>5, <1>6, <1>7, <1>8, <2>1, <2>2
<1>12. QED
  BY <1>9, <1>10, <1>11 DEF Handle, Waits

\* A give from an interrupt wakes a waiter of its semaphore and minds nobody else.
LEMMA InterruptCalm ==
    ASSUME Sound(kernel), NEW s \in Semaphores, SemGiveFromISR(s)
    PROVE  \A u \in Tasks : Calm(kernel, kernel', u)
<1> DEFINE l == SemWaiters(s)
           e == EnterCritical(kernel)
           w == WaitHead(e, l)
           r == WaitMakeReady(WaitPop(e, l), w, "OK")
           j == WaitMaybePreempt(r, w)
<1>1. Sound(e) /\ SameTasks(kernel, e)
  BY CriticalSound
<1>2. ASSUME NEW u \in Tasks PROVE Calm(kernel, kernel', u)
  <2>1. Calm(kernel, e, u)
    BY <1>1, SchedulingIsCalm
  <2>2. CASE w = NoTask
    <3>1. kernel' = ExitCritical(e)
      BY <2>2 DEF SemGiveFromISR, GiveOutcome
    <3> HIDE DEF e
    <3>2. OnlySchedules(e, kernel')
      BY <1>1, <3>1, CriticalSound
    <3>3. QED
      BY <2>1, <3>2, SchedulingIsCalm, CalmFollows
  <2>3. CASE w # NoTask
    <3> DEFINE v == WaitPop(e, l)
    <3>1. kernel' = ExitCritical(j)
      BY <2>3 DEF SemGiveFromISR, GiveOutcome
    <3>2. 0 \in Tasks /\ l \in WaitLists /\ \A m \in Mutexes : l # MutexWaiters(m)
      BY OsKernelAssumption, ListsDiffer DEF Tasks
    <3>3. Sound(r)
      BY <1>1, <2>3, <3>2, GrantServes
    <3>4. Consistent(e, {})
      BY <1>1 DEF Sound
    <3> HIDE DEF e, l
    <3>5. SameTasks(e, v) /\ w \in Tasks /\ e.state[w] = "BLOCKED_OBJECT" /\ Consistent(v, {w})
      BY <2>3, <3>2, <3>4, WaitPopExact
    <3> HIDE DEF v, w
    <3>6. v.state[w] = "BLOCKED_OBJECT" /\ r = WaitMakeReady(v, w, "OK")
      BY <3>5 DEF SameTasks, v
    <3>7. Calm(e, v, u) /\ Calm(v, r, u)
      BY <3>5, <3>6, ReadyingSpares, SchedulingIsCalm
    <3> HIDE DEF r
    <3>8. Sound(j) /\ OnlySchedules(r, j)
      BY <3>3, WaitMaybePreemptSound
    <3> HIDE DEF j
    <3>9. OnlySchedules(j, kernel')
      BY <3>1, <3>8, CriticalSound
    <3>10. Calm(r, j, u) /\ Calm(j, kernel', u)
      BY <3>8, <3>9, SchedulingIsCalm
    <3>11. QED
      BY <2>1, <3>7, <3>10, CalmFollows
  <2>4. QED
    BY <2>2, <2>3
<1>3. QED
  BY <1>2

\* Each tick advances it by one, modulo the width of the counter.
LEMMA TickClock ==
    ASSUME NEW k, Sound(k), Deadlines(k, k.tick + 1)
    PROVE  /\ TimeTick(k).started = k.started
           /\ TimeTick(k).tick = (k.tick + 1) % TickModulus
<1> DEFINE now == AdvanceTick(k)
           woken == WakeDue(now)
           used == UseSlice(woken.k)
<1>1. Sound(now) /\ Deadlines(now, now.tick)
      /\ now.tick = (k.tick + 1) % TickModulus /\ now.started = k.started
  BY AdvanceTickSound
<1> HIDE DEF now
<1>2. Sound(woken.k) /\ Deadlines(woken.k, woken.k.tick + 1) /\ WokenDue(now, woken.k)
  BY <1>1, WakeDueSound
<1> HIDE DEF woken
<1>3. Sound(used) /\ SameTasks(woken.k, used)
  BY <1>2, UseSliceSound
<1> HIDE DEF used
<1>4. OnlySchedules(used, TickSwitch(used, woken.wokeHigher))
  BY <1>3, TickSwitchSound
<1>5. TimeTick(k) = TickSwitch(used, woken.wokeHigher)
  BY DEF TimeTick, used, woken, now
<1>6. QED
  BY <1>1, <1>2, <1>3, <1>4, <1>5 DEF WokenDue, SameTasks, OnlySchedules

\* The processor is never idle once the kernel is started: the Idle task is READY
\* whenever it does not run, so the port always finds a worker to let go.
LEMMA SomebodyRuns ==
    ASSUME NEW k, KernelInv(k), PriorityInv(k), k.started
    PROVE  k.current \in Tasks /\ k.state[k.current] = "RUNNING"
<1>1. PICK t \in Tasks : IsIdle(t)
  BY OsPortAssumption
<1>2. Sound(k) /\ k \in GoodKernel /\ OneRuns(k)
  BY DEF KernelInv, Sound, Consistent
<1>3. k.current \in Tasks \cup {NoTask} /\ NoTask \notin Tasks
  BY <1>2, FieldTypes
<1>4. k.current # NoTask
  BY <1>1, <1>2, <1>3 DEF PriorityInv, IdleApart, Highest, OneRuns
<1>5. QED
  BY <1>2, <1>3, <1>4 DEF Sound

\* Nobody comes back: a task that has ended stays TERMINATED.
LEMMA EndIsFinal ==
    ASSUME NEW k, NEW r, NEW joined, NEW granted, Fates(k, r, joined, granted),
           NEW t \in Tasks, k.state[t] = "TERMINATED"
    PROVE  r.state[t] = "TERMINATED"
  BY DEF Fates, Kept, TimedOut, Ended, Leaves

\* What a handler leaves of it: somebody runs, and who had ended has ended.
Carries(k, r) ==
    /\ r.started /\ r.current \in Tasks /\ r.state[r.current] = "RUNNING"
    /\ r.result \in [Tasks -> Statuses]
    /\ \A t \in Tasks : k.state[t] = "TERMINATED" => r.state[t] = "TERMINATED"

\* What a step of the kernel's specification gives the port.
LEMMA StepCarries ==
    ASSUME SafeInv, PriorityInv(kernel), Next, kernel'.started
    PROVE  SafeInv' /\ PriorityInv(kernel') /\ Carries(kernel, kernel')
<1>1. SafeInv' /\ PriorityInv(kernel')
  BY StepSafe, StepPriorities
<1>2. KernelInv(kernel') /\ kernel' \in GoodKernel
  BY <1>1 DEF SafeInv, TypeInv
<1>3. kernel'.current \in Tasks /\ kernel'.state[kernel'.current] = "RUNNING"
  BY <1>1, <1>2, SomebodyRuns
<1>4. kernel'.result \in [Tasks -> Statuses]
  BY <1>2, FieldTypes
<1>5. ASSUME NEW t \in Tasks, kernel.state[t] = "TERMINATED"
      PROVE  kernel'.state[t] = "TERMINATED"
  <2>1. \/ UNCHANGED kernel
        \/ \E joined, granted : Fates(kernel, kernel', joined, granted)
    BY StepFates
  <2>2. QED
    BY <1>5, <2>1, EndIsFinal
<1>6. QED
  BY <1>1, <1>3, <1>4, <1>5 DEF Carries

\* os_port_task_request, the control thread's side.
LEMMA HandleStep ==
    ASSUME SafeInv, PriorityInv(kernel), kernel.started,
           NEW r \in MayAsk(kernel.current), Handle(r)
    PROVE  /\ SafeInv' /\ PriorityInv(kernel') /\ Carries(kernel, kernel')
           /\ SameClock(kernel, kernel') /\ Spares(kernel, kernel', kernel.current)
           /\ r = ExitRequest => kernel'.state[kernel.current] = "TERMINATED"
           /\ r.call \in Waits => Outcome(kernel', kernel.current, r.ticks)
<1>1. KernelInv(kernel) /\ Sound(kernel)
  BY DEF SafeInv, KernelInv
<1>2. kernel.current \in Tasks
  BY <1>1, SomebodyRuns
<1>3. Next
  BY <1>2, RequestIsStep
<1>4. SameClock(kernel, kernel') /\ Spares(kernel, kernel', kernel.current)
  <2>1. r \in Requests \cup {ExitRequest}
    BY <1>2, MayAskParts
  <2>2. Spares(kernel, kernel', kernel.current)
    BY <1>1, <1>2, <2>1, RequestSpares
  <2>3. QED
    BY <2>2 DEF Spares
<1>5. kernel'.started
  BY <1>4 DEF SameClock
<1>6. ASSUME r = ExitRequest PROVE kernel'.state[kernel.current] = "TERMINATED"
  <2>1. TaskExit(kernel.current)
    BY <1>6, SpecialRequests DEF Handle
  <2>2. CurrentRuns(kernel) /\ kernel' = SchedCurrentBlocked(
            [MutexReleaseTask(kernel, kernel.current) EXCEPT !.state[kernel.current] = "TERMINATED"])
    BY <2>1 DEF TaskExit
  <2>3. QED
    BY <1>1, <2>2, ExitSound
<1>7. r.call \in Waits => Outcome(kernel', kernel.current, r.ticks)
  BY <1>1, <1>2, RequestOutcome
<1>8. QED
  BY <1>3, <1>4, <1>5, <1>6, <1>7, StepCarries

\* os_PortApplyTick.
LEMMA TickStep ==
    ASSUME SafeInv, PriorityInv(kernel), kernel.started, kernel' = TimeTick(kernel),
           UNCHANGED objects
    PROVE  /\ SafeInv' /\ PriorityInv(kernel') /\ Carries(kernel, kernel')
           /\ kernel'.tick = (kernel.tick + 1) % TickModulus
           /\ \A u \in Tasks : Calm(kernel, kernel', u)
<1>1. Sound(kernel) /\ Deadlines(kernel, kernel.tick + 1)
  BY DEF SafeInv, KernelInv
<1>2. kernel'.started = kernel.started /\ kernel'.tick = (kernel.tick + 1) % TickModulus
  BY <1>1, TickClock
<1>3. Next
  BY DEF Next, Timer, Tick, objects
<1>4. \A u \in Tasks : Calm(kernel, kernel', u)
  BY <1>1, TimeTickSound
<1>5. QED
  BY <1>2, <1>3, <1>4, StepCarries

\* os_SchedStart.
LEMMA StartStep ==
    ASSUME SafeInv, PriorityInv(kernel), SchedStart, UNCHANGED objects
    PROVE  SafeInv' /\ PriorityInv(kernel') /\ Carries(kernel, kernel')
<1> DEFINE j == [kernel EXCEPT !.started = TRUE]
<1>1. Consistent(kernel, {}) /\ kernel \in Kernel /\ kernel \in GoodKernel /\ kernel.current = NoTask
  BY DEF SafeInv, KernelInv, Sound, Consistent, GoodKernel, SchedStart
<1>2. /\ j.started = TRUE /\ j.state = kernel.state
      /\ j.delayed = kernel.delayed /\ j.overflow = kernel.overflow
      /\ j.waitOn = kernel.waitOn /\ j.current = kernel.current
      /\ j.ready = kernel.ready /\ j.waiters = kernel.waiters /\ j.effective = kernel.effective
  BY <1>1 DEF Kernel
<1>3. j \in GoodKernel
  BY <1>1 DEF GoodKernel, Kernel
<1>4. kernel' = SwitchToHighest(j)
  BY DEF SchedStart
<1> HIDE DEF j
<1>5. Consistent(j, {})
  BY <1>1, <1>2, <1>3, FreeChange
<1>6. \A t \in Tasks : j.state[t] # "RUNNING"
  BY <1>1, <1>2, FieldTypes DEF Consistent, OneRuns
<1>7. OnlySchedules(j, kernel')
  BY <1>4, <1>5, <1>6, SwitchToHighestSound
<1>8. kernel'.started
  BY <1>2, <1>7 DEF OnlySchedules
<1>9. Next
  BY DEF Next, Start, objects
<1>10. QED
  BY <1>8, <1>9, StepCarries
-------------------------------------------------------------------------------
(* os_queue.c: the ring of slots is a queue of messages *)

\* The tail is where the counted messages end.
RingAgrees(r, q) == r.tail = (r.head + r.count) % Capacity[q]

\* The messages of a ring in the order they will be received.
Snapshot(r, q) == [i \in 1 .. r.count |-> r.slots[(r.head + i - 1) % Capacity[q]]]

\* The slot n places behind slot h: the numbers wrap once at most.
Behind(q, h, n) == IF h + n < Capacity[q] THEN h + n ELSE h + n - Capacity[q]

LEMMA SlotArithmetic ==
    ASSUME NEW q \in Queues, NEW h \in Slots(q), NEW n \in 0 .. Capacity[q]
    PROVE  /\ Capacity[q] \in Nat \ {0} /\ h \in Nat /\ h < Capacity[q]
           /\ (h + n) % Capacity[q] = Behind(q, h, n) /\ Behind(q, h, n) \in Slots(q)
<1> DEFINE C == Capacity[q]
<1>1. C \in Nat \ {0} /\ Slots(q) = 0 .. C - 1
  BY OsQueueAssumption DEF Slots
<1>2. h \in Nat /\ h < C
  BY <1>1
<1>3. n \in Nat /\ n <= C
  BY <1>1
<1> HIDE DEF C
<1>4. \A x \in 0 .. C - 1 : x % C = x
  BY <1>1
<1>5. \A x \in C .. 2 * C - 1 : x % C = x - C
  BY <1>1
<1>6. CASE h + n < C
  <2>1. h + n \in 0 .. C - 1
    BY <1>1, <1>2, <1>3, <1>6
  <2>2. (h + n) % C = h + n
    BY <1>4, <2>1
  <2>3. h + n \in Slots(q)
    BY <1>1, <1>2, <1>3, <1>6
  <2>4. QED
    BY <1>1, <1>2, <1>6, <2>2, <2>3 DEF Behind, C
<1>7. CASE ~(h + n < C)
  <2>1. PICK x \in C .. 2 * C - 1 : x = h + n
    BY <1>1, <1>2, <1>3, <1>7
  <2>2. (h + n) % C = h + n - C
    <3>1. x % C = x - C
      BY <1>5
    <3>2. QED
      BY <1>1, <1>2, <1>3, <2>1, <3>1
  <2>3. h + n - C \in Slots(q)
    BY <1>1, <1>2, <1>3, <1>7
  <2>4. QED
    BY <1>1, <1>2, <1>7, <2>2, <2>3 DEF Behind, C
<1>8. QED
  BY <1>6, <1>7

\* Going on from there; and no slot is met twice in a turn.
LEMMA BehindBehind ==
    ASSUME NEW q \in Queues, NEW h \in Slots(q), NEW a \in Nat, NEW b \in Nat, a + b <= Capacity[q]
    PROVE  Behind(q, Behind(q, h, a), b) = Behind(q, h, a + b)
<1>1. Capacity[q] \in Nat \ {0} /\ h \in Nat /\ h < Capacity[q]
  BY OsQueueAssumption DEF Slots
<1>2. QED
  BY <1>1 DEF Behind

LEMMA BehindDiffers ==
    ASSUME NEW q \in Queues, NEW h \in Slots(q), NEW a \in Nat, NEW b \in Nat, a < b, b < Capacity[q]
    PROVE  Behind(q, h, a) # Behind(q, h, b)
<1>1. Capacity[q] \in Nat \ {0} /\ h \in Nat /\ h < Capacity[q]
  BY OsQueueAssumption DEF Slots
<1>2. QED
  BY <1>1 DEF Behind

\* The fields of a ring, and its snapshot.
LEMMA RingFields ==
    ASSUME NEW q \in Queues, NEW r \in Ring(q)
    PROVE  /\ Capacity[q] \in Nat \ {0}
           /\ r.head \in Nat /\ r.head < Capacity[q] /\ r.head \in Slots(q) /\ r.tail \in Slots(q)
           /\ r.count \in Nat /\ r.count <= Capacity[q]
           /\ r.slots \in [Slots(q) -> Messages \cup {NoMessage}]
           /\ RingAgrees(r, q) <=> r.tail = Behind(q, r.head, r.count)
           /\ Snapshot(r, q) \in Seq(Messages \cup {NoMessage}) /\ Len(Snapshot(r, q)) = r.count
           /\ \A i \in 1 .. r.count : Snapshot(r, q)[i] = r.slots[Behind(q, r.head, i - 1)]
<1> DEFINE s == Snapshot(r, q)
           M == Messages \cup {NoMessage}
<1>1. /\ r.head \in Slots(q) /\ r.tail \in Slots(q) /\ r.count \in 0 .. Capacity[q]
      /\ r.slots \in [Slots(q) -> M]
  BY DEF Ring
<1>2. /\ Capacity[q] \in Nat \ {0} /\ r.head \in Nat /\ r.head < Capacity[q]
      /\ (r.head + r.count) % Capacity[q] = Behind(q, r.head, r.count)
  BY <1>1, SlotArithmetic
<1>3. r.count \in Nat /\ r.count <= Capacity[q]
  BY <1>1, <1>2
<1> HIDE DEF M
<1>4. ASSUME NEW i \in 1 .. r.count
      PROVE  /\ r.slots[(r.head + i - 1) % Capacity[q]] \in M
             /\ r.slots[(r.head + i - 1) % Capacity[q]] = r.slots[Behind(q, r.head, i - 1)]
  <2>1. i - 1 \in 0 .. Capacity[q] /\ r.head + i - 1 = r.head + (i - 1)
    BY <1>2, <1>3
  <2>2. (r.head + (i - 1)) % Capacity[q] = Behind(q, r.head, i - 1)
        /\ Behind(q, r.head, i - 1) \in Slots(q)
    BY <1>1, <2>1, SlotArithmetic
  <2>3. QED
    BY <1>1, <2>1, <2>2
<1>5. s = [i \in 1 .. r.count |-> r.slots[(r.head + i - 1) % Capacity[q]]]
  BY DEF Snapshot
<1> HIDE DEF s
<1>6. s \in Seq(M) /\ Len(s) = r.count
  BY <1>3, <1>4, <1>5
<1>7. \A i \in 1 .. r.count : s[i] = r.slots[Behind(q, r.head, i - 1)]
  BY <1>4, <1>5
<1>8. QED
  BY <1>1, <1>2, <1>3, <1>6, <1>7 DEF RingAgrees, s, M

\* A message put in a ring comes last.
LEMMA PutAppends ==
    ASSUME NEW q \in Queues, NEW r \in Ring(q), RingAgrees(r, q), r.count < Capacity[q],
           NEW message \in Messages \cup {NoMessage}
    PROVE  LET p == Put(r, q, message) IN
           p \in Ring(q) /\ RingAgrees(p, q) /\ Snapshot(p, q) = Append(Snapshot(r, q), message)
<1> DEFINE C == Capacity[q]
           p == Put(r, q, message)
           s == Snapshot(r, q)
           z == Snapshot(p, q)
           M == Messages \cup {NoMessage}
<1>1. /\ C \in Nat \ {0} /\ r.head \in Nat /\ r.head < C
      /\ r.count \in Nat /\ r.count < C /\ r.tail \in Slots(q) /\ r.head \in Slots(q)
      /\ r.slots \in [Slots(q) -> M] /\ r.tail = Behind(q, r.head, r.count)
      /\ s \in Seq(M) /\ Len(s) = r.count
      /\ \A i \in 1 .. r.count : s[i] = r.slots[Behind(q, r.head, i - 1)]
  BY RingFields
<1>2. p \in Ring(q)
  BY PutType
<1>3. /\ p.head = r.head /\ p.tail = (r.tail + 1) % C /\ p.count = r.count + 1
      /\ p.slots = [r.slots EXCEPT ![r.tail] = message]
  BY DEF Put, Ring
<1>4. p.tail = Behind(q, r.tail, 1)
  <2>1. 1 \in 0 .. C
    BY <1>1
  <2>2. QED
    BY <1>1, <1>3, <2>1, SlotArithmetic
<1>5. /\ z \in Seq(M) /\ Len(z) = p.count
      /\ \A i \in 1 .. p.count : z[i] = p.slots[Behind(q, p.head, i - 1)]
      /\ RingAgrees(p, q) <=> p.tail = Behind(q, p.head, p.count)
  <2> HIDE DEF p
  <2>1. QED
    BY <1>2, RingFields
<1>6. \A n \in 0 .. r.count : Behind(q, r.head, n) \in Slots(q)
  <2>1. r.head \in Slots(q) /\ \A n \in 0 .. r.count : n \in 0 .. C
    BY <1>1 DEF Ring
  <2>2. QED
    BY <2>1, SlotArithmetic
<1> HIDE DEF C, p, s, z, M
<1>8. RingAgrees(p, q)
  <2>1. 1 \in Nat /\ r.count + 1 <= Capacity[q]
    BY <1>1 DEF C
  <2>2. Behind(q, Behind(q, r.head, r.count), 1) = Behind(q, r.head, r.count + 1)
    BY <1>1, <2>1, BehindBehind
  <2>3. QED
    BY <1>1, <1>3, <1>4, <1>5, <2>2
<1>9. ASSUME NEW i \in 1 .. r.count + 1 PROVE z[i] = Append(s, message)[i]
  <2>1. z[i] = p.slots[Behind(q, r.head, i - 1)] /\ i - 1 \in 0 .. r.count /\ i \in Int
    BY <1>1, <1>3, <1>5
  <2>2. CASE i = r.count + 1
    <3>1. i - 1 = r.count
      BY <1>1, <2>2
    <3>2. z[i] = message
      BY <1>1, <1>3, <2>1, <3>1
    <3>3. QED
      BY <1>1, <2>2, <3>2
  <2>3. CASE i # r.count + 1
    <3>1. i \in 1 .. r.count /\ i - 1 < r.count
      BY <1>1, <2>3
    <3>2. Behind(q, r.head, i - 1) # Behind(q, r.head, r.count)
      <4>1. i - 1 \in Nat /\ i - 1 < r.count /\ r.count < Capacity[q]
        BY <1>1, <2>1, <3>1 DEF C
      <4>2. QED
        BY <1>1, <4>1, BehindDiffers
    <3>3. z[i] = r.slots[Behind(q, r.head, i - 1)]
      BY <1>1, <1>3, <1>6, <2>1, <3>2
    <3>4. QED
      BY <1>1, <3>1, <3>3
  <2>4. QED
    BY <2>2, <2>3
<1>10. z = Append(s, message)
  <2>1. message \in M
    BY DEF M
  <2>2. Append(s, message) \in Seq(M) /\ Len(Append(s, message)) = r.count + 1
    BY <1>1, <2>1
  <2>3. Len(z) = r.count + 1 /\ r.count + 1 \in Nat
    BY <1>1, <1>3, <1>5
  <2> DEFINE a == Append(s, message)
  <2>4. \A i \in 1 .. r.count + 1 : z[i] = a[i]
    BY <1>9
  <2> HIDE DEF a
  <2>5. z = a
    BY <1>5, <2>2, <2>3, <2>4 DEF a
  <2>6. QED
    BY <2>5 DEF a
<1>11. QED
  BY <1>2, <1>8, <1>10 DEF p, s, z

\* The message taken from a ring is the first.
LEMMA TakeRemovesHead ==
    ASSUME NEW q \in Queues, NEW r \in Ring(q), RingAgrees(r, q), r.count > 0
    PROVE  LET p == TakeHead(r, q) IN
           /\ p \in Ring(q) /\ RingAgrees(p, q) /\ p.count < Capacity[q]
           /\ Snapshot(r, q) # <<>> /\ Snapshot(p, q) = Tail(Snapshot(r, q))
           /\ r.slots[r.head] = Head(Snapshot(r, q))
<1> DEFINE C == Capacity[q]
           p == TakeHead(r, q)
           s == Snapshot(r, q)
           z == Snapshot(p, q)
           M == Messages \cup {NoMessage}
<1>1. /\ C \in Nat \ {0} /\ r.head \in Nat /\ r.head < C
      /\ r.count \in Nat /\ r.count <= C /\ r.count > 0 /\ r.head \in Slots(q)
      /\ r.slots \in [Slots(q) -> M] /\ r.tail = Behind(q, r.head, r.count)
      /\ s \in Seq(M) /\ Len(s) = r.count
      /\ \A i \in 1 .. r.count : s[i] = r.slots[Behind(q, r.head, i - 1)]
  BY RingFields
<1>2. p \in Ring(q)
  BY TakeHeadType
<1>3. /\ p.head = (r.head + 1) % C /\ p.tail = r.tail /\ p.count = r.count - 1
      /\ p.slots = r.slots
  BY DEF TakeHead, Ring
<1>4. p.head = Behind(q, r.head, 1)
  <2>1. 1 \in 0 .. C
    BY <1>1
  <2>2. QED
    BY <1>1, <1>3, <2>1, SlotArithmetic
<1>5. /\ z \in Seq(M) /\ Len(z) = p.count
      /\ \A i \in 1 .. p.count : z[i] = p.slots[Behind(q, p.head, i - 1)]
      /\ RingAgrees(p, q) <=> p.tail = Behind(q, p.head, p.count)
  <2> HIDE DEF p
  <2>1. QED
    BY <1>2, RingFields
<1> HIDE DEF C, p, s, z, M
<1>7. ASSUME NEW n \in 0 .. r.count - 1 PROVE Behind(q, p.head, n) = Behind(q, r.head, n + 1)
  <2>1. n \in Nat /\ 1 \in Nat /\ 1 + n <= Capacity[q] /\ 1 + n = n + 1
    BY <1>1 DEF C
  <2>2. QED
    BY <1>1, <1>4, <2>1, BehindBehind
<1>8. RingAgrees(p, q)
  <2>1. r.count - 1 \in 0 .. r.count - 1 /\ (r.count - 1) + 1 = r.count
    BY <1>1
  <2>2. QED
    BY <1>1, <1>3, <1>5, <1>7, <2>1
<1>9. s # <<>> /\ r.slots[r.head] = Head(s)
  <2>1. s # <<>> /\ Head(s) = s[1] /\ 1 \in 1 .. r.count /\ 1 - 1 = 0
    BY <1>1
  <2>2. Behind(q, r.head, 0) = r.head
    BY <1>1 DEF Behind, C
  <2>3. QED
    BY <1>1, <2>1, <2>2
<1>10. ASSUME NEW i \in 1 .. r.count - 1 PROVE z[i] = s[i + 1]
  <2>1. /\ i + 1 \in 1 .. r.count /\ i \in 1 .. p.count /\ i - 1 \in 0 .. r.count - 1
        /\ (i - 1) + 1 = (i + 1) - 1
    BY <1>1, <1>3
  <2>2. Behind(q, p.head, i - 1) = Behind(q, r.head, (i + 1) - 1)
    BY <1>7, <2>1
  <2>3. QED
    BY <1>1, <1>3, <1>5, <2>1, <2>2
<1>11. z = Tail(s)
  <2>1. Tail(s) \in Seq(M) /\ Len(Tail(s)) = r.count - 1
        /\ \A i \in 1 .. r.count - 1 : Tail(s)[i] = s[i + 1]
    BY <1>1, <1>9
  <2>2. Len(z) = r.count - 1 /\ r.count - 1 \in Nat
    BY <1>1, <1>3, <1>5
  <2> DEFINE a == Tail(s)
  <2>3. \A i \in 1 .. r.count - 1 : z[i] = a[i]
    BY <1>10, <2>1
  <2> HIDE DEF a
  <2>4. z = a
    BY <1>5, <2>1, <2>2, <2>3 DEF a
  <2>5. QED
    BY <2>4 DEF a
<1>12. p.count < C
  BY <1>1, <1>3
<1>13. QED
  BY <1>2, <1>8, <1>9, <1>11, <1>12 DEF p, s, z, C
-------------------------------------------------------------------------------
(* A call of a queue is a call of its channel *)

RingsAgree == \A q \in Queues : RingAgrees(ring[q], q)

\* The callers and their clients: what every case of a queue's call has in common.
LEMMA QueueCaller ==
    ASSUME SafeInv, NEW q \in Queues, CurrentRuns(kernel)
    PROVE  /\ kernel.current \in Tasks \ (WaitersOn(SendWaiters(q)) \cup WaitersOn(ReceiveWaiters(q)))
           /\ kernel.result \in [Tasks -> Statuses] /\ kernel.waitOn \in [Tasks -> WaitLists \cup {NoWait}]
           /\ kernel.waitOn[kernel.current] = NoWait /\ NoWait \notin WaitLists
           /\ SendWaiters(q) \in WaitLists /\ ReceiveWaiters(q) \in WaitLists
           /\ SendWaiters(q) # ReceiveWaiters(q)
           /\ ring[q] \in Ring(q) /\ ring \in [Queues -> UNION {Ring(p) : p \in Queues}]
           /\ buffer \in [Tasks -> Messages \cup {NoMessage}]
           /\ Sound(kernel) /\ Consistent(kernel, {})
<1>1. /\ KernelInv(kernel) /\ Sound(kernel) /\ Consistent(kernel, {}) /\ kernel \in GoodKernel
      /\ ring[q] \in Ring(q) /\ ring \in [Queues -> UNION {Ring(p) : p \in Queues}]
      /\ buffer \in [Tasks -> Messages \cup {NoMessage}]
  BY DEF SafeInv, TypeInv, QueueType, KernelInv, Sound, Consistent
<1>2. kernel.current \in Tasks /\ kernel.state[kernel.current] = "RUNNING"
  BY <1>1, Caller
<1>3. /\ kernel.result \in [Tasks -> Statuses] /\ NoWait \notin WaitLists
      /\ kernel.waitOn \in [Tasks -> WaitLists \cup {NoWait}]
  BY <1>1, FieldTypes
<1>4. kernel.waitOn[kernel.current] = NoWait
  BY <1>1, <1>2 DEF Consistent, StatesAgree
<1>5. /\ SendWaiters(q) \in WaitLists /\ ReceiveWaiters(q) \in WaitLists
      /\ SendWaiters(q) # ReceiveWaiters(q)
  BY ListsDiffer
<1>6. QED
  BY <1>1, <1>2, <1>3, <1>4, <1>5 DEF WaitersOn

\* A caller that serves the first waiter of a list: both calls return OK, and
\* only the waiter's wait ends.
LEMMA ServingCall ==
    ASSUME NEW k, KernelInv(k), CurrentRuns(k), NEW l \in WaitLists, WaitHead(k, l) # NoTask
    PROVE  LET t == k.current
               w == WaitHead(k, l)
               r == WaitMaybePreempt(WaitMakeReady(SetResult(WaitPop(k, l), t, "OK"), w, "OK"), w)
           IN /\ w \in Tasks /\ k.waitOn[w] = l /\ w # t
              /\ r.result = [k.result EXCEPT ![t] = "OK", ![w] = "OK"]
              /\ r.waitOn = [k.waitOn EXCEPT ![w] = NoWait]
<1> DEFINE t == k.current
           w == WaitHead(k, l)
           popped == WaitPop(k, l)
           told == SetResult(popped, t, "OK")
           r == WaitMakeReady(told, w, "OK")
           s == WaitMaybePreempt(r, w)
<1>1. Consistent(k, {}) /\ "OK" \in Statuses /\ t \in Tasks /\ k.state[t] = "RUNNING"
  <2>1. Consistent(k, {}) /\ k \in GoodKernel
    BY DEF KernelInv, Sound, Consistent
  <2>2. t \in Tasks \cup {NoTask}
    BY <2>1, FieldTypes
  <2>3. QED
    BY <2>1, <2>2 DEF CurrentRuns, Statuses
<1>2. /\ SameTasks(k, popped) /\ w \in Tasks /\ k.waitOn[w] = l /\ k.state[w] = "BLOCKED_OBJECT"
      /\ Consistent(popped, {w})
  BY <1>1, WaitPopExact
<1> HIDE DEF popped, w, t
<1>3. /\ Consistent(told, {w}) /\ told.result = [popped.result EXCEPT ![t] = "OK"]
      /\ told.state = popped.state /\ told.waitOn = popped.waitOn /\ told.current = popped.current
  <2>1. Consistent(told, {w})
    BY <1>1, <1>2, SetResultSound
  <2>2. popped \in Kernel
    BY <1>2 DEF Consistent, GoodKernel
  <2>3. QED
    BY <2>1, <2>2 DEF SetResult, Kernel
<1> HIDE DEF told
<1>4. told.state[w] = "BLOCKED_OBJECT" /\ w \in {w}
  BY <1>2, <1>3 DEF SameTasks
<1>5. Consistent(r, {w} \ {w}) /\ Readied(told, r, w, "OK")
  BY <1>1, <1>2, <1>3, <1>4, WaitMakeReadyExact
<1> HIDE DEF r
<1>6. Sound(r)
  <2>1. r.current = k.current /\ r.state = [k.state EXCEPT ![w] = "READY"] /\ w # t
    BY <1>1, <1>2, <1>3, <1>5 DEF Readied, SameTasks
  <2>2. k.state \in [Tasks -> TaskStates] /\ {w} \ {w} = {}
    BY <1>1, FieldTypes DEF Consistent
  <2>3. r.state[t] = "RUNNING" /\ r.current = t
    BY <1>1, <2>1, <2>2 DEF t
  <2>4. QED
    BY <1>5, <2>2, <2>3 DEF Sound
<1>7. OnlySchedules(r, s)
  BY <1>6, WaitMaybePreemptSound
<1> HIDE DEF s
<1>8. /\ s.result = [k.result EXCEPT ![t] = "OK", ![w] = "OK"]
      /\ s.waitOn = [k.waitOn EXCEPT ![w] = NoWait]
  BY <1>2, <1>3, <1>5, <1>7 DEF SameTasks, Readied, OnlySchedules
<1>9. w # t
  BY <1>1, <1>2
<1>10. QED
  BY <1>2, <1>8, <1>9 DEF s, r, told, popped, w, t

\* The snapshot is that of the ring.
LEMMA SnapshotOfRing ==
    ASSUME NEW q \in Queues
    PROVE  /\ QueueSnapshot(q) = Snapshot(ring[q], q)
           /\ (QueueSnapshot(q))' = Snapshot(ring'[q], q)
  BY DEF QueueSnapshot, Snapshot

\* os_QueueSendCurrent.
LEMMA SendIsCall ==
    ASSUME SafeInv, RingsAgree, NEW q \in Queues, NEW message \in Messages, NEW timeout \in Ticks,
           QueueSend(q, message, timeout)
    PROVE  /\ RingAgrees(ring'[q], q) /\ \A p \in Queues : p # q => ring'[p] = ring[p]
           /\ \E c \in Tasks \ (WaitersOn(SendWaiters(q)) \cup WaitersOn(ReceiveWaiters(q))) :
                 Abstract(q)!Call(c)
<1> DEFINE t == kernel.current
           off == WaitersOn(SendWaiters(q))
           wnt == WaitersOn(ReceiveWaiters(q))
           l == ReceiveWaiters(q)
           w == WaitHead(kernel, l)
           snap == QueueSnapshot(q)
           Goal == /\ RingAgrees(ring'[q], q) /\ \A p \in Queues : p # q => ring'[p] = ring[p]
                   /\ \E c \in Tasks \ (off \cup wnt) : Abstract(q)!Call(c)
<1>1. /\ CurrentRuns(kernel) /\ KernelInv(kernel) /\ Supplies
      /\ "OK" \in Statuses /\ "TIMEOUT" \in Statuses
  BY DEF QueueSend, SafeInv, Statuses
<1>2. /\ t \in Tasks \ (off \cup wnt) /\ t \in Tasks
      /\ kernel.result \in [Tasks -> Statuses] /\ kernel.waitOn \in [Tasks -> WaitLists \cup {NoWait}]
      /\ kernel.waitOn[t] = NoWait /\ NoWait \notin WaitLists
      /\ SendWaiters(q) \in WaitLists /\ l \in WaitLists /\ SendWaiters(q) # l
      /\ ring[q] \in Ring(q) /\ ring \in [Queues -> UNION {Ring(p) : p \in Queues}]
      /\ buffer \in [Tasks -> Messages \cup {NoMessage}] /\ Sound(kernel) /\ Consistent(kernel, {})
  BY <1>1, QueueCaller
<1>3. /\ Capacity[q] \in Nat \ {0} /\ ring[q].count \in Nat /\ ring[q].count <= Capacity[q]
      /\ RingAgrees(ring[q], q) /\ snap \in Seq(Messages \cup {NoMessage})
      /\ Len(snap) = ring[q].count /\ snap = Snapshot(ring[q], q)
      /\ snap' = Snapshot(ring'[q], q)
  BY <1>2, RingFields, SnapshotOfRing DEF RingsAgree
<1>4. UNCHANGED ring => RingAgrees(ring'[q], q) /\ (\A p \in Queues : p # q => ring'[p] = ring[p])
                        /\ snap' = snap
  BY <1>3
<1>5. UNCHANGED kernel.waitOn => off' = off /\ wnt' = wnt
  BY DEF WaitersOn
<1>6. ASSUME w # NoTask, buffer' = [[buffer EXCEPT ![t] = message] EXCEPT ![w] = message],
             kernel' = WaitMaybePreempt(WaitMakeReady(
                           SetResult(WaitPop(kernel, l), t, "OK"), w, "OK"), w),
             UNCHANGED ring
      PROVE  Goal
  <2>1. /\ w \in Tasks /\ kernel.waitOn[w] = l /\ w # t
        /\ kernel'.result = [kernel.result EXCEPT ![t] = "OK", ![w] = "OK"]
        /\ kernel'.waitOn = [kernel.waitOn EXCEPT ![w] = NoWait]
    BY <1>1, <1>2, <1>6, ServingCall
  <2> HIDE DEF w
  <2>2. w \in wnt /\ wnt' = wnt \ {w} /\ off' = off
    BY <1>2, <2>1 DEF WaitersOn
  <2>3. snap = <<>>
    <3>1. ring[q].count = 0
      BY <1>1, <1>3, <2>1 DEF Supplies, NobodyWaits
    <3>2. QED
      BY <1>3, <3>1
  <2>4. Abstract(q)!Pass(t, message, w)
    BY <1>4, <1>6, <2>1, <2>2, <2>3 DEF Abstract!Pass
  <2>5. QED
    BY <1>2, <1>4, <1>6, <2>1, <2>4 DEF Abstract!Call
<1>7. ASSUME w = NoTask, ring[q].count < Capacity[q], ring' = [ring EXCEPT ![q] = Put(@, q, message)],
             buffer' = [buffer EXCEPT ![t] = message],
             kernel' = SetResult(WaitPop(kernel, l), t, "OK")
      PROVE  Goal
  <2>1. WaitPop(kernel, l) = kernel /\ NobodyWaits(kernel, l)
    BY <1>1, <1>2, <1>7, NothingToPop
  <2>2. /\ kernel'.result = [kernel.result EXCEPT ![t] = "OK"] /\ kernel'.waitOn = kernel.waitOn
    BY <1>1, <1>2, <1>7, <2>1, SetResultSound
  <2>3. wnt = {}
    BY <2>1 DEF WaitersOn, NobodyWaits
  <2>4. /\ ring'[q] = Put(ring[q], q, message) /\ \A p \in Queues : p # q => ring'[p] = ring[p]
    BY <1>2, <1>7
  <2>5. /\ RingAgrees(ring'[q], q) /\ snap' = Append(snap, message)
    BY <1>2, <1>3, <1>7, <2>4, PutAppends
  <2>6. Abstract(q)!Accept(t, message)
    BY <1>3, <1>5, <1>7, <2>2, <2>3, <2>5 DEF Abstract!Accept, Abstract!Hold, Abstract!Answer
  <2>7. QED
    BY <1>2, <2>4, <2>5, <2>6 DEF Abstract!Call
<1>8. ASSUME ring[q].count >= Capacity[q], kernel' = SetResult(kernel, t, "TIMEOUT"), UNCHANGED ring,
             buffer' = [buffer EXCEPT ![t] = message]
      PROVE  Goal
  <2>1. /\ kernel'.result = [kernel.result EXCEPT ![t] = "TIMEOUT"] /\ kernel'.waitOn = kernel.waitOn
    BY <1>1, <1>2, <1>8, SetResultSound
  <2>2. Len(snap) = Capacity[q]
    BY <1>3, <1>8
  <2>3. Abstract(q)!Refuse(t, message)
    BY <1>4, <1>5, <1>8, <2>1, <2>2 DEF Abstract!Refuse, Abstract!Hold, Abstract!Answer
  <2>4. QED
    BY <1>2, <1>4, <1>8, <2>3 DEF Abstract!Call
<1>9. ASSUME ring[q].count >= Capacity[q], timeout # 0, UNCHANGED ring,
             buffer' = [buffer EXCEPT ![t] = message],
             kernel' = WaitBlockCurrent(kernel, SendWaiters(q), timeout)
      PROVE  Goal
  <2>1. Blocks(kernel, kernel', t, SendWaiters(q))
    BY <1>1, <1>2, <1>9, WaitBlockCurrentSound
  <2>2. /\ kernel'.result = [kernel.result EXCEPT ![t] = "BAD_STATE"]
        /\ kernel'.waitOn = [kernel.waitOn EXCEPT ![t] = SendWaiters(q)]
    BY <2>1 DEF Blocks
  <2>3. off' = off \cup {t} /\ wnt' = wnt
    BY <1>2, <2>2 DEF WaitersOn
  <2>4. Len(snap) = Capacity[q]
    BY <1>3, <1>9
  <2>5. Abstract(q)!Offer(t, message)
    BY <1>4, <1>9, <2>2, <2>3, <2>4 DEF Abstract!Offer, Abstract!Hold, Abstract!Answer
  <2>6. QED
    BY <1>2, <1>4, <1>9, <2>5 DEF Abstract!Call
<1>10. QED
  BY <1>6, <1>7, <1>8, <1>9 DEF QueueSend

\* os_QueueReceiveCurrent.
LEMMA ReceiveIsCall ==
    ASSUME SafeInv, RingsAgree, NEW q \in Queues, NEW timeout \in Ticks, QueueReceive(q, timeout)
    PROVE  /\ RingAgrees(ring'[q], q) /\ \A p \in Queues : p # q => ring'[p] = ring[p]
           /\ \E c \in Tasks \ (WaitersOn(SendWaiters(q)) \cup WaitersOn(ReceiveWaiters(q))) :
                 Abstract(q)!Call(c)
<1> DEFINE t == kernel.current
           off == WaitersOn(SendWaiters(q))
           wnt == WaitersOn(ReceiveWaiters(q))
           l == SendWaiters(q)
           w == WaitHead(kernel, l)
           snap == QueueSnapshot(q)
           taken == TakeHead(ring[q], q)
           Goal == /\ RingAgrees(ring'[q], q) /\ \A p \in Queues : p # q => ring'[p] = ring[p]
                   /\ \E c \in Tasks \ (off \cup wnt) : Abstract(q)!Call(c)
<1>1. /\ CurrentRuns(kernel) /\ KernelInv(kernel) /\ Supplies
      /\ "OK" \in Statuses /\ "TIMEOUT" \in Statuses
  BY DEF QueueReceive, SafeInv, Statuses
<1>2. /\ t \in Tasks \ (off \cup wnt) /\ t \in Tasks
      /\ kernel.result \in [Tasks -> Statuses] /\ kernel.waitOn \in [Tasks -> WaitLists \cup {NoWait}]
      /\ kernel.waitOn[t] = NoWait /\ NoWait \notin WaitLists
      /\ l \in WaitLists /\ ReceiveWaiters(q) \in WaitLists /\ ReceiveWaiters(q) # l
      /\ ring[q] \in Ring(q) /\ ring \in [Queues -> UNION {Ring(p) : p \in Queues}]
      /\ buffer \in [Tasks -> Messages \cup {NoMessage}] /\ Sound(kernel) /\ Consistent(kernel, {})
  BY <1>1, QueueCaller
<1>3. /\ Capacity[q] \in Nat \ {0} /\ ring[q].count \in Nat /\ ring[q].count <= Capacity[q]
      /\ RingAgrees(ring[q], q) /\ snap \in Seq(Messages \cup {NoMessage})
      /\ Len(snap) = ring[q].count /\ snap = Snapshot(ring[q], q)
      /\ snap' = Snapshot(ring'[q], q)
  BY <1>2, RingFields, SnapshotOfRing DEF RingsAgree
<1>4. UNCHANGED ring => RingAgrees(ring'[q], q) /\ (\A p \in Queues : p # q => ring'[p] = ring[p])
                        /\ snap' = snap
  BY <1>3
<1>5. UNCHANGED kernel.waitOn => off' = off /\ wnt' = wnt
  BY DEF WaitersOn
<1>6. ring[q].count > 0 =>
          /\ taken \in Ring(q) /\ RingAgrees(taken, q) /\ taken.count < Capacity[q]
          /\ snap # <<>> /\ Snapshot(taken, q) = Tail(snap)
          /\ ring[q].slots[ring[q].head] = Head(snap)
  BY <1>2, <1>3, TakeRemovesHead
<1>7. ring[q].count = 0 => snap = <<>>
  BY <1>3
<1> HIDE DEF taken
<1>8. ASSUME w # NoTask, ring[q].count > 0,
             buffer' = [buffer EXCEPT ![t] = ring[q].slots[ring[q].head]],
             ring' = [ring EXCEPT ![q] = Put(taken, q, buffer[w])],
             kernel' = WaitMaybePreempt(WaitMakeReady(
                           SetResult(WaitPop(kernel, l), t, "OK"), w, "OK"), w)
      PROVE  Goal
  <2>1. /\ w \in Tasks /\ kernel.waitOn[w] = l /\ w # t
        /\ kernel'.result = [kernel.result EXCEPT ![t] = "OK", ![w] = "OK"]
        /\ kernel'.waitOn = [kernel.waitOn EXCEPT ![w] = NoWait]
    BY <1>1, <1>2, <1>8, ServingCall
  <2> HIDE DEF w
  <2>2. w \in off /\ off' = off \ {w} /\ wnt' = wnt
    BY <1>2, <2>1 DEF WaitersOn
  <2>3. /\ ring'[q] = Put(taken, q, buffer[w]) /\ \A p \in Queues : p # q => ring'[p] = ring[p]
    BY <1>2, <1>8
  <2>4. /\ RingAgrees(ring'[q], q) /\ snap' = Append(Tail(snap), buffer[w])
    <3>1. buffer[w] \in Messages \cup {NoMessage}
      BY <1>2, <2>1
    <3>2. QED
      BY <1>3, <1>6, <1>8, <2>3, <3>1, PutAppends
  <2>5. Abstract(q)!TakeAndAccept(t, w)
    BY <1>6, <1>8, <2>1, <2>2, <2>4 DEF Abstract!TakeAndAccept, Abstract!Hold
  <2>6. QED
    BY <1>2, <2>1, <2>3, <2>4, <2>5 DEF Abstract!Call
<1>9. ASSUME w = NoTask, ring[q].count > 0, ring' = [ring EXCEPT ![q] = taken],
             buffer' = [buffer EXCEPT ![t] = ring[q].slots[ring[q].head]],
             kernel' = SetResult(WaitPop(kernel, l), t, "OK")
      PROVE  Goal
  <2>1. WaitPop(kernel, l) = kernel /\ NobodyWaits(kernel, l)
    BY <1>1, <1>2, <1>9, NothingToPop
  <2>2. /\ kernel'.result = [kernel.result EXCEPT ![t] = "OK"] /\ kernel'.waitOn = kernel.waitOn
    BY <1>1, <1>2, <1>9, <2>1, SetResultSound
  <2>3. off = {}
    BY <2>1 DEF WaitersOn, NobodyWaits
  <2>4. /\ ring'[q] = taken /\ \A p \in Queues : p # q => ring'[p] = ring[p]
    BY <1>2, <1>9
  <2>5. /\ RingAgrees(ring'[q], q) /\ snap' = Tail(snap)
    BY <1>3, <1>6, <1>9, <2>4
  <2>6. Abstract(q)!Take(t)
    BY <1>5, <1>6, <1>9, <2>2, <2>3, <2>5 DEF Abstract!Take, Abstract!Hold, Abstract!Answer
  <2>7. QED
    BY <1>2, <2>4, <2>5, <2>6 DEF Abstract!Call
<1>10. ASSUME ring[q].count = 0, kernel' = SetResult(kernel, t, "TIMEOUT"), UNCHANGED <<ring, buffer>>
       PROVE  Goal
  <2>1. /\ kernel'.result = [kernel.result EXCEPT ![t] = "TIMEOUT"] /\ kernel'.waitOn = kernel.waitOn
    BY <1>1, <1>2, <1>10, SetResultSound
  <2>2. Abstract(q)!Miss(t)
    BY <1>4, <1>5, <1>7, <1>10, <2>1 DEF Abstract!Miss, Abstract!Answer
  <2>3. QED
    BY <1>2, <1>4, <1>10, <2>2 DEF Abstract!Call
<1>11. ASSUME ring[q].count = 0, timeout # 0, UNCHANGED <<ring, buffer>>,
              kernel' = WaitBlockCurrent(kernel, ReceiveWaiters(q), timeout)
       PROVE  Goal
  <2>1. Blocks(kernel, kernel', t, ReceiveWaiters(q))
    BY <1>1, <1>2, <1>11, WaitBlockCurrentSound
  <2>2. /\ kernel'.result = [kernel.result EXCEPT ![t] = "BAD_STATE"]
        /\ kernel'.waitOn = [kernel.waitOn EXCEPT ![t] = ReceiveWaiters(q)]
    BY <2>1 DEF Blocks
  <2>3. wnt' = wnt \cup {t} /\ off' = off
    BY <1>2, <2>2 DEF WaitersOn
  <2>4. Abstract(q)!Want(t)
    BY <1>4, <1>7, <1>11, <2>2, <2>3 DEF Abstract!Want, Abstract!Answer
  <2>5. QED
    BY <1>2, <1>4, <1>11, <2>4 DEF Abstract!Call
<1>12. QED
  BY <1>8, <1>9, <1>10, <1>11 DEF QueueReceive, taken

\* Either.
LEMMA QueueCallIsCall ==
    ASSUME SafeInv, RingsAgree, NEW q \in Queues, QueueCalled(q)
    PROVE  /\ RingAgrees(ring'[q], q) /\ \A p \in Queues : p # q => ring'[p] = ring[p]
           /\ \E c \in Tasks \ (WaitersOn(SendWaiters(q)) \cup WaitersOn(ReceiveWaiters(q))) :
                 Abstract(q)!Call(c)
<1>1. PICK timeout \in Timeouts : \/ QueueReceive(q, timeout)
                                  \/ \E message \in Messages : QueueSend(q, message, timeout)
  BY DEF QueueCalled
<1>2. timeout \in Ticks
  BY MiniRtosAssumption
<1>3. CASE QueueReceive(q, timeout)
  BY <1>2, <1>3, ReceiveIsCall
<1>4. CASE \E message \in Messages : QueueSend(q, message, timeout)
  BY <1>2, <1>4, SendIsCall
<1>5. QED
  BY <1>1, <1>3, <1>4

-------------------------------------------------------------------------------
(* The other steps, seen from a queue's channel *)

\* A call of a task is a request.
LEMMA CallIsRequest ==
    ASSUME NEW t \in Tasks, UserCall(t)
    PROVE  /\ CurrentRuns(kernel)
           /\ \E r \in Requests : Handle(r)
<1>1. CASE MutexCall
  <2>1. PICK m \in Mutexes : MutexUnlock(m) \/ \E ticks \in Timeouts : MutexLock(m, ticks)
    BY <1>1 DEF MutexCall
  <2>2. UNCHANGED objects
    BY <1>1 DEF MutexCall, objects
  <2>3. CASE MutexUnlock(m)
    <3> DEFINE r == Request("MUTEX_UNLOCK", m, 0, NoMessage)
    <3>1. r \in Requests
      BY DEF Requests
    <3>2. r.call = "MUTEX_UNLOCK" /\ r.object = m
      BY DEF Request
    <3> HIDE DEF r
    <3>3. Handle(r) /\ CurrentRuns(kernel)
      BY <2>2, <2>3, <3>2 DEF Handle, MutexUnlock
    <3>4. QED
      BY <3>1, <3>3
  <2>4. ASSUME NEW ticks \in Timeouts, MutexLock(m, ticks)
        PROVE  CurrentRuns(kernel) /\ \E r \in Requests : Handle(r)
    <3> DEFINE r == Request("MUTEX_LOCK", m, ticks, NoMessage)
    <3>1. r \in Requests
      BY DEF Requests
    <3>2. r.call = "MUTEX_LOCK" /\ r.object = m /\ r.ticks = ticks
      BY DEF Request
    <3> HIDE DEF r
    <3>3. Handle(r) /\ CurrentRuns(kernel)
      BY <2>2, <2>4, <3>2 DEF Handle, MutexLock
    <3>4. QED
      BY <3>1, <3>3
  <2>5. QED
    BY <2>1, <2>3, <2>4
<1>2. CASE SemCall
  <2>1. PICK s \in Semaphores : SemGive(s) \/ \E ticks \in Timeouts : SemTake(s, ticks)
    BY <1>2 DEF SemCall
  <2>2. UNCHANGED queueVars
    BY <1>2 DEF SemCall
  <2>3. CASE SemGive(s)
    <3> DEFINE r == Request("SEM_GIVE", s, 0, NoMessage)
    <3>1. r \in Requests
      BY DEF Requests
    <3>2. r.call = "SEM_GIVE" /\ r.object = s
      BY DEF Request
    <3> HIDE DEF r
    <3>3. Handle(r) /\ CurrentRuns(kernel)
      BY <2>2, <2>3, <3>2 DEF Handle, SemGive
    <3>4. QED
      BY <3>1, <3>3
  <2>4. ASSUME NEW ticks \in Timeouts, SemTake(s, ticks)
        PROVE  CurrentRuns(kernel) /\ \E r \in Requests : Handle(r)
    <3> DEFINE r == Request("SEM_TAKE", s, ticks, NoMessage)
    <3>1. r \in Requests
      BY DEF Requests
    <3>2. r.call = "SEM_TAKE" /\ r.object = s /\ r.ticks = ticks
      BY DEF Request
    <3> HIDE DEF r
    <3>3. Handle(r) /\ CurrentRuns(kernel)
      BY <2>2, <2>4, <3>2 DEF Handle, SemTake
    <3>4. QED
      BY <3>1, <3>3
  <2>5. QED
    BY <2>1, <2>3, <2>4
<1>3. CASE QueueCall
  <2>1. PICK q \in Queues, ticks \in Timeouts :
            QueueReceive(q, ticks) \/ \E message \in Messages : QueueSend(q, message, ticks)
    BY <1>3 DEF QueueCall
  <2>2. UNCHANGED semCount
    BY <1>3 DEF QueueCall
  <2>3. CASE QueueReceive(q, ticks)
    <3> DEFINE r == Request("QUEUE_RECEIVE", q, ticks, NoMessage)
    <3>1. r \in Requests
      BY DEF Requests
    <3>2. r.call = "QUEUE_RECEIVE" /\ r.object = q /\ r.ticks = ticks
      BY DEF Request
    <3> HIDE DEF r
    <3>3. Handle(r) /\ CurrentRuns(kernel)
      BY <2>2, <2>3, <3>2 DEF Handle, QueueReceive
    <3>4. QED
      BY <3>1, <3>3
  <2>4. ASSUME NEW message \in Messages, QueueSend(q, message, ticks)
        PROVE  CurrentRuns(kernel) /\ \E r \in Requests : Handle(r)
    <3> DEFINE r == Request("QUEUE_SEND", q, ticks, message)
    <3>1. r \in Requests
      BY DEF Requests
    <3>2. r.call = "QUEUE_SEND" /\ r.object = q /\ r.ticks = ticks /\ r.message = message
      BY DEF Request
    <3> HIDE DEF r
    <3>3. Handle(r) /\ CurrentRuns(kernel)
      BY <2>2, <2>4, <3>2 DEF Handle, QueueSend
    <3>4. QED
      BY <3>1, <3>3
  <2>5. QED
    BY <2>1, <2>3, <2>4
<1>4. QED
  BY <1>1, <1>2, <1>3 DEF UserCall

\* The tasks whose buffer and status are the channel's.
Minded(q) == IF SemCount + MutexCount + QueueCount > 1
             THEN WaitersOn(SendWaiters(q)) \cup WaitersOn(ReceiveWaiters(q)) ELSE Tasks

\* Who minds a queue among other objects waits for it, and one queue alone has every
\* waiting task.
LEMMA MindedWait ==
    ASSUME SafeInv, NEW q \in Queues, NEW u \in Minded(q)
    PROVE  /\ u \in Tasks
           /\ kernel.waitOn[u] \in ListsOf(q) <=>
                 u \in WaitersOn(SendWaiters(q)) \cup WaitersOn(ReceiveWaiters(q))
           /\ kernel.waitOn[u] \in ListsOf(q) <=> kernel.state[u] = "BLOCKED_OBJECT"
<1>1. Consistent(kernel, {}) /\ kernel \in GoodKernel
  BY DEF SafeInv, KernelInv, Sound, Consistent
<1>2. u \in Tasks
  BY DEF Minded, WaitersOn
<1>3. kernel.waitOn[u] \in ListsOf(q) <=>
          u \in WaitersOn(SendWaiters(q)) \cup WaitersOn(ReceiveWaiters(q))
  BY <1>2 DEF ListsOf, WaitersOn
<1>4. /\ kernel.waitOn[u] \in WaitLists \cup {NoWait} /\ NoWait \notin WaitLists
      /\ kernel.waitOn[u] # NoWait <=> kernel.state[u] = "BLOCKED_OBJECT"
  BY <1>1, <1>2, FieldTypes DEF Consistent, StatesAgree
<1>5. CASE SemCount + MutexCount + QueueCount > 1
  <2>1. kernel.waitOn[u] \in ListsOf(q) /\ ListsOf(q) \subseteq WaitLists
    BY <1>3, <1>5, ListsDiffer DEF Minded, ListsOf
  <2>2. QED
    BY <1>2, <1>3, <1>4, <2>1
<1>6. CASE ~(SemCount + MutexCount + QueueCount > 1)
  <2>1. WaitLists = ListsOf(q)
    <3>1. Semaphores = {} /\ Mutexes = {} /\ Queues = {q}
      BY <1>6, OsKernelAssumption DEF Semaphores, Mutexes, Queues
    <3>2. QED
      BY <3>1 DEF WaitLists, ListsOf
  <2>2. QED
    BY <1>2, <1>3, <1>4, <2>1
<1>7. QED
  BY <1>5, <1>6

\* A call of another queue writes its caller's buffer and that of a task that waits
\* to receive from it.
LEMMA OtherQueueBuffers ==
    ASSUME SafeInv, NEW p \in Queues, QueueCalled(p), NEW u \in Tasks, u # kernel.current,
           kernel.waitOn[u] # ReceiveWaiters(p)
    PROVE  buffer'[u] = buffer[u] /\ \A o \in Queues : o # p => ring'[o] = ring[o]
<1>1. PICK timeout \in Timeouts : \/ QueueReceive(p, timeout)
                                  \/ \E message \in Messages : QueueSend(p, message, timeout)
  BY DEF QueueCalled
<1>2. /\ buffer \in [Tasks -> Messages \cup {NoMessage}] /\ Consistent(kernel, {})
      /\ ring \in [Queues -> UNION {Ring(o) : o \in Queues}]
      /\ ReceiveWaiters(p) \in WaitLists
  BY ListsDiffer DEF SafeInv, TypeInv, QueueType, KernelInv, Sound
<1>3. CASE QueueReceive(p, timeout)
  BY <1>2, <1>3 DEF QueueReceive
<1>4. ASSUME NEW message \in Messages, QueueSend(p, message, timeout)
      PROVE  buffer'[u] = buffer[u] /\ \A o \in Queues : o # p => ring'[o] = ring[o]
  <2> DEFINE w == WaitHead(kernel, ReceiveWaiters(p))
  <2>1. ASSUME w # NoTask PROVE w # u
    <3>1. kernel.waitOn[w] = ReceiveWaiters(p)
      BY <1>2, <2>1, WaitPopExact
    <3>2. QED
      BY <3>1
  <2> HIDE DEF w
  <2>2. \/ w # NoTask /\ UNCHANGED ring
           /\ buffer' = [[buffer EXCEPT ![kernel.current] = message] EXCEPT ![w] = message]
        \/ ring' = [ring EXCEPT ![p] = Put(ring[p], p, message)]
           /\ buffer' = [buffer EXCEPT ![kernel.current] = message]
        \/ UNCHANGED ring /\ buffer' = [buffer EXCEPT ![kernel.current] = message]
    BY <1>4 DEF QueueSend, w
  <2>3. QED
    BY <1>2, <2>1, <2>2
<1>5. QED
  BY <1>1, <1>3, <1>4

\* A step that is no call of the queue leaves its ring and the buffers of its tasks
\* alone, and starts none of their waits.
LEMMA OtherStep ==
    ASSUME SafeInv, Next, NEW q \in Queues, ~QueueCalled(q)
    PROVE  /\ ring'[q] = ring[q]
           /\ \A u \in Minded(q) : buffer'[u] = buffer[u] /\ Calm(kernel, kernel', u)
<1> DEFINE Goal == /\ ring'[q] = ring[q]
                   /\ \A u \in Minded(q) : buffer'[u] = buffer[u] /\ Calm(kernel, kernel', u)
<1>1. /\ KernelInv(kernel) /\ Sound(kernel) /\ Consistent(kernel, {}) /\ kernel \in Kernel
      /\ Deadlines(kernel, kernel.tick + 1)
  BY DEF SafeInv, KernelInv, Sound, Consistent, GoodKernel
<1>2. \A u \in Minded(q) : u \in Tasks
  BY MindedWait
<1>3. (\A u \in Tasks : Calm(kernel, kernel', u)) /\ UNCHANGED <<ring, buffer>> => Goal
  BY <1>2
<1>4. ASSUME Start PROVE Goal
  <2> DEFINE j == [kernel EXCEPT !.started = TRUE]
  <2>1. kernel' = SwitchToHighest(j) /\ kernel.current = NoTask /\ UNCHANGED <<ring, buffer>>
    BY <1>1, <1>4 DEF Start, SchedStart, KernelInv
  <2>2. /\ j.state = kernel.state /\ j.result = kernel.result
        /\ j.delayed = kernel.delayed /\ j.overflow = kernel.overflow
        /\ j.waitOn = kernel.waitOn /\ j.current = kernel.current
        /\ j.ready = kernel.ready /\ j.waiters = kernel.waiters /\ j.effective = kernel.effective
    BY <1>1 DEF Kernel
  <2>3. j \in GoodKernel
    <3>1. kernel \in GoodKernel
      BY <1>1 DEF Consistent
    <3>2. QED
      BY <3>1 DEF GoodKernel, Kernel
  <2> HIDE DEF j
  <2>4. Consistent(j, {})
    BY <1>1, <2>2, <2>3, FreeChange
  <2>5. \A t \in Tasks : j.state[t] # "RUNNING"
    <3>1. NoTask \notin Tasks
      BY <2>3, FieldTypes
    <3>2. QED
      BY <2>1, <2>2, <2>4, <3>1 DEF Consistent, OneRuns
  <2>6. OnlySchedules(j, kernel')
    BY <2>1, <2>4, <2>5, SwitchToHighestSound
  <2>7. \A u \in Tasks : Calm(kernel, kernel', u)
    <3>1. \A u \in Tasks : Calm(j, kernel', u)
      BY <2>6, SchedulingIsCalm
    <3>2. QED
      BY <2>2, <3>1 DEF Calm, DelayLinked
  <2> HIDE DEF Goal
  <2>8. QED
    BY <1>3, <2>1, <2>7
<1>5. ASSUME Timer PROVE Goal
  <2>1. kernel' = TimeTick(kernel) /\ UNCHANGED <<ring, buffer>>
    BY <1>5 DEF Timer, Tick
  <2>2. \A u \in Tasks : Calm(kernel, kernel', u)
    BY <1>1, <2>1, TimeTickSound
  <2>3. QED
    BY <1>3, <2>1, <2>2
<1>6. ASSUME Interrupt PROVE Goal
  <2>1. PICK s \in Semaphores : SemGiveFromISR(s)
    BY <1>6 DEF Interrupt
  <2>2. UNCHANGED <<ring, buffer>>
    BY <1>6 DEF Interrupt, queueVars
  <2>3. \A u \in Tasks : Calm(kernel, kernel', u)
    BY <1>1, <2>1, InterruptCalm
  <2>4. QED
    BY <1>3, <2>2, <2>3
<1>7. ASSUME NEW t \in Tasks, Scheduling(t) PROVE Goal
  <2>1. UNCHANGED <<ring, buffer>>
    BY <1>7 DEF Scheduling
  <2>2. ASSUME TaskYield(t) PROVE \A u \in Tasks : Calm(kernel, kernel', u)
    BY <1>1, <2>2, SchedYieldCurrentSound, SchedulingIsCalm DEF TaskYield
  <2>3. ASSUME TaskExit(t) PROVE \A u \in Tasks : Calm(kernel, kernel', u)
    <3>1. CurrentRuns(kernel) /\ t = kernel.current /\ kernel' = SchedCurrentBlocked(
              [MutexReleaseTask(kernel, t) EXCEPT !.state[t] = "TERMINATED"])
      BY <2>3 DEF TaskExit
    <3>2. QED
      BY <1>1, <3>1, ExitSound
  <2>4. ASSUME NEW ticks \in Delays, TaskDelay(t, ticks)
        PROVE  \A u \in Tasks : Calm(kernel, kernel', u)
    <3>1. ticks \in Ticks
      BY MiniRtosAssumption
    <3>2. CASE ticks = 0
      BY <2>2, <2>4, <3>2 DEF TaskDelay
    <3>3. CASE ticks # 0
      <4>1. /\ CurrentRuns(kernel) /\ t = kernel.current
            /\ kernel' = SchedCurrentBlocked(
                   TimeDelayListInsert([kernel EXCEPT !.state[t] = "BLOCKED_DELAY"], t,
                                       (kernel.tick + Clamp(ticks)) % TickModulus))
        BY <2>4, <3>3 DEF TaskDelay
      <4>2. QED
        BY <1>1, <3>1, <3>3, <4>1, DelaySound
    <3>4. QED
      BY <3>2, <3>3
  <2>5. \A u \in Tasks : Calm(kernel, kernel', u)
    BY <1>7, <2>2, <2>3, <2>4 DEF Scheduling
  <2>6. QED
    BY <1>3, <2>1, <2>5
<1>8. ASSUME NEW t \in Tasks, UserCall(t) PROVE Goal
  <2>1. PICK r \in Requests : CurrentRuns(kernel) /\ Handle(r)
    BY <1>8, CallIsRequest
  <2>2. kernel.current \in Tasks /\ kernel.state[kernel.current] = "RUNNING"
    BY <1>1, <2>1, Caller
  <2>3. \A u \in Tasks : u # kernel.current => Calm(kernel, kernel', u)
    BY <1>1, <2>1, <2>2, RequestSpares DEF Spares
  <2>4. ASSUME NEW u \in Tasks, kernel.state[u] = "BLOCKED_OBJECT" PROVE u # kernel.current
    BY <2>2, <2>4
  <2>5. UNCHANGED <<ring, buffer>> \/ \E p \in Queues : p # q /\ QueueCalled(p)
    BY <1>8 DEF UserCall, MutexCall, SemCall, QueueCall, QueueCalled, queueVars
  <2>6. SemCount + MutexCount + QueueCount > 1
    <3>1. \/ Mutexes # {} \/ Semaphores # {} \/ \E p \in Queues : p # q
      BY <1>8 DEF UserCall, MutexCall, SemCall, QueueCall, QueueCalled
    <3>2. QED
      BY <3>1, OsKernelAssumption DEF Semaphores, Mutexes, Queues
  <2>7. ASSUME NEW u \in Minded(q)
        PROVE  /\ kernel.waitOn[u] \in ListsOf(q) /\ u \in Tasks /\ u # kernel.current
    <3>1. u \in WaitersOn(SendWaiters(q)) \cup WaitersOn(ReceiveWaiters(q))
      BY <2>6 DEF Minded
    <3>2. QED
      BY <2>4, <3>1, MindedWait
  <2>8. CASE UNCHANGED <<ring, buffer>>
    BY <2>3, <2>7, <2>8
  <2>9. ASSUME NEW p \in Queues, p # q, QueueCalled(p) PROVE Goal
    <3>1. ring'[q] = ring[q]
      <4>1. PICK timeout \in Timeouts : \/ QueueReceive(p, timeout)
                                        \/ \E message \in Messages : QueueSend(p, message, timeout)
        BY <2>9 DEF QueueCalled
      <4>2. ring \in [Queues -> UNION {Ring(o) : o \in Queues}]
        BY DEF SafeInv, TypeInv, QueueType
      <4>3. QED
        BY <2>9, <4>1, <4>2 DEF QueueReceive, QueueSend
    <3>2. ASSUME NEW u \in Minded(q) PROVE buffer'[u] = buffer[u] /\ Calm(kernel, kernel', u)
      <4>1. kernel.waitOn[u] # ReceiveWaiters(p) /\ u \in Tasks /\ u # kernel.current
        BY <2>7, <2>9, ListsDiffer DEF ListsOf
      <4>2. buffer'[u] = buffer[u]
        BY <2>9, <4>1, OtherQueueBuffers
      <4>3. QED
        BY <2>3, <4>1, <4>2
    <3>3. QED
      BY <3>1, <3>2
  <2>10. QED
    BY <2>5, <2>8, <2>9
<1>9. QED
  BY <1>4, <1>5, <1>6, <1>7, <1>8 DEF Next

\* Such a step ends the waits of some of the queue's tasks, or is none of the channel's
\* matter.
LEMMA OtherStepIsAbstract ==
    ASSUME SafeInv, Next, NEW q \in Queues, ~QueueCalled(q)
    PROVE  Abstract(q)!Elsewhere \/ \E S \in SUBSET Tasks : Abstract(q)!Expire(S)
<1> DEFINE off == WaitersOn(SendWaiters(q))
           wnt == WaitersOn(ReceiveWaiters(q))
           L == ListsOf(q)
           S == {u \in off \cup wnt : kernel'.waitOn[u] = NoWait}
           Ours == Abstract(q)!Ours
<1>1. PICK lists, granted : Stepped(lists, granted) /\ L \cap (lists \cup granted) = {}
  BY EveryStep
<1>2. PICK joined \in SUBSET lists : Fates(kernel, kernel', joined, granted)
  BY <1>1 DEF Stepped, Handled
<1>3. /\ Consistent(kernel, {}) /\ kernel \in GoodKernel
      /\ L \subseteq WaitLists /\ NoWait \notin WaitLists
      /\ SendWaiters(q) # ReceiveWaiters(q)
  BY ListsDiffer, FieldTypes DEF SafeInv, KernelInv, Sound, Consistent, ListsOf
<1>4. /\ ring'[q] = ring[q]
      /\ \A u \in Minded(q) : buffer'[u] = buffer[u] /\ Calm(kernel, kernel', u)
  BY OtherStep
<1>5. Ours = Minded(q)
  BY DEF Abstract!Ours, Minded
<1>6. QueueSnapshot(q)' = QueueSnapshot(q)
  BY <1>4, SnapshotOfRing
<1>7. ASSUME NEW u \in Tasks
      PROVE  /\ kernel.waitOn[u] \in L =>
                   kernel'.waitOn[u] = kernel.waitOn[u] \/ kernel'.waitOn[u] = NoWait
             /\ kernel'.waitOn[u] \in L => kernel.waitOn[u] = kernel'.waitOn[u]
             /\ kernel.waitOn[u] \in L /\ kernel'.waitOn[u] = NoWait => kernel'.result[u] = "TIMEOUT"
             /\ kernel.waitOn[u] \in L /\ kernel'.waitOn[u] # NoWait =>
                   kernel'.state[u] = "BLOCKED_OBJECT"
  <2>1. kernel.waitOn[u] \in L => kernel.state[u] = "BLOCKED_OBJECT"
    BY <1>3 DEF Consistent, StatesAgree
  <2>2. CASE Kept(kernel, kernel', u)
    BY <1>3, <2>1, <2>2 DEF Kept
  <2>3. CASE TimedOut(kernel, kernel', u)
    BY <1>3, <2>1, <2>3 DEF TimedOut
  <2>4. CASE \E l \in granted : Ended(kernel, kernel', u, l, "OK")
    BY <1>1, <1>3, <2>4 DEF Ended
  <2>5. CASE Leaves(kernel, kernel', u) /\ kernel'.waitOn[u] \in {kernel.waitOn[u]} \cup joined
    BY <1>1, <1>2, <1>3, <2>1, <2>5 DEF Leaves
  <2>6. QED
    BY <1>2, <2>2, <2>3, <2>4, <2>5 DEF Fates
<1>8. off' = off \ S /\ wnt' = wnt \ S
  BY <1>3, <1>7 DEF WaitersOn, ListsOf
<1>9. \A u \in S : u \in Tasks /\ kernel'.result[u] = "TIMEOUT"
  BY <1>7 DEF WaitersOn, ListsOf
<1>10. ASSUME NEW u \in Minded(q), u \notin S PROVE kernel'.result[u] = kernel.result[u]
  <2>1. /\ u \in Tasks /\ Calm(kernel, kernel', u)
        /\ kernel.waitOn[u] \in L <=> u \in off \cup wnt
        /\ kernel.waitOn[u] \in L <=> kernel.state[u] = "BLOCKED_OBJECT"
    BY <1>4, MindedWait
  <2>2. CASE u \in off \cup wnt
    <3>1. kernel.state[u] = "BLOCKED_OBJECT" /\ kernel'.state[u] = "BLOCKED_OBJECT"
      BY <1>7, <1>10, <2>1, <2>2
    <3>2. QED
      BY <2>1, <3>1 DEF Calm
  <2>3. CASE u \notin off \cup wnt
    <3>1. kernel.state[u] # "BLOCKED_OBJECT"
      BY <2>1, <2>3
    <3>2. QED
      BY <2>1, <3>1 DEF Calm
  <2>4. QED
    BY <2>2, <2>3
<1>11. \A u \in Ours \ S : buffer'[u] = buffer[u] /\ kernel'.result[u] = kernel.result[u]
  BY <1>4, <1>5, <1>10
<1>12. \A u \in S : u \in Minded(q) /\ buffer'[u] = buffer[u]
  BY <1>4 DEF Minded, WaitersOn
<1>13. S \subseteq off \cup wnt
  OBVIOUS
<1> HIDE DEF S, off, wnt, Ours
<1>14. CASE S = {}
  <2>1. off' = off /\ wnt' = wnt
    BY <1>8, <1>14
  <2>2. Abstract(q)!Undisturbed(Ours)
    BY <1>11, <1>14 DEF Abstract!Undisturbed
  <2>3. Abstract(q)!Elsewhere
    BY <1>6, <2>1, <2>2 DEF Abstract!Elsewhere, off, wnt, Ours
  <2>4. QED
    BY <2>3
<1>15. CASE S # {}
  <2>1. Abstract(q)!Undisturbed(Ours \ S)
    BY <1>11 DEF Abstract!Undisturbed
  <2>2. \A c \in S : buffer'[c] = buffer[c] /\ kernel'.result[c] = "TIMEOUT"
    BY <1>9, <1>12
  <2>3. Abstract(q)!Expire(S)
    BY <1>6, <1>8, <1>13, <1>15, <2>1, <2>2 DEF Abstract!Expire, off, wnt, Ours
  <2>4. S \in SUBSET Tasks
    BY <1>9
  <2>5. QED
    BY <2>3, <2>4
<1>16. QED
  BY <1>14, <1>15

\* No message was sent yet.
LEMMA InitRings ==
    ASSUME Init
    PROVE  RingsAgree /\ \A p \in Queues : ring[p] \in Ring(p) /\ ring[p].count = 0
<1>1. \A p \in Queues : ring[p] = EmptyRing(p) /\ ring[p] \in Ring(p) /\ Capacity[p] \in Nat \ {0}
  BY OsQueueAssumption, InitSafe DEF Init, SafeInv, TypeInv, QueueType
<1>2. ASSUME NEW p \in Queues PROVE RingAgrees(ring[p], p) /\ ring[p].count = 0
  <2>1. ring[p].head = 0 /\ ring[p].tail = 0 /\ ring[p].count = 0
    <3>1. ring[p] = EmptyRing(p)
      BY <1>1
    <3>2. QED
      BY <3>1 DEF EmptyRing
  <2>2. (0 + 0) % Capacity[p] = 0
    BY <1>1
  <2>3. QED
    BY <2>1, <2>2 DEF RingAgrees
<1>3. QED
  BY <1>1, <1>2 DEF RingsAgree

\* And nobody waits.
LEMMA InitIsAbstract ==
    ASSUME Init, NEW q \in Queues
    PROVE  Abstract(q)!Init
<1>1. QueueSnapshot(q) = <<>>
  <2>1. ring[q] \in Ring(q) /\ ring[q].count = 0
    BY InitRings
  <2>2. Len(Snapshot(ring[q], q)) = 0 /\ Snapshot(ring[q], q) \in Seq(Messages \cup {NoMessage})
    BY <2>1, RingFields
  <2>3. QED
    BY <2>2, SnapshotOfRing
<1>2. /\ kernel.waitOn = [t \in Tasks |-> NoWait] /\ kernel.result = [t \in Tasks |-> "BAD_STATE"]
      /\ buffer = [t \in Tasks |-> NoMessage]
  BY CreatedFilled DEF Init, Filled
<1>3. WaitersOn(SendWaiters(q)) = {} /\ WaitersOn(ReceiveWaiters(q)) = {}
  <2>1. SendWaiters(q) # NoWait /\ ReceiveWaiters(q) # NoWait
    <3>1. kernel \in GoodKernel
      BY InitSafe DEF SafeInv, TypeInv
    <3>2. NoWait \notin WaitLists
      BY <3>1, FieldTypes
    <3>3. QED
      BY <3>2, ListsDiffer
  <2>2. QED
    BY <1>2, <2>1 DEF WaitersOn
<1>4. QED
  BY <1>1, <1>2, <1>3 DEF Abstract!Init

\* Every step maps to a step of the channel, and every ring stays in order.
LEMMA StepIsAbstract ==
    ASSUME SafeInv, RingsAgree, [Next]_vars, NEW q \in Queues
    PROVE  RingsAgree' /\ [Abstract(q)!Next]_(Abstract(q)!channelVars)
<1>1. CASE UNCHANGED vars
  <2>1. UNCHANGED <<kernel, ring, buffer>>
    BY <1>1 DEF vars
  <2>2. RingsAgree'
    BY <2>1 DEF RingsAgree
  <2>3. QueueSnapshot(q)' = QueueSnapshot(q)
    BY <2>1, SnapshotOfRing
  <2>4. /\ WaitersOn(SendWaiters(q))' = WaitersOn(SendWaiters(q))
        /\ WaitersOn(ReceiveWaiters(q))' = WaitersOn(ReceiveWaiters(q))
    BY <2>1 DEF WaitersOn
  <2>5. QED
    BY <2>1, <2>2, <2>3, <2>4 DEF Abstract!channelVars
<1>2. CASE Next
  <2>1. ASSUME NEW p \in Queues PROVE RingAgrees(ring'[p], p)
    <3>1. CASE QueueCalled(p)
      BY <3>1, QueueCallIsCall
    <3>2. CASE ~QueueCalled(p)
      BY <1>2, <3>2, OtherStep DEF RingsAgree
    <3>3. QED
      BY <3>1, <3>2
  <2>2. RingsAgree'
    BY <2>1 DEF RingsAgree
  <2>3. Abstract(q)!Next
    <3>1. CASE QueueCalled(q)
      BY <3>1, QueueCallIsCall DEF Abstract!Next
    <3>2. CASE ~QueueCalled(q)
      BY <1>2, <3>2, OtherStepIsAbstract DEF Abstract!Next
    <3>3. QED
      BY <3>1, <3>2
  <2>4. QED
    BY <2>2, <2>3
<1>3. QED
  BY <1>1, <1>2


\* The invariant the refinement rests on.
LEMMA AlwaysInOrder == Spec => [](SafeInv /\ RingsAgree)
<1>1. Init => SafeInv /\ RingsAgree
  BY InitSafe, InitRings
<1>2. SafeInv /\ RingsAgree /\ [Next]_vars => SafeInv' /\ RingsAgree'
  <2>1. CASE Queues = {}
    BY <2>1, StepSafe DEF RingsAgree
  <2>2. CASE Queues # {}
    BY <2>2, StepSafe, StepIsAbstract
  <2>3. QED
    BY <2>1, <2>2
<1>3. QED
  BY <1>1, <1>2, PTL DEF Spec

\* Every queue, beside any number of other queues, semaphores and mutexes, hands on
\* each message once and in order, and tells its callers what became of theirs,
\* whatever blocks, times out, ends or is preempted.
THEOREM QueuesAreChannels ==
    ASSUME NEW q \in Queues
    PROVE  Spec => Abstract(q)!Spec
<1>1. Init => Abstract(q)!Init
  BY InitIsAbstract
<1>2. SafeInv /\ RingsAgree /\ [Next]_vars => [Abstract(q)!Next]_(Abstract(q)!channelVars)
  BY StepIsAbstract
<1>3. QED
  BY <1>1, <1>2, AlwaysInOrder, PTL DEF Spec, Abstract!Spec

\* os_QueueSendCurrent and os_QueueReceiveCurrent implement a channel: the same of
\* the queue that the run checks.
THEOREM QueueImplementsChannel ==
    ASSUME QueueCount > 0
    PROVE  Spec => QueueIsChannel
<1>1. 0 \in Queues
  BY OsKernelAssumption DEF Queues
<1>2. Spec => Abstract(0)!Spec
  BY <1>1, QueuesAreChannels
<1>3. QED
  BY <1>2, PTL DEF QueueIsChannel, Abstract!Spec
===============================================================================
