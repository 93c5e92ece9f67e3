---------------------------- MODULE LifecycleProofs ----------------------------
(***************************************************************************)
(* The Idle task, the one run of a session, the objects a run begins with  *)
(* and the handles that lead to them, for pools of any size and any number *)
(* of sessions.                                                            *)
(***************************************************************************)
EXTENDS Lifecycle, SequenceTheorems, WellFoundedInduction, TLAPS

\* What os_Start looks at: there is a task of the Idle priority exactly when the
\* pointer to it says so, and a session that had its run stays started.
StartInv ==
    /\ initialized \in BOOLEAN /\ started \in BOOLEAN
    /\ session \in Nat /\ lastRun \in Nat /\ lastRun <= session
    /\ tasks \in Seq(Priorities)
    /\ idle \in {NoTask} \cup 0 .. Len(tasks) - 1
    /\ OneIdle
    /\ idle # NoTask => initialized
    /\ initialized /\ lastRun = session => started

\* The Idle priority is one, so that a task of it can be appended.
LEMMA IdleIsPriority == IdlePriority \in Priorities
  BY LifecycleAssumption DEF IdlePriority, Priorities

\* An application's task goes behind the others and is not the Idle task.
LEMMA AddApplicationTask ==
    ASSUME StartInv, NEW priority \in Priorities, priority # IdlePriority, RoomForTask,
           AddTask(priority), UNCHANGED <<stage, idle>>
    PROVE  StartInv'
<1>1. tasks' = Append(tasks, priority)
  BY DEF AddTask
<1>2. /\ tasks' \in Seq(Priorities) /\ Len(tasks') = Len(tasks) + 1
      /\ \A i \in 1 .. Len(tasks) : tasks'[i] = tasks[i]
      /\ tasks'[Len(tasks) + 1] = priority
  BY <1>1 DEF StartInv
<1>3. OneIdle'
  BY <1>2, LifecycleAssumption DEF StartInv, OneIdle, RoomForTask, stage, NoTask
<1>4. QED
  BY <1>2, <1>3 DEF StartInv, stage

\* The Idle task is appended when there is none.
LEMMA AddIdleTask ==
    ASSUME StartInv, IdleMissing, RoomForTask, initialized,
           tasks' = Append(tasks, IdlePriority), idle' = Len(tasks),
           UNCHANGED <<initialized, session>>, started' \in BOOLEAN,
           lastRun' \in {lastRun, session}, lastRun' = session => started'
    PROVE  StartInv'
<1>1. /\ tasks' \in Seq(Priorities) /\ Len(tasks') = Len(tasks) + 1
      /\ \A i \in 1 .. Len(tasks) : tasks'[i] = tasks[i]
      /\ tasks'[Len(tasks) + 1] = IdlePriority
  BY IdleIsPriority DEF StartInv
<1>2. Len(tasks) \in Nat /\ idle' # NoTask
  BY DEF StartInv, NoTask
<1>3. OneIdle'
  BY <1>1, <1>2, LifecycleAssumption DEF StartInv, OneIdle, RoomForTask, IdleMissing, NoTask
<1>4. QED
  BY <1>1, <1>2, <1>3 DEF StartInv

\* A call that leaves the tasks and the state of the kernel alone.
LEMMA OtherCall ==
    ASSUME StartInv, UNCHANGED <<stage, tasks, idle>>
    PROVE  StartInv'
  BY DEF StartInv, OneIdle, stage

\* A new session has no tasks and has not run.
LEMMA InitCall ==
    ASSUME StartInv, OsInit
    PROVE  StartInv'
<1>1. OneIdle'
  BY LifecycleAssumption DEF OsInit, OneIdle, StartInv
<1>2. tasks' \in Seq(Priorities) /\ idle' = NoTask
  BY DEF OsInit
<1>3. session' \in Nat /\ lastRun' \in Nat /\ lastRun' < session'
  BY DEF OsInit, StartInv
<1>4. /\ initialized' /\ initialized' \in BOOLEAN
      /\ ~started' /\ started' \in BOOLEAN
  BY DEF OsInit
<1>5. QED
  BY <1>1, <1>2, <1>3, <1>4 DEF StartInv

\* A creation call changes the tasks only when it may.
LEMMA CreateTaskCall ==
    ASSUME StartInv, NEW priority \in Priorities \cup {PriorityCount},
           NEW sound \in BOOLEAN, NEW stack \in BOOLEAN, CreateTask(priority, sound, stack)
    PROVE  StartInv'
<1>1. CASE TaskStatus(priority, FALSE, sound, stack) = "OK"
  <2>1. RoomForTask /\ priority < PriorityCount /\ priority > IdlePriority
    BY <1>1, LifecycleAssumption DEF TaskStatus, CreationStatus
  <2>2. priority \in Priorities /\ priority # IdlePriority
    BY <2>1, LifecycleAssumption DEF Priorities, IdlePriority
  <2>3. AddTask(priority) /\ UNCHANGED <<stage, idle>>
    BY <1>1 DEF CreateTask
  <2>4. QED
    BY <2>1, <2>2, <2>3, AddApplicationTask
<1>2. CASE TaskStatus(priority, FALSE, sound, stack) # "OK"
  BY <1>2, OtherCall DEF CreateTask
<1>3. QED
  BY <1>1, <1>2

\* A start that gets past os_EnsureIdleTask has a pool with the Idle task in it or
\* with room for it, of an initialized kernel.
LEMMA IdleStatusOK ==
    ASSUME StartInv, IdleStatus = "OK"
    PROVE  initialized /\ (IdleMissing => RoomForTask)
  BY LifecycleAssumption DEF IdleStatus, TaskStatus, CreationStatus, IdleMissing, StartInv

\* A start whose port fails leaves at most the Idle task.
LEMMA StartFailsCall ==
    ASSUME StartInv, StartFails
    PROVE  StartInv'
<1>1. initialized /\ (IdleMissing => RoomForTask)
  BY IdleStatusOK DEF StartFails
<1>2. UNCHANGED <<initialized, started, session, lastRun, run>>
  BY DEF StartFails, stage
<1>3. CASE IdleMissing
  <2>1. tasks' = Append(tasks, IdlePriority) /\ idle' = Len(tasks)
    BY <1>3 DEF StartFails, EnsureIdle, AddTask
  <2>2. started' \in BOOLEAN /\ lastRun' \in {lastRun, session} /\ (lastRun' = session => started')
    BY <1>1, <1>2 DEF StartInv
  <2>3. QED
    BY <1>1, <1>2, <1>3, <2>1, <2>2, AddIdleTask
<1>4. CASE ~IdleMissing
  BY <1>4, OtherCall DEF StartFails, EnsureIdle
<1>5. QED
  BY <1>3, <1>4

\* The run begins; the session has had it.
LEMMA StartRunsCall ==
    ASSUME StartInv, StartRuns
    PROVE  /\ StartInv'
           /\ initialized /\ session # lastRun
<1>1. initialized /\ (IdleMissing => RoomForTask)
  BY IdleStatusOK DEF StartRuns
<1>2. /\ ~started /\ started' = TRUE /\ lastRun' = session
      /\ UNCHANGED <<initialized, session>>
  BY DEF StartRuns
<1>3. session # lastRun
  BY <1>1, <1>2 DEF StartInv
<1>4. CASE IdleMissing
  <2>1. tasks' = Append(tasks, IdlePriority) /\ idle' = Len(tasks)
    BY <1>4 DEF StartRuns
  <2>2. started' \in BOOLEAN /\ lastRun' \in {lastRun, session} /\ (lastRun' = session => started')
    BY <1>2
  <2>3. StartInv'
    BY <1>1, <1>2, <1>4, <2>1, <2>2, AddIdleTask
  <2>4. QED
    BY <1>1, <1>3, <2>3
<1>5. CASE ~IdleMissing
  <2>1. UNCHANGED <<tasks, idle>>
    BY <1>5 DEF StartRuns
  <2>2. OneIdle'
    BY <1>5, <2>1 DEF StartInv, OneIdle, IdleMissing
  <2>3. StartInv'
    BY <1>2, <2>1, <2>2 DEF StartInv
  <2>4. QED
    BY <1>1, <1>3, <2>3
<1>6. QED
  BY <1>4, <1>5

\* The session stays started after its run (StartedAfterRun).
LEMMA RunEndsCall ==
    ASSUME StartInv, RunEnds
    PROVE  StartInv'
  BY DEF StartInv, OneIdle, RunEnds, StartedAfterRun

\* Before the first os_Init.
LEMMA StartInvInit == LifeInit => StartInv
<1>1. SUFFICES ASSUME LifeInit PROVE StartInv
  OBVIOUS
<1>2. OneIdle
  BY <1>1, LifecycleAssumption DEF LifeInit, OneIdle
<1>3. tasks \in Seq(Priorities) /\ idle = NoTask /\ session = 0 /\ lastRun = 0
  BY <1>1 DEF LifeInit
<1>4. /\ ~initialized /\ initialized \in BOOLEAN
      /\ ~started /\ started \in BOOLEAN
  BY <1>1 DEF LifeInit
<1>5. QED
  BY <1>2, <1>3, <1>4 DEF StartInv

\* One case for each call of the application and the end of a run.
LEMMA StartInvStep == StartInv /\ [LifeNext]_lifeVars => StartInv'
<1>1. SUFFICES ASSUME StartInv, [LifeNext]_lifeVars PROVE StartInv'
  OBVIOUS
<1>2. CASE OsInit
  BY <1>1, <1>2, InitCall
<1>3. CASE \E p \in Priorities \cup {PriorityCount}, sound, stack \in BOOLEAN : CreateTask(p, sound, stack)
  BY <1>1, <1>3, CreateTaskCall
<1>4. CASE \E maximum, initial \in Counts : CreateSemaphore(maximum, initial)
  BY <1>1, <1>4, OtherCall DEF CreateSemaphore, taskVars
<1>5. CASE \E length, itemSize \in Sizes, given \in BOOLEAN : CreateQueue(length, itemSize, given)
  BY <1>1, <1>5, OtherCall DEF CreateQueue, taskVars
<1>6. CASE CreateMutex
  BY <1>1, <1>6, OtherCall DEF CreateMutex, taskVars
<1>7. CASE Operate
  BY <1>1, <1>7, OtherCall DEF Operate, taskVars
<1>8. CASE \E h \in handles : GiveFromISR(h)
  BY <1>1, <1>8, OtherCall DEF GiveFromISR, taskVars
<1>9. CASE StartRefused
  BY <1>1, <1>9, OtherCall DEF StartRefused, taskVars
<1>10. CASE StartFails
  BY <1>1, <1>10, StartFailsCall
<1>11. CASE StartRuns
  BY <1>1, <1>11, StartRunsCall
<1>12. CASE RunEnds
  BY <1>1, <1>12, RunEndsCall
<1>13. CASE UNCHANGED lifeVars
  BY <1>1, <1>13, OtherCall DEF lifeVars, taskVars
<1>14. QED
  BY <1>1, <1>2, <1>3, <1>4, <1>5, <1>6, <1>7, <1>8, <1>9, <1>10, <1>11, <1>12, <1>13 DEF LifeNext

\* So it holds in every state.
LEMMA StartInvHolds == LifeSpec => []StartInv
  BY StartInvInit, StartInvStep, PTL DEF LifeSpec

\* However often os_Start is refused, fails or is called again, the pool holds at most
\* one task of the Idle priority, the remembered one, and a run has it.
THEOREM IdleIsUnique == LifeSpec => []OneIdle
<1>1. StartInv => OneIdle
  BY DEF StartInv
<1>2. QED
  BY <1>1, StartInvHolds, PTL

\* No session runs twice: only StartRuns sets `run', on a kernel that os_Init made
\* and that no run has used.
THEOREM OneRunPerSession == LifeSpec => RunNeedsInit
<1>1. ASSUME StartInv, LifeNext, run # "running", run' = "running"
      PROVE  initialized /\ session # lastRun
  <2>1. StartRuns
    BY <1>1 DEF LifeNext, OsInit, CreateTask, CreateSemaphore, CreateQueue, CreateMutex, Operate,
                GiveFromISR, StartRefused, StartFails, RunEnds, stage
  <2>2. QED
    BY <1>1, <2>1, StartRunsCall
<1>2. StartInv /\ [LifeNext]_lifeVars =>
        [run # "running" /\ run' = "running" => initialized /\ session # lastRun]_lifeVars
  BY <1>1
<1>3. QED
  BY <1>2, StartInvHolds, PTL DEF LifeSpec, RunNeedsInit


-------------------------------------------------------------------------------
(* What a run begins with, and what handles lead to *)

\* A non-empty set of natural numbers has a minimum.
LEMMA MinimumOfNaturals ==
    ASSUME NEW S, S \subseteq Nat, S # {}
    PROVE  Min(S) \in S /\ \A y \in S : Min(S) <= y
<1>1. \E x \in S : \A y \in S : x <= y
  <2>1. PICK x \in S : \A y \in S : <<y, x>> \notin OpToRel(<, Nat)
    BY NatLessThanWellFounded, WFMin
  <2>2. ASSUME NEW y \in S PROVE x <= y
    <3>1. x \in Nat /\ y \in Nat
      OBVIOUS
    <3>2. ~(y < x)
      BY <2>1, <3>1 DEF OpToRel
    <3> QED
      BY <3>1, <3>2
  <2> QED
    BY <2>2
<1> QED
  BY <1>1 DEF Min

\* A product that a division bounds.
LEMMA ProductFits ==
    ASSUME NEW n \in Nat, NEW b \in Nat, b # 0, NEW a \in Nat, a <= n \div b
    PROVE  b * a <= n
<1> DEFINE d == n \div b
<1>1. d \in Nat /\ b * d <= n
  <2>1. n = b * (n \div b) + (n % b) /\ 0 <= n % b /\ n \div b \in Int
    OBVIOUS
  <2>2. QED
    BY <2>1
<1> HIDE DEF d
<1>2. PICK c \in Nat : d = a + c
  <2>1. d - a \in Nat /\ d = a + (d - a)
    BY <1>1 DEF d
  <2>2. QED
    BY <2>1
<1>3. b * d = b * a + b * c
  BY <1>1, <1>2
<1>4. b * c \in Nat /\ b * a \in Nat
  OBVIOUS
<1>5. QED
  BY <1>1, <1>3, <1>4

SemaphoreSlots == [used : BOOLEAN, count : Nat, maximum : Nat, left : BOOLEAN]
QueueSlots == [used : BOOLEAN, capacity : Nat, itemSize : Nat]
MutexSlots == [used : BOOLEAN]

PoolTypes ==
    /\ semaphores \in [0 .. MaxSemaphores - 1 -> SemaphoreSlots]
    /\ queues \in [0 .. MaxQueues - 1 -> QueueSlots]
    /\ mutexes \in [0 .. MaxMutexes - 1 -> MutexSlots]

\* The objects are what their creation checked, also through a run; the run may leave
\* tasks behind, and from then on the kernel counts as started.
SemaphoresSound ==
    \A i \in DOMAIN semaphores : LET s == semaphores[i] IN
        /\ s.used => s.maximum > 0 /\ s.count \in 0 .. s.maximum
        /\ s.used /\ s.left => started
QueuesSound ==
    \A i \in DOMAIN queues : LET q == queues[i] IN
        q.used => q.capacity > 0 /\ q.itemSize > 0 /\ q.capacity * q.itemSize <= SizeMax

\* Until the start, each ready queue holds the tasks of its priority, oldest first.
Queued(q, p) ==
    /\ q \in Seq(Nat)
    /\ ToSet(q) = {i \in 0 .. Len(tasks) - 1 : tasks[i + 1] = p}
    /\ \A a, b \in DOMAIN q : a < b => q[a] < q[b]
ReadyInOrder ==
    /\ DOMAIN ready = Priorities
    /\ initialized /\ ~started => \A p \in Priorities : Queued(ready[p], p)

\* A handle names a slot of its pool; one of this session is the only one for its slot
\* and its object is there; and every semaphore has such a handle.
Kinds == {"semaphore", "queue", "mutex"}
PoolOf(kind) == CASE kind = "semaphore" -> semaphores
                  [] kind = "queue" -> queues
                  [] OTHER -> mutexes
FixedPart(kind, object) ==
    IF kind = "semaphore" THEN <<object.used, object.maximum>> ELSE object
HandlesNamed ==
    \A h \in handles :
        /\ h.kind \in Kinds /\ h.slot \in DOMAIN PoolOf(h.kind)
        /\ h.session \in Nat /\ h.session <= session
HandlesLead ==
    \A h \in handles : h.session = session =>
        /\ h.object.used
        /\ FixedPart(h.kind, PoolOf(h.kind)[h.slot]) = FixedPart(h.kind, h.object)
HandlesDiffer ==
    \A g, h \in handles :
        g.session = session /\ h.session = session /\ g.kind = h.kind /\ g.slot = h.slot => g = h
SemaphoresHandled ==
    \A i \in DOMAIN semaphores : semaphores[i].used =>
        \E g \in handles : g.session = session /\ g.kind = "semaphore" /\ g.slot = i

HandleInv == HandlesNamed /\ HandlesLead /\ HandlesDiffer /\ SemaphoresHandled
ObjectInv == PoolTypes /\ SemaphoresSound /\ QueuesSound
LifeInv == StartInv /\ ReadyInOrder /\ ObjectInv /\ HandleInv

\* A call that leaves the objects alone.
LEMMA ObjectsStay ==
    ASSUME ObjectInv, HandleInv, UNCHANGED <<pools, handles, session>>, started => started'
    PROVE  ObjectInv' /\ HandleInv'
<1>1. UNCHANGED <<semaphores, queues, mutexes, handles, session>>
  BY DEF pools
<1>2. ObjectInv'
  BY <1>1 DEF ObjectInv, PoolTypes, SemaphoresSound, QueuesSound
<1>3. HandleInv'
  BY <1>1 DEF HandleInv, HandlesNamed, HandlesLead, HandlesDiffer, SemaphoresHandled, PoolOf, FixedPart
<1>4. QED
  BY <1>2, <1>3

\* A new task queues last.
LEMMA TaskQueues ==
    ASSUME StartInv, ReadyInOrder, NEW priority \in Priorities, AddTask(priority),
           initialized, ~started
    PROVE  /\ DOMAIN ready' = Priorities
           /\ \A p \in Priorities : Queued(ready[p], p)'
<1>1. /\ tasks' = Append(tasks, priority)
      /\ ready' = [ready EXCEPT ![priority] = Append(@, Len(tasks))]
  BY DEF AddTask
<1>2. tasks \in Seq(Priorities) /\ Len(tasks) \in Nat
  BY DEF StartInv
<1>3. /\ Len(tasks') = Len(tasks) + 1
      /\ \A i \in 0 .. Len(tasks) - 1 : tasks'[i + 1] = tasks[i + 1]
      /\ tasks'[Len(tasks) + 1] = priority
  BY <1>1, <1>2
<1>4. DOMAIN ready' = Priorities
  BY <1>1 DEF ReadyInOrder
<1>5. ASSUME NEW p \in Priorities
      PROVE  Queued(ready[p], p)'
  <2> DEFINE q == ready[p]
  <2>1. q \in Seq(Nat) /\ ToSet(q) = {i \in 0 .. Len(tasks) - 1 : tasks[i + 1] = p}
        /\ \A a, b \in DOMAIN q : a < b => q[a] < q[b]
    BY DEF ReadyInOrder, Queued
  <2>2. CASE p # priority
    <3>1. ready'[p] = q
      BY <1>1, <2>2 DEF ReadyInOrder
    <3>2. {i \in 0 .. Len(tasks') - 1 : tasks'[i + 1] = p} = {i \in 0 .. Len(tasks) - 1 : tasks[i + 1] = p}
      BY <1>2, <1>3, <2>2
    <3> HIDE DEF q
    <3>3. QED
      BY <2>1, <3>1, <3>2 DEF Queued
  <2>3. CASE p = priority
    <3> DEFINE r == Append(q, Len(tasks))
    <3>1. ready'[p] = r
      BY <1>1, <2>3 DEF ReadyInOrder
    <3> HIDE DEF q
    <3>2. /\ r \in Seq(Nat) /\ Len(r) = Len(q) + 1 /\ r[Len(q) + 1] = Len(tasks)
          /\ \A a \in 1 .. Len(q) : r[a] = q[a]
          /\ Len(q) \in Nat /\ DOMAIN r = 1 .. Len(q) + 1 /\ DOMAIN q = 1 .. Len(q)
      BY <1>2, <2>1
    <3> HIDE DEF r
    <3>3. ToSet(r) = ToSet(q) \cup {Len(tasks)}
      BY <3>2 DEF ToSet
    <3>4. {i \in 0 .. Len(tasks') - 1 : tasks'[i + 1] = p}
            = {i \in 0 .. Len(tasks) - 1 : tasks[i + 1] = p} \cup {Len(tasks)}
      BY <1>2, <1>3, <2>3
    <3>5. \A a \in DOMAIN q : q[a] \in 0 .. Len(tasks) - 1
      BY <2>1 DEF ToSet
    <3>6. \A a, b \in DOMAIN r : a < b => r[a] < r[b]
      <4>1. SUFFICES ASSUME NEW a \in DOMAIN r, NEW b \in DOMAIN r, a < b PROVE r[a] < r[b]
        OBVIOUS
      <4>2. a \in DOMAIN q /\ r[a] = q[a]
        BY <3>2, <4>1
      <4>3. CASE b \in DOMAIN q
        BY <2>1, <3>2, <4>1, <4>2, <4>3
      <4>4. CASE b \notin DOMAIN q
        <5>1. r[b] = Len(tasks)
          BY <3>2, <4>4
        <5>2. QED
          BY <1>2, <3>5, <4>2, <5>1
      <4>5. QED
        BY <4>3, <4>4
    <3>7. QED
      BY <2>1, <3>1, <3>2, <3>3, <3>4, <3>6 DEF Queued
  <2>4. QED
    BY <2>2, <2>3
<1>6. QED
  BY <1>4, <1>5

\* A call that leaves the tasks alone.
LEMMA TasksStay ==
    ASSUME ReadyInOrder, UNCHANGED <<initialized, tasks, ready>>, started' = started
    PROVE  ReadyInOrder'
  BY DEF ReadyInOrder, Queued

\* os_Init
LEMMA InitCallLife ==
    ASSUME LifeInv, OsInit
    PROVE  LifeInv'
<1> USE LifecycleAssumption
<1>1. StartInv'
  BY InitCall DEF LifeInv
<1>2. ReadyInOrder'
  <2>1. tasks' = <<>> /\ ready' = [p \in Priorities |-> <<>>] /\ Len(tasks') = 0
    BY DEF OsInit
  <2>2. \A p \in Priorities : Queued(ready[p], p)'
    BY <2>1 DEF Queued, ToSet
  <2>3. QED
    BY <2>1, <2>2 DEF ReadyInOrder
<1>3. semaphores' = FreeSemaphores /\ queues' = FreeQueues /\ mutexes' = FreeMutexes
  BY DEF OsInit, ObjectsReset
<1>4. ObjectInv'
  BY <1>3 DEF ObjectInv, PoolTypes, SemaphoresSound, QueuesSound, FreeSemaphores, FreeQueues, FreeMutexes,
              FreeSemaphore, FreeQueue, FreeMutex, SemaphoreSlots, QueueSlots, MutexSlots
<1>5. session' = session + 1 /\ session \in Nat /\ handles' = {h \in handles : h.kind = "semaphore"}
  BY DEF OsInit, LifeInv, StartInv
<1>6. DOMAIN semaphores' = DOMAIN semaphores
  BY <1>3 DEF LifeInv, ObjectInv, PoolTypes, FreeSemaphores
<1>7. \A h \in handles' : h \in handles /\ h.kind = "semaphore" /\ h.session \in Nat /\ h.session < session'
  BY <1>5 DEF LifeInv, HandleInv, HandlesNamed
<1>8. HandlesNamed'
  <2>1. SUFFICES ASSUME NEW h \in handles'
                 PROVE  /\ h.kind \in Kinds /\ h.slot \in DOMAIN PoolOf(h.kind)'
                        /\ h.session \in Nat /\ h.session <= session'
    BY DEF HandlesNamed
  <2>2. h \in handles /\ h.kind = "semaphore" /\ h.session \in Nat /\ h.session < session'
    BY <1>7
  <2>3. h.slot \in DOMAIN semaphores
    BY <2>2 DEF LifeInv, HandleInv, HandlesNamed, PoolOf
  <2>4. PoolOf(h.kind)' = semaphores'
    BY <2>2 DEF PoolOf
  <2>5. QED
    BY <1>5, <1>6, <2>2, <2>3, <2>4 DEF Kinds
<1>9. HandlesLead' /\ HandlesDiffer'
  BY <1>5, <1>7 DEF HandlesLead, HandlesDiffer
<1>10. SemaphoresHandled'
  BY <1>3 DEF SemaphoresHandled, FreeSemaphores, FreeSemaphore
<1>11. QED
  BY <1>1, <1>2, <1>4, <1>8, <1>9, <1>10 DEF LifeInv, HandleInv

\* xTaskCreate
LEMMA CreateTaskLife ==
    ASSUME LifeInv, NEW priority \in Priorities \cup {PriorityCount},
           NEW sound \in BOOLEAN, NEW stack \in BOOLEAN, CreateTask(priority, sound, stack)
    PROVE  LifeInv'
<1>1. StartInv'
  BY CreateTaskCall DEF LifeInv
<1>2. ObjectInv' /\ HandleInv'
  BY ObjectsStay DEF LifeInv, CreateTask, stage
<1>3. CASE TaskStatus(priority, FALSE, sound, stack) = "OK"
  <2>1. initialized /\ ~started /\ priority \in Priorities
    BY <1>3, LifecycleAssumption DEF TaskStatus, CreationStatus, Priorities
  <2>2. AddTask(priority)
    BY <1>3 DEF CreateTask
  <2>3. DOMAIN ready' = Priorities /\ \A p \in Priorities : Queued(ready[p], p)'
    BY <2>1, <2>2, TaskQueues DEF LifeInv
  <2>4. ReadyInOrder'
    BY <2>3 DEF ReadyInOrder
  <2>5. QED
    BY <1>1, <1>2, <2>4 DEF LifeInv
<1>4. CASE TaskStatus(priority, FALSE, sound, stack) # "OK"
  BY <1>1, <1>2, <1>4, TasksStay DEF LifeInv, CreateTask, stage
<1>5. QED
  BY <1>3, <1>4


\* The slot that a creation call finds.
LEMMA FreeSlot ==
    ASSUME NEW N, NEW S, NEW pool \in [0 .. N -> S], Free(pool) # {}
    PROVE  FirstFree(pool) \in DOMAIN pool /\ ~pool[FirstFree(pool)].used
<1>1. Free(pool) \subseteq Nat
  BY DEF Free
<1>2. FirstFree(pool) \in Free(pool)
  BY <1>1, MinimumOfNaturals DEF FirstFree
<1>3. QED
  BY <1>2 DEF Free

\* A pool with a new object in a free slot, and the handle of it: the other handles lead
\* where they led, and none of this session to that slot.
LEMMA ObjectAppears ==
    ASSUME HandleInv, NEW kind \in Kinds, NEW slot \in DOMAIN PoolOf(kind), ~PoolOf(kind)[slot].used,
           NEW object, object.used, session \in Nat, session' = session,
           Keeps(kind, slot, object),
           \A k \in Kinds : PoolOf(k)' = IF k = kind THEN [PoolOf(k) EXCEPT ![slot] = object] ELSE PoolOf(k)
    PROVE  HandleInv'
<1> DEFINE new == [kind |-> kind, slot |-> slot, session |-> session, object |-> object]
<1>1. /\ handles' = handles \cup {new}
      /\ new.kind = kind /\ new.slot = slot /\ new.session = session /\ new.object = object
  BY DEF Keeps
<1> HIDE DEF new
<1>2. \A k \in Kinds : DOMAIN PoolOf(k)' = DOMAIN PoolOf(k)
  OBVIOUS
<1>3. /\ PoolOf(kind)'[slot] = object
      /\ \A k \in Kinds : \A i \in DOMAIN PoolOf(k) : (k # kind \/ i # slot) => PoolOf(k)'[i] = PoolOf(k)[i]
  OBVIOUS
<1>4. \A h \in handles : h.kind \in Kinds /\ h.slot \in DOMAIN PoolOf(h.kind) /\ h.session \in Nat /\ h.session <= session
  BY DEF HandleInv, HandlesNamed
<1>5. \A h \in handles : h.session = session => PoolOf(h.kind)[h.slot].used
  <2>1. SUFFICES ASSUME NEW h \in handles, h.session = session PROVE PoolOf(h.kind)[h.slot].used
    OBVIOUS
  <2>2. h.object.used /\ FixedPart(h.kind, PoolOf(h.kind)[h.slot]) = FixedPart(h.kind, h.object)
    BY <2>1 DEF HandleInv, HandlesLead
  <2>3. PoolOf(h.kind)[h.slot].used = h.object.used
    BY <2>2 DEF FixedPart
  <2>4. QED
    BY <2>2, <2>3
<1>6. \A h \in handles : h.session = session => h.kind # kind \/ h.slot # slot
  BY <1>5
<1>7. HandlesNamed'
  <2>1. SUFFICES ASSUME NEW h \in handles'
                 PROVE  /\ h.kind \in Kinds /\ h.slot \in DOMAIN PoolOf(h.kind)'
                        /\ h.session \in Nat /\ h.session <= session'
    BY DEF HandlesNamed
  <2>2. CASE h \in handles
    BY <1>2, <1>4, <2>2
  <2>3. CASE h = new
    BY <1>1, <1>2, <2>3
  <2>4. QED
    BY <1>1, <2>2, <2>3
<1>8. HandlesLead'
  <2>1. SUFFICES ASSUME NEW h \in handles', h.session = session
                 PROVE  /\ h.object.used
                        /\ FixedPart(h.kind, PoolOf(h.kind)'[h.slot]) = FixedPart(h.kind, h.object)
    BY DEF HandlesLead, FixedPart
  <2>2. CASE h \in handles
    <3>1. h.object.used /\ FixedPart(h.kind, PoolOf(h.kind)[h.slot]) = FixedPart(h.kind, h.object)
      BY <2>1, <2>2 DEF HandleInv, HandlesLead
    <3>2. PoolOf(h.kind)'[h.slot] = PoolOf(h.kind)[h.slot]
      BY <1>3, <1>4, <1>6, <2>1, <2>2
    <3>3. QED
      BY <3>1, <3>2
  <2>3. CASE h = new
    BY <1>1, <1>3, <2>3
  <2>4. QED
    BY <1>1, <2>2, <2>3
<1>9. HandlesDiffer'
  <2>1. SUFFICES ASSUME NEW g \in handles', NEW h \in handles', g.session = session, h.session = session,
                        g.kind = h.kind, g.slot = h.slot
                 PROVE  g = h
    BY DEF HandlesDiffer
  <2>2. CASE g \in handles /\ h \in handles
    BY <2>1, <2>2 DEF HandleInv, HandlesDiffer
  <2>3. CASE g = new \/ h = new
    BY <1>1, <1>6, <2>1, <2>3
  <2>4. QED
    BY <1>1, <2>2, <2>3
<1>10. SemaphoresHandled'
  <2>1. "semaphore" \in Kinds /\ PoolOf("semaphore") = semaphores /\ PoolOf("semaphore")' = semaphores'
    BY DEF Kinds, PoolOf
  <2>2. ASSUME NEW i \in DOMAIN semaphores', semaphores'[i].used
        PROVE  \E g \in handles' : g.session = session' /\ g.kind = "semaphore" /\ g.slot = i
    <3>1. i \in DOMAIN semaphores
      BY <1>2, <2>1
    <3>2. CASE kind = "semaphore" /\ i = slot
      BY <1>1, <3>2
    <3>3. CASE kind # "semaphore" \/ i # slot
      <4>1. semaphores[i].used
        BY <1>3, <2>1, <2>2, <3>1, <3>3
      <4>2. QED
        BY <1>1, <3>1, <4>1 DEF HandleInv, SemaphoresHandled
    <3>4. QED
      BY <3>2, <3>3
  <2>3. QED
    BY <2>2 DEF SemaphoresHandled
<1>11. QED
  BY <1>7, <1>8, <1>9, <1>10 DEF HandleInv

\* xSemaphoreCreateCounting
LEMMA CreateSemaphoreLife ==
    ASSUME LifeInv, NEW maximum \in Counts, NEW initial \in Counts, CreateSemaphore(maximum, initial)
    PROVE  LifeInv'
<1> USE LifecycleAssumption
<1>1. StartInv' /\ ReadyInOrder'
  <2>1. UNCHANGED <<initialized, started, session, lastRun, run, tasks, ready, idle, current>>
    BY DEF CreateSemaphore, stage, taskVars
  <2>2. QED
    BY <2>1, OtherCall, TasksStay DEF LifeInv, stage
<1> DEFINE status == CreationStatus(maximum # 0 /\ initial <= maximum, Free(semaphores) # {})
           slot == FirstFree(semaphores)
           made == [FreeSemaphore EXCEPT !.used = TRUE, !.count = initial, !.maximum = maximum]
<1>2. CASE status # "OK"
  <2>1. UNCHANGED <<pools, handles, session>> /\ started' = started
    BY <1>2 DEF CreateSemaphore, stage, pools
  <2>2. QED
    BY <1>1, <2>1, ObjectsStay DEF LifeInv
<1>3. CASE status = "OK"
  <2>1. /\ maximum # 0 /\ initial <= maximum /\ Free(semaphores) # {} /\ maximum \in Nat /\ initial \in Nat
        /\ initialized /\ ~started
    BY <1>3 DEF CreationStatus
  <2>2. /\ semaphores' = [semaphores EXCEPT ![slot] = made] /\ Keeps("semaphore", slot, made)
        /\ UNCHANGED <<queues, mutexes, session, started>>
    BY <1>3 DEF CreateSemaphore, stage
  <2>3. /\ made \in SemaphoreSlots /\ made.used /\ made.count = initial /\ made.maximum = maximum /\ ~made.left
    BY <2>1 DEF FreeSemaphore, SemaphoreSlots
  <2>4. slot \in DOMAIN semaphores /\ ~semaphores[slot].used
    BY <2>1, FreeSlot DEF LifeInv, ObjectInv, PoolTypes
  <2> HIDE DEF slot, made
  <2>5. /\ PoolTypes' /\ DOMAIN semaphores' = DOMAIN semaphores
        /\ \A i \in DOMAIN semaphores : semaphores'[i] = IF i = slot THEN made ELSE semaphores[i]
    BY <2>2, <2>3, <2>4 DEF LifeInv, ObjectInv, PoolTypes
  <2>6. SemaphoresSound'
    <3>1. SUFFICES ASSUME NEW i \in DOMAIN semaphores
                   PROVE  /\ semaphores'[i].used => semaphores'[i].maximum > 0 /\ semaphores'[i].count \in 0 .. semaphores'[i].maximum
                          /\ semaphores'[i].used /\ semaphores'[i].left => started'
      BY <2>5 DEF SemaphoresSound
    <3>2. CASE i = slot
      BY <2>1, <2>3, <2>5, <3>2
    <3>3. CASE i # slot
      BY <2>2, <2>5, <3>3 DEF LifeInv, ObjectInv, SemaphoresSound
    <3>4. QED
      BY <3>2, <3>3
  <2>7. QueuesSound'
    BY <2>2 DEF LifeInv, ObjectInv, QueuesSound
  <2>8. HandleInv'
    <3>1. "semaphore" \in Kinds /\ PoolOf("semaphore") = semaphores
      BY DEF Kinds, PoolOf
    <3>2. \A k \in Kinds : PoolOf(k)' = IF k = "semaphore" THEN [PoolOf(k) EXCEPT ![slot] = made] ELSE PoolOf(k)
      BY <2>2 DEF PoolOf
    <3>3. HandleInv /\ session \in Nat /\ session' = session
      BY <2>2 DEF LifeInv, StartInv
    <3>4. slot \in DOMAIN PoolOf("semaphore") /\ ~PoolOf("semaphore")[slot].used
      BY <2>4, <3>1
    <3>5. QED
      BY <2>2, <2>3, <3>1, <3>2, <3>3, <3>4, ObjectAppears
  <2>9. QED
    BY <1>1, <2>5, <2>6, <2>7, <2>8 DEF LifeInv, ObjectInv
<1>4. QED
  BY <1>2, <1>3

\* xQueueCreate; the size of the storage is a size.
LEMMA CreateQueueLife ==
    ASSUME LifeInv, NEW length \in Sizes, NEW itemSize \in Sizes, NEW given \in BOOLEAN,
           CreateQueue(length, itemSize, given)
    PROVE  LifeInv'
<1> USE LifecycleAssumption
<1>1. StartInv' /\ ReadyInOrder'
  <2>1. UNCHANGED <<initialized, started, session, lastRun, run, tasks, ready, idle, current>>
    BY DEF CreateQueue, stage, taskVars
  <2>2. QED
    BY <2>1, OtherCall, TasksStay DEF LifeInv, stage
<1> DEFINE sound == given /\ itemSize # 0 /\ length # 0 /\ StorageFits(length, itemSize)
           status == CreationStatus(sound, Free(queues) # {})
           slot == FirstFree(queues)
           made == [used |-> TRUE, capacity |-> length, itemSize |-> itemSize]
<1>2. CASE status # "OK"
  <2>1. UNCHANGED <<pools, handles, session>> /\ started' = started
    BY <1>2 DEF CreateQueue, stage, pools
  <2>2. QED
    BY <1>1, <2>1, ObjectsStay DEF LifeInv
<1>3. CASE status = "OK"
  <2>1. sound /\ Free(queues) # {}
    BY <1>3 DEF CreationStatus
  <2>2. /\ length \in Nat /\ itemSize \in Nat /\ length > 0 /\ itemSize > 0 /\ SizeMax \in Nat
        /\ itemSize <= SizeMax \div length
    BY <2>1 DEF StorageFits
  <2>3. length * itemSize <= SizeMax
    BY <2>2, ProductFits
  <2>4. /\ queues' = [queues EXCEPT ![slot] = made] /\ Keeps("queue", slot, made)
        /\ UNCHANGED <<semaphores, mutexes, session, started>>
    BY <1>3 DEF CreateQueue, stage
  <2>5. made \in QueueSlots /\ made.used /\ made.capacity = length /\ made.itemSize = itemSize
    BY <2>2 DEF QueueSlots
  <2>6. slot \in DOMAIN queues /\ ~queues[slot].used
    BY <2>1, FreeSlot DEF LifeInv, ObjectInv, PoolTypes
  <2> HIDE DEF slot, made
  <2>7. /\ PoolTypes' /\ DOMAIN queues' = DOMAIN queues
        /\ \A i \in DOMAIN queues : queues'[i] = IF i = slot THEN made ELSE queues[i]
    BY <2>4, <2>5, <2>6 DEF LifeInv, ObjectInv, PoolTypes
  <2>8. QueuesSound'
    <3>1. SUFFICES ASSUME NEW i \in DOMAIN queues
                   PROVE  queues'[i].used =>
                            /\ queues'[i].capacity > 0 /\ queues'[i].itemSize > 0
                            /\ queues'[i].capacity * queues'[i].itemSize <= SizeMax
      BY <2>7 DEF QueuesSound
    <3>2. CASE i = slot
      <4>1. queues'[i] = made
        BY <2>7, <3>2
      <4>2. QED
        BY <2>2, <2>3, <2>5, <4>1
    <3>3. CASE i # slot
      <4>1. queues'[i] = queues[i]
        BY <2>7, <3>3
      <4>2. QED
        BY <4>1 DEF LifeInv, ObjectInv, QueuesSound
    <3>4. QED
      BY <3>2, <3>3
  <2>9. SemaphoresSound'
    BY <2>4 DEF LifeInv, ObjectInv, SemaphoresSound
  <2>10. HandleInv'
    <3>1. "queue" \in Kinds /\ PoolOf("queue") = queues
      BY DEF Kinds, PoolOf
    <3>2. \A k \in Kinds : PoolOf(k)' = IF k = "queue" THEN [PoolOf(k) EXCEPT ![slot] = made] ELSE PoolOf(k)
      BY <2>4 DEF PoolOf, Kinds
    <3>3. HandleInv /\ session \in Nat /\ session' = session
      BY <2>4 DEF LifeInv, StartInv
    <3>4. slot \in DOMAIN PoolOf("queue") /\ ~PoolOf("queue")[slot].used
      BY <2>6, <3>1
    <3>5. QED
      BY <2>4, <2>5, <3>1, <3>2, <3>3, <3>4, ObjectAppears
  <2>11. QED
    BY <1>1, <2>7, <2>8, <2>9, <2>10 DEF LifeInv, ObjectInv
<1>4. QED
  BY <1>2, <1>3

\* xMutexCreate
LEMMA CreateMutexLife ==
    ASSUME LifeInv, CreateMutex
    PROVE  LifeInv'
<1> USE LifecycleAssumption
<1>1. StartInv' /\ ReadyInOrder'
  <2>1. UNCHANGED <<initialized, started, session, lastRun, run, tasks, ready, idle, current>>
    BY DEF CreateMutex, stage, taskVars
  <2>2. QED
    BY <2>1, OtherCall, TasksStay DEF LifeInv, stage
<1> DEFINE status == CreationStatus(TRUE, Free(mutexes) # {})
           slot == FirstFree(mutexes)
           made == [used |-> TRUE]
<1>2. CASE status # "OK"
  <2>1. UNCHANGED <<pools, handles, session>> /\ started' = started
    BY <1>2 DEF CreateMutex, stage, pools
  <2>2. QED
    BY <1>1, <2>1, ObjectsStay DEF LifeInv
<1>3. CASE status = "OK"
  <2>1. Free(mutexes) # {}
    BY <1>3 DEF CreationStatus
  <2>2. /\ mutexes' = [mutexes EXCEPT ![slot] = made] /\ Keeps("mutex", slot, made)
        /\ UNCHANGED <<semaphores, queues, session, started>>
    BY <1>3 DEF CreateMutex, stage
  <2>3. made \in MutexSlots /\ made.used
    BY DEF MutexSlots
  <2>4. slot \in DOMAIN mutexes /\ ~mutexes[slot].used
    BY <2>1, FreeSlot DEF LifeInv, ObjectInv, PoolTypes
  <2> HIDE DEF slot, made
  <2>5. ObjectInv'
    BY <2>2, <2>3, <2>4 DEF LifeInv, ObjectInv, PoolTypes, SemaphoresSound, QueuesSound
  <2>6. "mutex" \in Kinds /\ PoolOf("mutex") = mutexes
    BY DEF Kinds, PoolOf
  <2>7. \A k \in Kinds : PoolOf(k)' = IF k = "mutex" THEN [PoolOf(k) EXCEPT ![slot] = made] ELSE PoolOf(k)
    BY <2>2 DEF PoolOf, Kinds
  <2>8. HandleInv /\ session \in Nat /\ session' = session
    BY <2>2 DEF LifeInv, StartInv
  <2>9. slot \in DOMAIN PoolOf("mutex") /\ ~PoolOf("mutex")[slot].used
    BY <2>4, <2>6
  <2>10. HandleInv'
    BY <2>2, <2>3, <2>6, <2>7, <2>8, <2>9, ObjectAppears
  <2>11. QED
    BY <1>1, <2>5, <2>10 DEF LifeInv
<1>4. QED
  BY <1>2, <1>3


\* Counts and wait lists may change: a handle leads to its object still.
LEMMA SemaphoresMove ==
    ASSUME HandleInv, UNCHANGED <<queues, mutexes, handles, session>>,
           DOMAIN semaphores' = DOMAIN semaphores,
           \A i \in DOMAIN semaphores : /\ semaphores'[i].used = semaphores[i].used
                                        /\ semaphores'[i].maximum = semaphores[i].maximum
    PROVE  HandleInv'
<1>1. HandlesNamed'
  <2>1. SUFFICES ASSUME NEW h \in handles
                 PROVE  h.slot \in DOMAIN PoolOf(h.kind)'
    BY DEF HandleInv, HandlesNamed
  <2>2. h.slot \in DOMAIN PoolOf(h.kind)
    BY DEF HandleInv, HandlesNamed
  <2>3. QED
    BY <2>2 DEF PoolOf
<1>2. HandlesLead'
  <2>1. SUFFICES ASSUME NEW h \in handles, h.session = session
                 PROVE  /\ h.object.used
                        /\ FixedPart(h.kind, PoolOf(h.kind)'[h.slot]) = FixedPart(h.kind, h.object)
    BY DEF HandlesLead, FixedPart
  <2>2. h.object.used /\ FixedPart(h.kind, PoolOf(h.kind)[h.slot]) = FixedPart(h.kind, h.object)
    BY <2>1 DEF HandleInv, HandlesLead
  <2>3. h.slot \in DOMAIN PoolOf(h.kind)
    BY DEF HandleInv, HandlesNamed
  <2>4. CASE h.kind = "semaphore"
    <3>1. FixedPart(h.kind, semaphores'[h.slot]) = FixedPart(h.kind, semaphores[h.slot])
      BY <2>3, <2>4 DEF FixedPart, PoolOf
    <3>2. PoolOf(h.kind) = semaphores /\ PoolOf(h.kind)' = semaphores'
      BY <2>4 DEF PoolOf
    <3>3. QED
      BY <2>2, <3>1, <3>2
  <2>5. CASE h.kind # "semaphore"
    <3>1. PoolOf(h.kind)' = PoolOf(h.kind)
      BY <2>5 DEF PoolOf
    <3>2. QED
      BY <2>2, <3>1
  <2>6. QED
    BY <2>4, <2>5
<1>3. HandlesDiffer'
  BY DEF HandleInv, HandlesDiffer
<1>4. SemaphoresHandled'
  BY DEF HandleInv, SemaphoresHandled
<1>5. QED
  BY <1>1, <1>2, <1>3, <1>4 DEF HandleInv

\* A slot with another state of its wait list is one of the same semaphore.
LEMMA LeftChanges ==
    ASSUME NEW s \in SemaphoreSlots, NEW b \in BOOLEAN, NEW r, r = [s EXCEPT !.left = b]
    PROVE  r \in SemaphoreSlots /\ r.used = s.used /\ r.maximum = s.maximum /\ r.count = s.count /\ r.left = b
  BY DEF SemaphoreSlots

\* And so is one with another count.
LEMMA CountChanges ==
    ASSUME NEW s \in SemaphoreSlots, NEW c \in Nat, NEW r, r = [s EXCEPT !.count = c]
    PROVE  r \in SemaphoreSlots /\ r.used = s.used /\ r.maximum = s.maximum /\ r.count = c /\ r.left = s.left
  BY DEF SemaphoreSlots

\* A run leaves one of these.
LEMMA AfterRunCases ==
    ASSUME NEW s, s.used, s.maximum \in Nat, NEW r \in AfterRun(s)
    PROVE  \E c \in 0 .. s.maximum, b \in BOOLEAN : r = [s EXCEPT !.count = c, !.left = b]
<1> DEFINE A == {[s EXCEPT !.count = c, !.left = FALSE] : c \in 0 .. s.maximum}
           B == {[s EXCEPT !.count = 0, !.left = TRUE]}
<1>1. AfterRun(s) = A \cup B
  BY DEF AfterRun
<1>2. CASE r \in A
  BY <1>2
<1>3. CASE r \in B
  <2>1. 0 \in 0 .. s.maximum /\ TRUE \in BOOLEAN
    OBVIOUS
  <2>2. QED
    BY <1>3, <2>1
<1> HIDE DEF A, B
<1>4. QED
  BY <1>1, <1>2, <1>3

\* xSemaphoreGiveFromISR, through any handle of a semaphore; one that is answered OK
\* found an object of this session.
LEMMA GiveLife ==
    ASSUME LifeInv, NEW h \in handles, GiveFromISR(h)
    PROVE  /\ LifeInv'
           /\ answer' = "OK" => \E g \in handles : g.session = session /\ g.kind = h.kind /\ g.slot = h.slot
<1> DEFINE s == semaphores[h.slot]
<1>1. /\ h.kind = "semaphore" /\ h.slot \in DOMAIN semaphores
      /\ UNCHANGED <<initialized, started, session, lastRun, run, tasks, ready, idle, current>>
      /\ UNCHANGED <<queues, mutexes, handles>>
  BY DEF LifeInv, HandleInv, HandlesNamed, PoolOf, GiveFromISR, stage, taskVars
<1>2. StartInv' /\ ReadyInOrder'
  BY <1>1, OtherCall, TasksStay DEF LifeInv, stage
<1>3. semaphores \in [0 .. MaxSemaphores - 1 -> SemaphoreSlots] /\ s \in SemaphoreSlots
  BY <1>1 DEF LifeInv, ObjectInv, PoolTypes
<1>4. CASE GiveStatus(s) # "OK"
  <2>1. semaphores' = semaphores /\ answer' # "OK"
    BY <1>4 DEF GiveFromISR
  <2>2. ObjectInv' /\ HandleInv'
    BY <1>1, <2>1, ObjectsStay DEF LifeInv, pools
  <2>3. QED
    BY <1>2, <2>1, <2>2 DEF LifeInv
<1>5. CASE GiveStatus(s) = "OK"
  <2>1. s.used /\ s.maximum > 0 /\ s.count <= s.maximum /\ (s.left \/ s.count # s.maximum)
    BY <1>5 DEF GiveStatus
  <2>2. /\ s.used \in BOOLEAN /\ s.count \in Nat /\ s.maximum \in Nat /\ s.left \in BOOLEAN
    BY <1>3 DEF SemaphoreSlots
  <2> DEFINE r == IF s.left THEN [s EXCEPT !.left = FALSE] ELSE [s EXCEPT !.count = @ + 1]
  <2>3. semaphores' = [semaphores EXCEPT ![h.slot] = r]
    BY <1>5 DEF GiveFromISR
  <2>4. /\ r \in SemaphoreSlots /\ r.used /\ r.maximum = s.maximum
        /\ r.count \in 0 .. r.maximum /\ (r.left => s.left)
    <3>1. CASE s.left
      <4>1. r = [s EXCEPT !.left = FALSE]
        BY <3>1
      <4> HIDE DEF s, r
      <4>2. r \in SemaphoreSlots /\ r.used = s.used /\ r.maximum = s.maximum /\ r.count = s.count /\ r.left = FALSE
        BY <1>3, <4>1, LeftChanges
      <4>3. QED
        BY <2>1, <2>2, <4>2
    <3>2. CASE ~s.left
      <4> DEFINE c == s.count + 1
      <4>1. r = [s EXCEPT !.count = c] /\ c \in Nat
        BY <2>2, <3>2
      <4> HIDE DEF s, r, c
      <4>2. r \in SemaphoreSlots /\ r.used = s.used /\ r.maximum = s.maximum /\ r.count = c /\ r.left = s.left
        BY <1>3, <4>1, CountChanges
      <4>3. QED
        BY <2>1, <2>2, <3>2, <4>2 DEF c
    <3>3. QED
      BY <3>1, <3>2
  <2> HIDE DEF r, s
  <2>5. /\ PoolTypes' /\ DOMAIN semaphores' = DOMAIN semaphores
        /\ \A i \in DOMAIN semaphores : semaphores'[i] = IF i = h.slot THEN r ELSE semaphores[i]
    BY <1>1, <1>3, <2>3, <2>4 DEF LifeInv, ObjectInv, PoolTypes
  <2>6. SemaphoresSound'
    <3>1. SUFFICES ASSUME NEW i \in DOMAIN semaphores
                   PROVE  /\ semaphores'[i].used => semaphores'[i].maximum > 0 /\ semaphores'[i].count \in 0 .. semaphores'[i].maximum
                          /\ semaphores'[i].used /\ semaphores'[i].left => started'
      BY <2>5 DEF SemaphoresSound
    <3>2. CASE i = h.slot
      <4>1. s.used /\ s.left => started
        BY <3>2 DEF LifeInv, ObjectInv, SemaphoresSound, s
      <4>2. semaphores'[i] = r /\ started' = started
        BY <1>1, <2>5, <3>2
      <4>3. QED
        BY <2>1, <2>4, <4>1, <4>2
    <3>3. CASE i # h.slot
      <4>1. semaphores'[i] = semaphores[i] /\ started' = started
        BY <1>1, <2>5, <3>3
      <4>2. QED
        BY <4>1 DEF LifeInv, ObjectInv, SemaphoresSound
    <3>4. QED
      BY <3>2, <3>3
  <2>7. QueuesSound'
    BY <1>1 DEF LifeInv, ObjectInv, QueuesSound
  <2>8. \A i \in DOMAIN semaphores : semaphores'[i].used = semaphores[i].used /\ semaphores'[i].maximum = semaphores[i].maximum
    BY <2>1, <2>2, <2>4, <2>5 DEF s, r
  <2>9. HandleInv'
    BY <1>1, <2>5, <2>8, SemaphoresMove DEF LifeInv
  <2>10. \E g \in handles : g.session = session /\ g.kind = h.kind /\ g.slot = h.slot
    BY <1>1, <2>1 DEF LifeInv, HandleInv, SemaphoresHandled, s
  <2>11. QED
    BY <1>2, <2>5, <2>6, <2>7, <2>9, <2>10 DEF LifeInv, ObjectInv
<1>6. QED
  BY <1>4, <1>5

\* A start whose port fails: the Idle task queues like any other.
LEMMA StartFailsLife ==
    ASSUME LifeInv, StartFails
    PROVE  LifeInv'
<1>1. StartInv'
  BY StartFailsCall DEF LifeInv
<1>2. ObjectInv' /\ HandleInv'
  BY ObjectsStay DEF LifeInv, StartFails, stage
<1>3. initialized /\ ~started /\ UNCHANGED <<initialized, started>>
  BY IdleStatusOK DEF LifeInv, StartFails, stage
<1>4. ReadyInOrder'
  <2>1. CASE IdleMissing
    <3>1. AddTask(IdlePriority)
      BY <2>1 DEF StartFails, EnsureIdle
    <3>2. DOMAIN ready' = Priorities /\ \A p \in Priorities : Queued(ready[p], p)'
      BY <1>3, <3>1, TaskQueues, IdleIsPriority DEF LifeInv
    <3>3. QED
      BY <3>2 DEF ReadyInOrder
  <2>2. CASE ~IdleMissing
    BY <1>3, <2>2, TasksStay DEF LifeInv, StartFails, EnsureIdle
  <2>3. QED
    BY <2>1, <2>2
<1>5. QED
  BY <1>1, <1>2, <1>4 DEF LifeInv

\* The run begins.
LEMMA StartRunsLife ==
    ASSUME LifeInv, StartRuns
    PROVE  LifeInv'
<1>1. StartInv'
  BY StartRunsCall DEF LifeInv
<1>2. UNCHANGED <<pools, handles, session>> /\ started'
  BY DEF StartRuns
<1>3. ObjectInv' /\ HandleInv'
  BY <1>2, ObjectsStay DEF LifeInv
<1>4. DOMAIN ready' = Priorities
  BY DEF StartRuns, LifeInv, ReadyInOrder
<1>5. QED
  BY <1>1, <1>2, <1>3, <1>4 DEF LifeInv, ReadyInOrder

\* The run ends, with any counts and with tasks left on the wait lists.
LEMMA RunEndsLife ==
    ASSUME LifeInv, RunEnds
    PROVE  LifeInv'
<1>1. StartInv'
  BY RunEndsCall DEF LifeInv
<1>2. /\ started' /\ DOMAIN ready' = Priorities
      /\ UNCHANGED <<session, queues, mutexes, handles>>
  BY DEF RunEnds, StartedAfterRun
<1>3. /\ DOMAIN semaphores' = DOMAIN semaphores
      /\ \A i \in DOMAIN semaphores : semaphores'[i] \in AfterRun(semaphores[i])
  BY DEF RunEnds
<1>4. ASSUME NEW i \in DOMAIN semaphores
      PROVE  /\ semaphores'[i] \in SemaphoreSlots
             /\ semaphores'[i].used = semaphores[i].used /\ semaphores'[i].maximum = semaphores[i].maximum
             /\ semaphores'[i].used => semaphores'[i].maximum > 0 /\ semaphores'[i].count \in 0 .. semaphores'[i].maximum
  <2>1. semaphores[i] \in SemaphoreSlots
    BY DEF LifeInv, ObjectInv, PoolTypes
  <2>2. semaphores[i].used => semaphores[i].maximum > 0 /\ semaphores[i].count \in 0 .. semaphores[i].maximum
    BY DEF LifeInv, ObjectInv, SemaphoresSound
  <2> DEFINE s == semaphores[i]
             r == semaphores'[i]
  <2>3. r \in AfterRun(s)
    BY <1>3
  <2> HIDE DEF s, r
  <2>4. s \in SemaphoreSlots /\ (s.used => s.maximum > 0 /\ s.count \in 0 .. s.maximum)
    BY <2>1, <2>2 DEF s
  <2>5. CASE ~s.used
    BY <2>3, <2>4, <2>5 DEF AfterRun, s, r
  <2>6. CASE s.used
    <3>1. \E c \in 0 .. s.maximum, b \in BOOLEAN : r = [s EXCEPT !.count = c, !.left = b]
      <4>1. s.maximum \in Nat
        BY <2>4 DEF SemaphoreSlots
      <4>2. QED
        BY <2>3, <2>6, <4>1, AfterRunCases
    <3>2. PICK c \in 0 .. s.maximum, b \in BOOLEAN : r = [s EXCEPT !.count = c, !.left = b]
      BY <3>1
    <3>3. s.maximum \in Nat /\ c \in Nat
      BY <2>4 DEF SemaphoreSlots
    <3>4. r \in SemaphoreSlots /\ r.used = s.used /\ r.maximum = s.maximum /\ r.count = c
      BY <2>4, <3>2, <3>3 DEF SemaphoreSlots
    <3>5. QED
      BY <2>4, <2>6, <3>4 DEF s, r
  <2>7. QED
    BY <2>5, <2>6
<1>5. semaphores' \in [0 .. MaxSemaphores - 1 -> SemaphoreSlots]
  <2>1. DOMAIN semaphores = 0 .. MaxSemaphores - 1
    BY DEF LifeInv, ObjectInv, PoolTypes
  <2>2. semaphores' = [i \in 0 .. MaxSemaphores - 1 |-> semaphores'[i]]
    BY <2>1 DEF RunEnds
  <2>3. QED
    BY <1>4, <2>1, <2>2
<1>6. ObjectInv'
  BY <1>2, <1>3, <1>4, <1>5 DEF LifeInv, ObjectInv, PoolTypes, SemaphoresSound, QueuesSound
<1>7. HandleInv'
  BY <1>2, <1>3, <1>4, SemaphoresMove DEF LifeInv
<1>8. QED
  BY <1>1, <1>2, <1>6, <1>7 DEF LifeInv, ReadyInOrder

\* A call or a step that changes none of this.
LEMMA NothingMoves ==
    ASSUME LifeInv, UNCHANGED <<stage, taskVars, pools, handles>>
    PROVE  LifeInv'
<1>1. StartInv' /\ ReadyInOrder'
  BY OtherCall, TasksStay DEF LifeInv, stage, taskVars
<1>2. ObjectInv' /\ HandleInv'
  BY ObjectsStay DEF LifeInv, stage
<1>3. QED
  BY <1>1, <1>2 DEF LifeInv

\* Before the first os_Init.
LEMMA LifeInvInit == LifeInit => LifeInv
<1>1. SUFFICES ASSUME LifeInit PROVE LifeInv
  OBVIOUS
<1>2. StartInv
  BY <1>1, StartInvInit
<1>3. ReadyInOrder
  BY <1>1 DEF LifeInit, ReadyInOrder
<1>4. ObjectInv
  BY <1>1 DEF LifeInit, ObjectInv, PoolTypes, SemaphoresSound, QueuesSound, FreeSemaphores, FreeQueues, FreeMutexes,
              FreeSemaphore, FreeQueue, FreeMutex, SemaphoreSlots, QueueSlots, MutexSlots
<1>5. HandleInv
  BY <1>1 DEF LifeInit, HandleInv, HandlesNamed, HandlesLead, HandlesDiffer, SemaphoresHandled,
              FreeSemaphores, FreeSemaphore
<1>6. QED
  BY <1>2, <1>3, <1>4, <1>5 DEF LifeInv

\* One case for each call of the application and the end of a run.
LEMMA LifeInvStep == LifeInv /\ [LifeNext]_lifeVars => LifeInv'
<1>1. SUFFICES ASSUME LifeInv, [LifeNext]_lifeVars PROVE LifeInv'
  OBVIOUS
<1>2. CASE OsInit
  BY <1>1, <1>2, InitCallLife
<1>3. CASE \E p \in Priorities \cup {PriorityCount}, sound, stack \in BOOLEAN : CreateTask(p, sound, stack)
  BY <1>1, <1>3, CreateTaskLife
<1>4. CASE \E maximum, initial \in Counts : CreateSemaphore(maximum, initial)
  BY <1>1, <1>4, CreateSemaphoreLife
<1>5. CASE \E length, itemSize \in Sizes, given \in BOOLEAN : CreateQueue(length, itemSize, given)
  BY <1>1, <1>5, CreateQueueLife
<1>6. CASE CreateMutex
  BY <1>1, <1>6, CreateMutexLife
<1>7. CASE Operate
  BY <1>1, <1>7, NothingMoves DEF Operate
<1>8. CASE \E h \in handles : GiveFromISR(h)
  BY <1>1, <1>8, GiveLife
<1>9. CASE StartRefused
  BY <1>1, <1>9, NothingMoves DEF StartRefused
<1>10. CASE StartFails
  BY <1>1, <1>10, StartFailsLife
<1>11. CASE StartRuns
  BY <1>1, <1>11, StartRunsLife
<1>12. CASE RunEnds
  BY <1>1, <1>12, RunEndsLife
<1>13. CASE UNCHANGED lifeVars
  BY <1>1, <1>13, NothingMoves DEF lifeVars
<1>14. QED
  BY <1>1, <1>2, <1>3, <1>4, <1>5, <1>6, <1>7, <1>8, <1>9, <1>10, <1>11, <1>12, <1>13 DEF LifeNext

\* So it holds in every state.
LEMMA LifeInvHolds == LifeSpec => []LifeInv
  BY LifeInvInit, LifeInvStep, PTL DEF LifeSpec

\* Whatever calls were made and refused, an initialized kernel that has not started is
\* what a run may begin with, for pools and sizes of any limit: no product wraps, no
\* count is beyond its maximum, no task of an old run hangs on a list.
THEOREM RunsBeginSound == LifeSpec => []ConfigurationSound
<1>1. LifeInv => ConfigurationSound
  <2>1. SUFFICES ASSUME LifeInv, initialized, ~started PROVE ConfigurationSound
    BY DEF ConfigurationSound
  <2>2. \A p \in Priorities :
           /\ ToSet(ready[p]) = {i \in 0 .. Len(tasks) - 1 : tasks[i + 1] = p}
           /\ \A a, b \in DOMAIN ready[p] : a < b => ready[p][a] < ready[p][b]
    BY <2>1 DEF LifeInv, ReadyInOrder, Queued
  <2>3. \A i \in DOMAIN semaphores : LET s == semaphores[i] IN
           s.used => s.maximum > 0 /\ s.count \in 0 .. s.maximum /\ ~s.left
    BY <2>1 DEF LifeInv, ObjectInv, SemaphoresSound
  <2>4. \A i \in DOMAIN queues : LET q == queues[i] IN
           q.used => q.capacity > 0 /\ q.itemSize > 0 /\ q.capacity * q.itemSize <= SizeMax
    BY <2>1 DEF LifeInv, ObjectInv, QueuesSound
  <2>5. QED
    BY <2>2, <2>3, <2>4 DEF ConfigurationSound
<1>2. QED
  BY <1>1, LifeInvHolds, PTL

\* A handle of the current session leads to an object of its own, with the parameters
\* of its creation: no slot is given out twice, and neither gives nor runs nor failing
\* creations replace an object.
THEOREM HandlesLeadToTheirObjects == LifeSpec => []LiveHandles
<1>1. LifeInv => LiveHandles
  <2>1. SUFFICES ASSUME LifeInv PROVE LiveHandles
    OBVIOUS
  <2>2. \A h \in {q \in handles : q.session = session} :
           FixedPart(h.kind, PoolOf(h.kind)[h.slot]) = FixedPart(h.kind, h.object)
    BY <2>1 DEF LifeInv, HandleInv, HandlesLead
  <2>3. \A g, h \in {q \in handles : q.session = session} : g.kind = h.kind /\ g.slot = h.slot => g = h
    BY <2>1 DEF LifeInv, HandleInv, HandlesDiffer
  <2>4. QED
    BY <2>2, <2>3 DEF LiveHandles, FixedPart, PoolOf
<1>2. QED
  BY <1>1, LifeInvHolds, PTL

\* A give through a handle that survived os_Init is answered OK only when its slot
\* holds an object of the current session.
THEOREM OldHandlesAreRefused == LifeSpec => StaleHandlesRefused
<1>1. LifeInv /\ [LifeNext]_lifeVars =>
        [\A h \in handles : (h.session # session /\ GiveFromISR(h) /\ answer' = "OK") =>
            \E g \in handles : g.session = session /\ g.kind = h.kind /\ g.slot = h.slot]_lifeVars
  BY GiveLife
<1>2. QED
  BY <1>1, LifeInvHolds, PTL DEF LifeSpec, StaleHandlesRefused
===============================================================================
