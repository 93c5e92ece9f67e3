----------------------------- MODULE IpcDemoProofs -----------------------------
(***************************************************************************)
(* The IPC demo is an application of the kernel, so that everything proved *)
(* of the kernel holds while it runs.  Each hot sample has its alarm       *)
(* before the task that found it goes on, and samples are processed in the *)
(* order the sensor read them, for every table, capacity of the queue,     *)
(* period and amount of work.                                              *)
(***************************************************************************)
EXTENDS IpcDemo, CallProofs

Waiting(t) == kernel.waitOn[t] # NoWait

\* Where each task may stand, and what it may wait for there: without a deadline, so
\* that no tick ends the wait.  Alarm never sleeps, and no permit is ever counted.
Endless == \A t \in Tasks : Waiting(t) => ~DelayLinked(kernel, t)
Standing ==
    /\ pc \in [{Sensor, Process, Alarm} -> Points]
    /\ pc[Sensor] \in {"sleep", "delay", "send", "sent"}
    /\ pc[Process] \in {"receive", "received", "work", "give"}
    /\ pc[Alarm] \in {"take", "taken", "work"}
    /\ Waiting(Sensor) => kernel.waitOn[Sensor] = SendWaiters(SampleQueue) /\ pc[Sensor] = "sent"
    /\ Waiting(Process) =>
          kernel.waitOn[Process] = ReceiveWaiters(SampleQueue) /\ pc[Process] = "received"
    /\ Waiting(Alarm) => kernel.waitOn[Alarm] = SemWaiters(AlarmSem) /\ pc[Alarm] = "taken"
    /\ Endless
    /\ kernel.state[Alarm] \in {"READY", "RUNNING", "BLOCKED_OBJECT"}
    /\ semCount[AlarmSem] = 0

\* What is on its way: a message that Process has but has not worked off, one that
\* was accepted but that Sensor has not counted yet, and alarms not counted yet.
One(b) == IF b THEN 1 ELSE 0
InHand == One(pc[Process] \in {"received", "work"} /\ ~Waiting(Process))
Accepted == One(pc[Sensor] = "sent" /\ ~Waiting(Sensor))
Owed == One(pc[Alarm] = "taken" /\ ~Waiting(Alarm)) + One(pc[Process] = "give")

\* The n-th temperature the sensor reads, from 0: it goes round its table.
Reading(n) == Temperatures[(n % Length) + 1]

\* The queue and the two tasks at its ends hold the readings between p and s in
\* order, where p were worked off and s were counted as sent.
PipelineAt(p, s) ==
    /\ processed = p % Length /\ sampleIndex = s % Length
    /\ s + Accepted = p + InHand + ring[SampleQueue].count
    /\ \A i \in 1 .. ring[SampleQueue].count :
          QueueSnapshot(SampleQueue)[i] = Reading(p + InHand + i - 1)
    /\ InHand = 1 => buffer[Process] = Reading(p)
    /\ Waiting(Sensor) => buffer[Sensor] = Reading(s)
Pipeline == \E p, s \in Nat : PipelineAt(p, s)

\* The alarms counted and owed are those of the samples processed; both counts wrap
\* at the end of the table.
Ledger ==
    /\ alarmRuns \in 0 .. HotAmong(Length) - 1
    /\ alarmRuns + Owed - HotAmong(processed) \in {-HotAmong(Length), 0, HotAmong(Length)}

DemoInv == Standing /\ Pipeline /\ Ledger
-------------------------------------------------------------------------------
\* The demo's instance of the kernel.
LEMMA DemoObjects ==
    /\ Tasks = {Sensor, Process, Alarm, 3} /\ TaskCount - 1 = 3 /\ TaskCount = 4
    /\ Sensor # Process /\ Sensor # Alarm /\ Process # Alarm /\ 3 \notin {Sensor, Process, Alarm}
    /\ Queues = {SampleQueue} /\ Semaphores = {AlarmSem} /\ Mutexes = {}
    /\ WaitForever \in Timeouts /\ WaitForever \in Ticks /\ WaitForever # 0
    /\ {FirstDelay, Period} \subseteq Delays \cap (Ticks \ {0})
    /\ ~IsIdle(Sensor) /\ ~IsIdle(Process) /\ ~IsIdle(Alarm) /\ IsIdle(3)
    /\ BasePriority[Alarm] > BasePriority[Process]
<1>1. /\ TaskCount = 4 /\ SemCount = 1 /\ QueueCount = 1 /\ MutexCount = 0
      /\ BasePriority[Alarm] > BasePriority[Sensor] /\ BasePriority[Sensor] > BasePriority[Process]
      /\ BasePriority[Process] > IdlePriority /\ IsIdle(TaskCount - 1)
      /\ {FirstDelay, Period} \subseteq Ticks \ {0}
      /\ {FirstDelay, Period} \subseteq Delays /\ WaitForever \in Timeouts
  BY IpcDemoAssumption
<1>2. Tasks = {0, 1, 2, 3} /\ TaskCount - 1 = 3
  BY <1>1 DEF Tasks
<1>3. Queues = {0} /\ Semaphores = {0} /\ Mutexes = {}
  BY <1>1 DEF Queues, Semaphores, Mutexes
<1>4. WaitForever \in Ticks /\ WaitForever # 0
  BY OsKernelAssumption DEF WaitForever, Ticks
<1>5. \A t \in Tasks : BasePriority[t] \in Int
  BY OsKernelAssumption DEF Priorities
<1>6. /\ BasePriority[Sensor] # 0 /\ BasePriority[Process] # 0 /\ BasePriority[Alarm] # 0
      /\ BasePriority[Alarm] > BasePriority[Process]
  BY <1>1, <1>2, <1>5 DEF Sensor, Process, Alarm, IdlePriority
<1>7. QED
  BY <1>1, <1>2, <1>3, <1>4, <1>6
     DEF Sensor, Process, Alarm, SampleQueue, AlarmSem, IsIdle, IdlePriority

\* Its table.
LEMMA DemoTable ==
    /\ Length \in Nat \ {0} /\ Temperatures \in [1 .. Length -> Messages]
    /\ \A n : Reading(n) = Temperatures[(n % Length) + 1]
    /\ \A n \in Nat : n % Length \in 0 .. Length - 1 /\ Reading(n) \in Messages
<1>1. Temperatures \in Seq(Messages) /\ HotAmong(Length) > 1
  BY IpcDemoAssumption
<1>2. Length \in Nat /\ Temperatures \in [1 .. Length -> Messages]
  BY <1>1 DEF Length
<1>3. Length # 0
  <2>1. SUFFICES ASSUME Length = 0 PROVE FALSE
    OBVIOUS
  <2>2. {i \in 1 .. Length : Temperatures[i] \in HotOnes} = {}
    BY <2>1
  <2>3. HotAmong(Length) = 0
    BY <2>2, FS_EmptySet DEF HotAmong
  <2>4. QED
    BY <1>1, <2>3
<1>4. ASSUME NEW n \in Nat PROVE n % Length \in 0 .. Length - 1 /\ Reading(n) \in Messages
  <2> DEFINE r == n % Length
  <2>1. r \in 0 .. Length - 1
    BY <1>2, <1>3
  <2> HIDE DEF r
  <2>2. r + 1 \in 1 .. Length
    BY <1>2, <2>1
  <2>3. QED
    BY <1>2, <2>1, <2>2 DEF Reading, r
<1>5. QED
  BY <1>2, <1>3, <1>4 DEF Reading

\* The remainder of a division is unique.
LEMMA RemainderUnique ==
    ASSUME NEW N \in Nat \ {0}, NEW q \in Int, NEW p \in Int,
           NEW x \in 0 .. N - 1, NEW y \in 0 .. N - 1, N * q + x = N * p + y
    PROVE  x = y
<1>1. N * (q - p) = y - x
  OBVIOUS
<1>2. CASE q - p >= 1
  <2>1. N * (q - p) >= N
    BY <1>2
  <2>2. QED
    BY <1>1, <2>1
<1>3. CASE q - p <= -1
  <2>1. N * (q - p) <= -N
    BY <1>3
  <2>2. QED
    BY <1>1, <2>1
<1>4. CASE q - p = 0
  BY <1>1, <1>4
<1>5. QED
  BY <1>2, <1>3, <1>4

\* Going round a table: an index that is advanced and wrapped is the next number's.
LEMMA NextRemainder ==
    ASSUME NEW N \in Nat \ {0}, NEW n \in Nat
    PROVE  (n + 1) % N = IF (n % N) + 1 = N THEN 0 ELSE (n % N) + 1
<1> DEFINE q == n \div N
           r == n % N
           p == (n + 1) \div N
           s == (n + 1) % N
<1>1. n = N * q + r /\ r \in 0 .. N - 1 /\ q \in Int
  OBVIOUS
<1>2. n + 1 = N * p + s /\ s \in 0 .. N - 1 /\ p \in Int
  OBVIOUS
<1> HIDE DEF q, r, p, s
<1>3. CASE r + 1 = N
  <2>1. N * (q + 1) + 0 = N * p + s
    BY <1>1, <1>2, <1>3
  <2>2. s = 0
    BY <1>1, <1>2, <2>1, RemainderUnique
  <2>3. QED
    BY <1>3, <2>2 DEF r, s
<1>4. CASE r + 1 # N
  <2>1. N * q + (r + 1) = N * p + s /\ r + 1 \in 0 .. N - 1
    BY <1>1, <1>2, <1>4
  <2>2. s = r + 1
    BY <1>1, <1>2, <2>1, RemainderUnique
  <2>3. QED
    BY <1>4, <2>2 DEF r, s
<1>5. QED
  BY <1>3, <1>4

\* A number below the divisor is its own remainder.
LEMMA SmallRemainder ==
    ASSUME NEW N \in Nat \ {0}, NEW n \in 0 .. N - 1
    PROVE  n % N = n
<1> DEFINE q == n \div N
           r == n % N
<1>1. n = N * q + r /\ r \in 0 .. N - 1 /\ q \in Int
  OBVIOUS
<1> HIDE DEF q, r
<1>2. N * 0 + n = N * q + r
  BY <1>1
<1>3. n = r
  BY <1>1, <1>2, RemainderUnique
<1>4. QED
  BY <1>3 DEF r

\* An index that is advanced and wrapped.
LEMMA Wraps ==
    ASSUME NEW N \in Nat \ {0}, NEW n \in 0 .. N - 1
    PROVE  (n + 1) % N = IF n + 1 = N THEN 0 ELSE n + 1
<1> DEFINE r == n % N
           s == (n + 1) % N
<1>1. n \in Nat /\ r = n
  BY SmallRemainder
<1>2. s = IF r + 1 = N THEN 0 ELSE r + 1
  BY <1>1, NextRemainder
<1> HIDE DEF r, s
<1>3. s = IF n + 1 = N THEN 0 ELSE n + 1
  BY <1>1, <1>2
<1>4. QED
  BY <1>3 DEF s

\* The hot values among the first n of the table.
LEMMA HotCount ==
    /\ HotAmong(0) = 0 /\ HotAmong(Length) \in Nat /\ HotAmong(Length) > 1
    /\ \A n \in 0 .. Length : HotAmong(n) \in 0 .. HotAmong(Length)
    /\ \A n \in 0 .. Length - 1 :
          HotAmong(n + 1) = HotAmong(n) + One(Temperatures[n + 1] \in HotOnes)
<1> DEFINE S(n) == {i \in 1 .. n : Temperatures[i] \in HotOnes}
<1>1. HotAmong(Length) > 1 /\ Length \in Nat
  BY IpcDemoAssumption, DemoTable
<1>2. \A n \in Nat : IsFiniteSet(S(n)) /\ HotAmong(n) = Cardinality(S(n)) /\ HotAmong(n) \in Nat
  <2>1. SUFFICES ASSUME NEW n \in Nat
                 PROVE  IsFiniteSet(S(n)) /\ HotAmong(n) = Cardinality(S(n)) /\ HotAmong(n) \in Nat
    OBVIOUS
  <2>2. IsFiniteSet(1 .. n)
    BY FS_Interval
  <2>3. IsFiniteSet(S(n))
    BY <2>2, FS_Subset
  <2>4. QED
    BY <2>3, FS_CardinalityType DEF HotAmong
<1>3. HotAmong(0) = 0
  <2>1. S(0) = {}
    OBVIOUS
  <2>2. QED
    BY <1>2, <2>1, FS_EmptySet
<1>4. ASSUME NEW n \in 0 .. Length PROVE HotAmong(n) \in 0 .. HotAmong(Length)
  <2>1. S(n) \subseteq S(Length) /\ n \in Nat
    BY <1>1
  <2>2. Cardinality(S(n)) <= Cardinality(S(Length))
    BY <1>1, <1>2, <2>1, FS_Subset
  <2>3. QED
    BY <1>1, <1>2, <2>1, <2>2
<1>5. ASSUME NEW n \in 0 .. Length - 1
      PROVE  HotAmong(n + 1) = HotAmong(n) + One(Temperatures[n + 1] \in HotOnes)
  <2>1. n \in Nat /\ n + 1 \in Nat /\ n + 1 \notin S(n)
    BY <1>1
  <2>2. CASE Temperatures[n + 1] \in HotOnes
    <3>1. S(n + 1) = S(n) \cup {n + 1}
      BY <2>1, <2>2
    <3>2. Cardinality(S(n) \cup {n + 1}) = Cardinality(S(n)) + 1
      BY <1>2, <2>1, FS_AddElement
    <3>3. QED
      BY <1>2, <2>1, <2>2, <3>1, <3>2 DEF One
  <2>3. CASE Temperatures[n + 1] \notin HotOnes
    <3>1. S(n + 1) = S(n)
      BY <2>1, <2>3
    <3>2. HotAmong(n + 1) = HotAmong(n) /\ HotAmong(n) \in Nat
      BY <1>2, <2>1, <3>1
    <3>3. One(Temperatures[n + 1] \in HotOnes) = 0
      BY <2>3 DEF One
    <3>4. QED
      BY <3>2, <3>3
  <2>4. QED
    BY <2>2, <2>3
<1>6. HotAmong(Length) \in Nat
  BY <1>1, <1>2
<1>7. QED
  BY <1>1, <1>3, <1>4, <1>5, <1>6
-------------------------------------------------------------------------------
\* The sensor's index stays inside its table.
InTable == sampleIndex \in 0 .. Length - 1

\* Every step of the demo is one the kernel allows its applications, or the work
\* of a task between two calls.
LEMMA DemoStepIsStep ==
    ASSUME InTable, [DemoNext]_demoVars
    PROVE  [Next]_vars
<1>1. /\ Sensor \in Tasks /\ Process \in Tasks /\ Alarm \in Tasks /\ 3 \in Tasks /\ TaskCount - 1 = 3
      /\ SampleQueue \in Queues /\ AlarmSem \in Semaphores /\ WaitForever \in Timeouts
      /\ {FirstDelay, Period} \subseteq Delays
      /\ ~IsIdle(Sensor) /\ ~IsIdle(Process) /\ ~IsIdle(Alarm)
  BY DemoObjects
<1>2. CASE UNCHANGED demoVars
  BY <1>2 DEF demoVars
<1>3. CASE KernelPart
  BY <1>1, <1>3 DEF KernelPart, Next
<1>4. CASE SensorSleeps
  <2>1. Scheduling(Sensor)
    BY <1>1, <1>4 DEF SensorSleeps, Scheduling, queueVars
  <2>2. QED
    BY <1>1, <2>1 DEF Next
<1>5. CASE SensorSends
  <2>1. kernel.current = Sensor /\ Temperatures[sampleIndex + 1] \in Messages
    BY <1>5, DemoTable DEF SensorSends, Goes, InTable
  <2>2. QED
    BY <1>1, <1>5, <2>1 DEF SensorSends, Goes, UserCall, QueueCall, Next
<1>6. CASE SensorCounts \/ ProcessBegins \/ ProcessFinishes \/ AlarmBegins \/ AlarmFinishes
  BY <1>6 DEF SensorCounts, ProcessBegins, ProcessFinishes, AlarmBegins, AlarmFinishes
<1>7. CASE ProcessReceives
  BY <1>1, <1>7 DEF ProcessReceives, Goes, UserCall, QueueCall, Next
<1>8. CASE ProcessGives
  BY <1>1, <1>8 DEF ProcessGives, Goes, UserCall, SemCall, Next
<1>9. CASE AlarmTakes
  BY <1>1, <1>9 DEF AlarmTakes, Goes, UserCall, SemCall, Next
<1>10. QED
  BY <1>2, <1>3, <1>4, <1>5, <1>6, <1>7, <1>8, <1>9 DEF DemoNext, TaskCode

\* Every step keeps it there.
LEMMA AlwaysInTable == DemoSpec => []InTable
<1>1. Length \in Nat \ {0}
  BY DemoTable
<1>2. DemoInit => InTable
  BY <1>1 DEF DemoInit, InTable
<1>3. InTable /\ [DemoNext]_demoVars => InTable'
  <2> SUFFICES ASSUME InTable, [DemoNext]_demoVars PROVE InTable'
    OBVIOUS
  <2>1. SensorCounts => sampleIndex' = (sampleIndex + 1) % Length
    BY DEF SensorCounts
  <2>2. SensorSleeps \/ SensorSends \/ ProcessReceives \/ ProcessGives \/ AlarmTakes
        \/ AlarmFinishes \/ KernelPart \/ UNCHANGED demoVars => UNCHANGED progress
    BY DEF SensorSleeps, SensorSends, ProcessReceives, ProcessGives, AlarmTakes, AlarmFinishes,
           KernelPart, demoVars
  <2>3. ProcessBegins \/ ProcessFinishes \/ AlarmBegins => sampleIndex' = sampleIndex
    BY DEF ProcessBegins, ProcessFinishes, AlarmBegins, progress
  <2>4. sampleIndex' \in {sampleIndex, (sampleIndex + 1) % Length}
    BY <2>1, <2>2, <2>3 DEF DemoNext, TaskCode, progress
  <2>5. QED
    BY <1>1, <2>4 DEF InTable
<1>4. QED
  BY <1>2, <1>3, PTL DEF DemoSpec

\* The demo is an application of the kernel: whatever holds of every application holds
\* of its tasks, which sleep, send, receive, give and take in the order of their code.
THEOREM DemoIsApplication == DemoSpec => Spec
<1>1. DemoInit => Init
  BY DEF DemoInit
<1>2. QED
  BY <1>1, DemoStepIsStep, AlwaysInTable, PTL DEF DemoSpec, Spec

\* So the invariants of the kernel hold of it.
LEMMA DemoKernel == DemoSpec => [](SafeInv /\ PriorityInv(kernel) /\ RingsAgree)
BY DemoIsApplication, AlwaysPriorities, AlwaysInOrder, PTL
-------------------------------------------------------------------------------
\* What the kernel's invariant says of the demo's tasks and objects.
LEMMA DemoFields ==
    ASSUME SafeInv
    PROVE  /\ KernelInv(kernel) /\ Supplies /\ Sound(kernel) /\ Consistent(kernel, {})
           /\ kernel.waitOn \in [Tasks -> WaitLists \cup {NoWait}] /\ NoWait \notin WaitLists
           /\ kernel.state \in [Tasks -> TaskStates]
           /\ \A t \in Tasks : Waiting(t) <=> kernel.state[t] = "BLOCKED_OBJECT"
           /\ \A t \in Tasks : kernel.current = t =>
                 kernel.started /\ kernel.state[t] = "RUNNING" /\ ~Waiting(t) /\ CurrentRuns(kernel)
           /\ ring \in [Queues -> UNION {Ring(q) : q \in Queues}]
           /\ ring[SampleQueue] \in Ring(SampleQueue)
           /\ buffer \in [Tasks -> Messages \cup {NoMessage}]
           /\ semCount \in [Semaphores -> Nat]
<1>1. KernelInv(kernel) /\ Supplies /\ Sound(kernel) /\ Consistent(kernel, {})
  BY DEF SafeInv, KernelInv, Sound
<1>2. kernel \in GoodKernel /\ StatesAgree(kernel, {})
  BY <1>1 DEF Consistent
<1>3. /\ kernel.waitOn \in [Tasks -> WaitLists \cup {NoWait}] /\ NoWait \notin WaitLists
      /\ kernel.state \in [Tasks -> TaskStates] /\ NoTask \notin Tasks
  BY <1>2, FieldTypes
<1>4. \A t \in Tasks : Waiting(t) <=> kernel.state[t] = "BLOCKED_OBJECT"
  BY <1>2 DEF StatesAgree, Waiting
<1>5. ASSUME NEW t \in Tasks, kernel.current = t
      PROVE  kernel.started /\ kernel.state[t] = "RUNNING" /\ ~Waiting(t) /\ CurrentRuns(kernel)
  <2>1. kernel.current # NoTask
    BY <1>3, <1>5
  <2>2. kernel.started /\ kernel.state[t] = "RUNNING"
    BY <1>1, <1>5, <2>1 DEF Sound, KernelInv
  <2>3. QED
    BY <1>4, <1>5, <2>1, <2>2 DEF CurrentRuns
<1>6. /\ ring \in [Queues -> UNION {Ring(q) : q \in Queues}] /\ \A q \in Queues : ring[q] \in Ring(q)
      /\ buffer \in [Tasks -> Messages \cup {NoMessage}] /\ semCount \in [Semaphores -> Nat]
  BY DEF SafeInv, TypeInv, QueueType, SemType
<1>7. SampleQueue \in Queues
  BY DemoObjects
<1>8. QED
  BY <1>1, <1>3, <1>4, <1>5, <1>6, <1>7

\* The lists the demo's tasks wait on.
LEMMA DemoLists ==
    LET a == SemWaiters(AlarmSem)
        s == SendWaiters(SampleQueue)
        r == ReceiveWaiters(SampleQueue)
    IN /\ {a, s, r} \subseteq WaitLists /\ a # s /\ a # r /\ s # r
       /\ \A m \in Mutexes : MutexWaiters(m) \notin {a, s, r}
       /\ \A l \in {a, s, r} : l # NoWait
BY DemoObjects, ListsDiffer DEF SemWaiters, SendWaiters, ReceiveWaiters, NoWait

\* Nobody inherits without mutexes.  So Alarm waits for its semaphore when Process has
\* the processor.
LEMMA AlarmStandsBy ==
    ASSUME SafeInv, PriorityInv(kernel), Standing, kernel.current = Process
    PROVE  Waiting(Alarm)
<1>1. Alarm \in Tasks /\ Process \in Tasks /\ Alarm # Process /\ Mutexes = {}
      /\ BasePriority[Alarm] > BasePriority[Process]
  BY DemoObjects
<1>2. /\ Consistent(kernel, {}) /\ kernel.started /\ kernel.state[Process] = "RUNNING"
      /\ \A t \in Tasks : Waiting(t) <=> kernel.state[t] = "BLOCKED_OBJECT"
  BY <1>1, DemoFields
<1>3. WaitGraph(kernel, {}) \in WaitGraphs /\ kernel.effective \in Wishes
  BY <1>2, GraphTypes
<1>4. ASSUME NEW t \in Tasks PROVE kernel.effective[t] = BasePriority[t]
  <2>1. WaitGraph(kernel, {})[t] = {}
    BY <1>1 DEF WaitGraph
  <2>2. Inherited(kernel.effective, WaitGraph(kernel, {}))
    BY DEF PriorityInv, Exactly
  <2>3. QED
    BY <1>3, <2>1, <2>2, InheritedAlone
<1>5. BasePriority[Alarm] \in Int /\ BasePriority[Process] \in Int
  BY <1>1, OsKernelAssumption DEF Priorities
<1>6. kernel.state[Alarm] # "READY"
  <2>1. SUFFICES ASSUME kernel.state[Alarm] = "READY" PROVE FALSE
    OBVIOUS
  <2>2. kernel.effective[Alarm] <= kernel.effective[Process]
    BY <1>1, <1>2, <2>1 DEF PriorityInv, Highest
  <2>3. QED
    BY <1>1, <1>4, <1>5, <2>2
<1>7. kernel.state[Alarm] # "RUNNING"
  BY <1>1, <1>2 DEF Consistent, OneRuns
<1>8. QED
  BY <1>1, <1>2, <1>6, <1>7 DEF Standing

\* The Idle task never waits.
LEMMA IdleNeverWaits ==
    ASSUME SafeInv, PriorityInv(kernel)
    PROVE  ~Waiting(3)
<1>1. 3 \in Tasks /\ IsIdle(3)
  BY DemoObjects
<1>2. kernel.state[3] \in {"READY", "RUNNING"}
  BY <1>1 DEF PriorityInv, IdleApart
<1>3. QED
  BY <1>1, <1>2, DemoFields

\* Who heads a list of the demo: the only task that may wait there.
LEMMA WhoWaits ==
    ASSUME SafeInv, PriorityInv(kernel), Standing, NEW w \in Tasks
    PROVE  /\ kernel.waitOn[w] = SendWaiters(SampleQueue) => w = Sensor
           /\ kernel.waitOn[w] = ReceiveWaiters(SampleQueue) => w = Process
           /\ kernel.waitOn[w] = SemWaiters(AlarmSem) => w = Alarm
<1>1. w \in {Sensor, Process, Alarm, 3}
  BY DemoObjects
<1>2. ~Waiting(3)
  BY IdleNeverWaits
<1>3. QED
  BY <1>1, <1>2, DemoLists DEF Standing, Waiting

\* A step in which no other task gets a deadline, and the caller's wait has none.
LEMMA StillEndless ==
    ASSUME SafeInv, SafeInv', Endless, NEW c,
           \A u \in Tasks : u # c => Calm(kernel, kernel', u),
           \A u \in Tasks : u = c /\ Waiting(u)' => ~DelayLinked(kernel', u)
    PROVE  Endless'
<1>1. SUFFICES ASSUME NEW t \in Tasks, Waiting(t)', t # c
               PROVE  ~DelayLinked(kernel', t)
  BY DEF Endless
<1>2. kernel'.state[t] = "BLOCKED_OBJECT"
  <2>1. Consistent(kernel', {})
    BY DEF SafeInv, KernelInv, Sound
  <2>2. QED
    BY <1>1, <2>1 DEF Consistent, StatesAgree, Waiting
<1>3. kernel.state[t] = "BLOCKED_OBJECT" /\ (DelayLinked(kernel', t) => DelayLinked(kernel, t))
  BY <1>1, <1>2 DEF Calm
<1>4. Waiting(t)
  BY <1>3, DemoFields
<1>5. QED
  BY <1>3, <1>4 DEF Endless

\* A task that neither sleeps nor has ended.
Active(k, u) == k.state[u] \in {"READY", "RUNNING", "BLOCKED_OBJECT"}

\* Nobody else's handler puts it to sleep or ends it.
LEMMA StillActive ==
    ASSUME NEW k, NEW r, NEW joined, NEW granted, Fates(k, r, joined, granted),
           NEW u \in Tasks, ~Leaves(k, r, u), Active(k, u)
    PROVE  Active(r, u)
<1>1. Kept(k, r, u) \/ TimedOut(k, r, u) \/ \E l : Ended(k, r, u, l, "OK")
  BY DEF Fates
<1>2. QED
  BY <1>1 DEF Kept, TimedOut, Ended, Active

\* Waits without a deadline that are not granted go on.
LEMMA StillWaiting ==
    ASSUME NEW k, Consistent(k, {}), NEW r, NEW joined, NEW granted, Fates(k, r, joined, granted),
           NEW u \in Tasks, ~Leaves(k, r, u) \/ joined = {}, k.waitOn[u] \notin granted,
           k.waitOn[u] # NoWait => ~DelayLinked(k, u)
    PROVE  r.waitOn[u] = k.waitOn[u]
<1>1. k.waitOn[u] # NoWait <=> k.state[u] = "BLOCKED_OBJECT"
  BY DEF Consistent, StatesAgree
<1>2. CASE Kept(k, r, u)
  BY <1>2 DEF Kept
<1>3. CASE TimedOut(k, r, u)
  BY <1>1, <1>3 DEF TimedOut
<1>4. CASE \E l \in granted : Ended(k, r, u, l, "OK")
  BY <1>4 DEF Ended
<1>5. CASE Leaves(k, r, u) /\ r.waitOn[u] \in {k.waitOn[u]} \cup joined
  BY <1>5
<1>6. QED
  BY <1>2, <1>3, <1>4, <1>5 DEF Fates
-------------------------------------------------------------------------------
\* A handler that ends no wait, gives none a deadline and leaves Alarm where it was.
Quiet(k, r) ==
    /\ \A u \in Tasks : Calm(k, r, u)
    /\ Fates(k, r, {}, {})
    /\ ~Leaves(k, r, Alarm)

\* os_SchedStart.
LEMMA StartIsQuiet ==
    ASSUME SafeInv, SchedStart
    PROVE  Quiet(kernel, kernel')
<1> DEFINE j == [kernel EXCEPT !.started = TRUE]
<1>1. Handled(kernel, kernel', {}, {})
  BY StartHandled DEF SafeInv
<1>2. Consistent(kernel, {}) /\ kernel \in GoodKernel /\ kernel \in Kernel /\ kernel.current = NoTask
      /\ NoTask \notin Tasks
  <2>1. Consistent(kernel, {}) /\ kernel.current = NoTask
    BY DEF SafeInv, KernelInv, Sound, SchedStart
  <2>2. QED
    BY <2>1, FieldTypes DEF Consistent, GoodKernel
<1>3. /\ j.state = kernel.state /\ j.result = kernel.result /\ j.current = kernel.current
      /\ j.delayed = kernel.delayed /\ j.overflow = kernel.overflow
      /\ j.ready = kernel.ready /\ j.waiters = kernel.waiters /\ j.effective = kernel.effective
      /\ j.waitOn = kernel.waitOn
  BY <1>2 DEF Kernel
<1>4. j \in GoodKernel
  BY <1>2 DEF GoodKernel, Kernel
<1>5. kernel' = SwitchToHighest(j)
  BY DEF SchedStart
<1> HIDE DEF j
<1>6. Consistent(j, {}) /\ \A t \in Tasks : j.state[t] # "RUNNING"
  <2>1. Consistent(j, {})
    BY <1>2, <1>3, <1>4, FreeChange
  <2>2. QED
    BY <1>2, <1>3, <2>1 DEF Consistent, OneRuns
<1>7. OnlySchedules(j, kernel')
  BY <1>5, <1>6, SwitchToHighestSound
<1>8. \A u \in Tasks : Calm(j, kernel', u)
  BY <1>7, SchedulingIsCalm
<1>9. \A u \in Tasks : Calm(kernel, kernel', u)
  BY <1>3, <1>8 DEF Calm, DelayLinked
<1>10. ~Leaves(kernel, kernel', Alarm)
  BY <1>2, DemoObjects DEF Leaves
<1>11. QED
  BY <1>1, <1>9, <1>10 DEF Quiet, Handled

\* os_TimeTick.
LEMMA TickIsQuiet ==
    ASSUME SafeInv, Tick
    PROVE  Quiet(kernel, kernel')
<1>1. Handled(kernel, kernel', {}, {})
  BY TickHandled DEF SafeInv
<1>2. /\ \A u \in Tasks : Kept(kernel, kernel', u) \/ TimedOut(kernel, kernel', u)
      /\ \A u \in Tasks : Calm(kernel, kernel', u)
  BY TimeTickSound DEF Tick, SafeInv, KernelInv
<1>3. Alarm \in Tasks
  BY DemoObjects
<1>4. ~Leaves(kernel, kernel', Alarm)
  BY <1>2, <1>3 DEF Kept, TimedOut, Leaves
<1>5. QED
  BY <1>1, <1>2, <1>4 DEF Quiet, Handled

\* vTaskYield.
LEMMA YieldIsQuiet ==
    ASSUME SafeInv, NEW t, TaskYield(t)
    PROVE  Quiet(kernel, kernel')
<1>1. Handled(kernel, kernel', {}, {})
  BY YieldHandled DEF SafeInv
<1>2. OnlySchedules(kernel, kernel')
  BY SchedYieldCurrentSound DEF SafeInv, KernelInv, TaskYield
<1>3. Alarm \in Tasks
  BY DemoObjects
<1>4. ~Leaves(kernel, kernel', Alarm)
  BY <1>2, <1>3 DEF OnlySchedules, Leaves
<1>5. \A u \in Tasks : Calm(kernel, kernel', u)
  BY <1>2, SchedulingIsCalm
<1>6. QED
  BY <1>1, <1>4, <1>5 DEF Quiet, Handled

\* vTaskDelay, of another task.
LEMMA DelayIsQuiet ==
    ASSUME SafeInv, NEW t, t # Alarm, NEW ticks \in Ticks \ {0}, TaskDelay(t, ticks)
    PROVE  Quiet(kernel, kernel')
<1>1. /\ t = kernel.current /\ CurrentRuns(kernel) /\ Sound(kernel)
      /\ kernel' = SchedCurrentBlocked(
             TimeDelayListInsert([kernel EXCEPT !.state[t] = "BLOCKED_DELAY"], t,
                                 (kernel.tick + Clamp(ticks)) % TickModulus))
  BY DEF TaskDelay, SafeInv, KernelInv
<1>2. Fates(kernel, kernel', {}, {}) /\ \A u \in Tasks : Calm(kernel, kernel', u)
  BY <1>1, DelaySound
<1>3. ~Leaves(kernel, kernel', Alarm)
  BY <1>1 DEF Leaves
<1>4. QED
  BY <1>2, <1>3 DEF Quiet

\* The kernel's own steps, and the sensor's sleep.
LEMMA QuietStep ==
    ASSUME SafeInv, KernelPart \/ SensorSleeps
    PROVE  Quiet(kernel, kernel') /\ UNCHANGED objects
<1>1. /\ Sensor # Alarm /\ IsIdle(3) /\ TaskCount - 1 = 3
      /\ {FirstDelay, Period} \subseteq Ticks \ {0}
  BY DemoObjects
<1>2. CASE KernelPart
  <2>1. CASE Start
    BY <2>1, StartIsQuiet DEF Start, objects
  <2>2. CASE Timer
    BY <2>2, TickIsQuiet DEF Timer, objects
  <2>3. CASE Scheduling(3)
    BY <1>1, <2>3, YieldIsQuiet DEF Scheduling, objects
  <2>4. QED
    BY <1>1, <1>2, <2>1, <2>2, <2>3 DEF KernelPart
<1>3. CASE SensorSleeps
  BY <1>1, <1>3, DelayIsQuiet DEF SensorSleeps, queueVars, objects
<1>4. QED
  BY <1>2, <1>3

\* What such a step leaves: every wait, and Alarm's activity.
LEMMA QuietKeeps ==
    ASSUME SafeInv, SafeInv', Standing, Quiet(kernel, kernel')
    PROVE  /\ \A u \in Tasks : kernel'.waitOn[u] = kernel.waitOn[u]
           /\ Endless' /\ Active(kernel', Alarm)
<1>1. Consistent(kernel, {}) /\ Alarm \in Tasks
  BY DemoFields, DemoObjects
<1>2. Endless /\ Active(kernel, Alarm)
  BY DEF Standing, Active
<1>3. \A u \in Tasks : kernel'.waitOn[u] = kernel.waitOn[u]
  <2>1. SUFFICES ASSUME NEW u \in Tasks PROVE kernel'.waitOn[u] = kernel.waitOn[u]
    OBVIOUS
  <2>2. kernel.waitOn[u] # NoWait => ~DelayLinked(kernel, u)
    BY <1>2 DEF Endless, Waiting
  <2>3. QED
    BY <1>1, <2>2, StillWaiting DEF Quiet
<1>4. Endless'
  <2>1. \A u \in Tasks : u # NoTask
    BY DemoObjects DEF NoTask, Sensor, Process, Alarm
  <2>2. QED
    BY <1>2, <2>1, StillEndless DEF Quiet
<1>5. QED
  BY <1>1, <1>2, <1>3, <1>4, StillActive DEF Quiet
-------------------------------------------------------------------------------
\* A task that blocks for ever waits without a deadline.
LEMMA BlocksForEver ==
    ASSUME SafeInv, NEW t \in Tasks, kernel.current = t, NEW l \in WaitLists,
           kernel' = WaitBlockCurrent(kernel, l, WaitForever)
    PROVE  /\ kernel'.waitOn = [kernel.waitOn EXCEPT ![t] = l]
           /\ ~DelayLinked(kernel', t) /\ kernel'.state[t] = "BLOCKED_OBJECT"
<1>1. Sound(kernel) /\ Consistent(kernel, {}) /\ CurrentRuns(kernel) /\ kernel.state[t] = "RUNNING"
  BY DemoFields
<1>2. WaitForever \in Ticks /\ WaitForever # 0
  BY DemoObjects
<1>3. /\ Blocks(kernel, kernel', t, l)
      /\ \A u \in Tasks : DelayLinked(kernel', u) <=> DelayLinked(kernel, u)
  BY <1>1, <1>2, WaitBlockCurrentSound
<1>4. ~DelayLinked(kernel, t)
  BY <1>1 DEF Consistent, StatesAgree
<1>5. QED
  BY <1>3, <1>4 DEF Blocks

\* A caller that is told OK and does not wait.
LEMMA ToldOK ==
    ASSUME SafeInv, NEW t \in Tasks, kernel.current = t, NEW l \in WaitLists, WaitHead(kernel, l) = NoTask,
           kernel' = SetResult(WaitPop(kernel, l), t, "OK")
    PROVE  kernel'.waitOn = kernel.waitOn
<1>1. KernelInv(kernel) /\ Consistent(kernel, {}) /\ "OK" \in Statuses
  BY DemoFields DEF Statuses
<1>2. WaitPop(kernel, l) = kernel
  BY <1>1, NothingToPop
<1>3. kernel' = SetResult(kernel, t, "OK")
  BY <1>2
<1>4. kernel \in Kernel
  BY <1>1 DEF Consistent, GoodKernel
<1>5. QED
  BY <1>3, <1>4 DEF SetResult, Kernel

\* What comes of a send: the message is handed to Process, or put in the ring, or the
\* sensor waits with it.
Sent(m) ==
    \/ /\ Waiting(Process) /\ kernel'.waitOn = [kernel.waitOn EXCEPT ![Process] = NoWait]
       /\ ring[SampleQueue].count = 0 /\ ring' = ring
       /\ buffer' = [[buffer EXCEPT ![Sensor] = m] EXCEPT ![Process] = m]
    \/ /\ kernel'.waitOn = kernel.waitOn
       /\ ring'[SampleQueue].count = ring[SampleQueue].count + 1
       /\ QueueSnapshot(SampleQueue)' = Append(QueueSnapshot(SampleQueue), m)
       /\ buffer' = [buffer EXCEPT ![Sensor] = m]
    \/ /\ kernel'.waitOn = [kernel.waitOn EXCEPT ![Sensor] = SendWaiters(SampleQueue)]
       /\ ring' = ring /\ buffer' = [buffer EXCEPT ![Sensor] = m]

\* os_QueueSendCurrent, of the sensor.
LEMMA SensorSent ==
    ASSUME SafeInv, PriorityInv(kernel), RingsAgree, Standing, kernel.current = Sensor,
           NEW m \in Messages, QueueSend(SampleQueue, m, WaitForever)
    PROVE  Sent(m) /\ (Waiting(Sensor)' => ~DelayLinked(kernel', Sensor))
<1> DEFINE q == SampleQueue
           l == ReceiveWaiters(q)
           w == WaitHead(kernel, l)
           Goal == Sent(m) /\ (Waiting(Sensor)' => ~DelayLinked(kernel', Sensor))
<1>1. /\ Sensor \in Tasks /\ Process \in Tasks /\ Sensor # Process /\ q \in Queues /\ WaitForever # 0
      /\ \A n \in Mutexes : MutexWaiters(n) # l
      /\ l \in WaitLists /\ SendWaiters(q) \in WaitLists /\ l # NoWait
  BY DemoObjects, DemoLists
<1>2. /\ KernelInv(kernel) /\ Supplies /\ CurrentRuns(kernel) /\ ~Waiting(Sensor)
      /\ ring[q] \in Ring(q) /\ ring \in [Queues -> UNION {Ring(p) : p \in Queues}]
      /\ kernel.waitOn \in [Tasks -> WaitLists \cup {NoWait}]
  BY <1>1, DemoFields
<1>3. Capacity[q] \in Nat \ {0} /\ ring[q].count \in Nat /\ RingAgrees(ring[q], q)
  BY <1>1, <1>2, RingFields DEF RingsAgree
<1>4. ASSUME w # NoTask, buffer' = [[buffer EXCEPT ![Sensor] = m] EXCEPT ![w] = m],
             kernel' = WaitMaybePreempt(WaitMakeReady(
                           SetResult(WaitPop(kernel, l), Sensor, "OK"), w, "OK"), w),
             UNCHANGED ring
      PROVE  Goal
  <2>1. /\ w \in Tasks /\ kernel.waitOn[w] = l
        /\ kernel'.waitOn = [kernel.waitOn EXCEPT ![w] = NoWait]
    BY <1>1, <1>2, <1>4, ServingCall
  <2> HIDE DEF w
  <2>2. w = Process /\ Waiting(Process)
    BY <1>1, <2>1, WhoWaits DEF Waiting
  <2>3. ring[q].count = 0
    <3>1. ~NobodyWaits(kernel, l)
      BY <2>1 DEF NobodyWaits
    <3>2. ~(ring[q].count > 0)
      BY <1>1, <1>2, <3>1 DEF Supplies
    <3>3. QED
      BY <1>3, <3>2
  <2>4. Sent(m)
    BY <1>4, <2>1, <2>2, <2>3 DEF Sent
  <2>5. ~Waiting(Sensor)'
    BY <1>1, <1>2, <2>1, <2>2 DEF Waiting
  <2>6. QED
    BY <2>4, <2>5
<1>5. ASSUME w = NoTask, ring[q].count < Capacity[q], ring' = [ring EXCEPT ![q] = Put(@, q, m)],
             buffer' = [buffer EXCEPT ![Sensor] = m],
             kernel' = SetResult(WaitPop(kernel, l), Sensor, "OK")
      PROVE  Goal
  <2>1. kernel'.waitOn = kernel.waitOn
    BY <1>1, <1>5, ToldOK
  <2>2. ring'[q] = Put(ring[q], q, m)
    BY <1>1, <1>2, <1>5
  <2>3. /\ Snapshot(Put(ring[q], q, m), q) = Append(Snapshot(ring[q], q), m)
        /\ Put(ring[q], q, m).count = ring[q].count + 1
    BY <1>1, <1>2, <1>3, <1>5, PutAppends, RingCounts
  <2>4. QueueSnapshot(q)' = Append(QueueSnapshot(q), m)
    BY <1>1, <2>2, <2>3, SnapshotOfRing
  <2>5. Sent(m)
    BY <1>5, <2>1, <2>2, <2>3, <2>4 DEF Sent
  <2>6. ~Waiting(Sensor)'
    BY <1>2, <2>1 DEF Waiting
  <2>7. QED
    BY <2>5, <2>6
<1>6. ASSUME UNCHANGED ring, buffer' = [buffer EXCEPT ![Sensor] = m],
             kernel' = WaitBlockCurrent(kernel, SendWaiters(q), WaitForever)
      PROVE  Goal
  <2>1. /\ kernel'.waitOn = [kernel.waitOn EXCEPT ![Sensor] = SendWaiters(q)]
        /\ ~DelayLinked(kernel', Sensor)
    BY <1>1, <1>6, BlocksForEver
  <2>2. QED
    BY <1>6, <2>1 DEF Sent
<1>7. QED
  BY <1>1, <1>4, <1>5, <1>6 DEF QueueSend

\* What comes of a receive: Process has the oldest message, and its slot is refilled
\* with that of the waiting sensor; or Process waits.
Received ==
    LET snap == QueueSnapshot(SampleQueue) IN
    \/ /\ Waiting(Sensor) /\ kernel'.waitOn = [kernel.waitOn EXCEPT ![Sensor] = NoWait]
       /\ ring[SampleQueue].count > 0 /\ ring'[SampleQueue].count = ring[SampleQueue].count
       /\ snap' = Append(Tail(snap), buffer[Sensor])
       /\ buffer' = [buffer EXCEPT ![Process] = Head(snap)]
    \/ /\ kernel'.waitOn = kernel.waitOn
       /\ ring[SampleQueue].count > 0 /\ ring'[SampleQueue].count = ring[SampleQueue].count - 1
       /\ snap' = Tail(snap)
       /\ buffer' = [buffer EXCEPT ![Process] = Head(snap)]
    \/ /\ kernel'.waitOn = [kernel.waitOn EXCEPT ![Process] = ReceiveWaiters(SampleQueue)]
       /\ ring' = ring /\ buffer' = buffer

\* os_QueueReceiveCurrent, of Process.
LEMMA ProcessReceived ==
    ASSUME SafeInv, PriorityInv(kernel), RingsAgree, Standing, kernel.current = Process,
           QueueReceive(SampleQueue, WaitForever)
    PROVE  Received /\ (Waiting(Process)' => ~DelayLinked(kernel', Process))
<1> DEFINE q == SampleQueue
           l == SendWaiters(q)
           w == WaitHead(kernel, l)
           taken == TakeHead(ring[q], q)
           Goal == Received /\ (Waiting(Process)' => ~DelayLinked(kernel', Process))
<1>1. /\ Sensor \in Tasks /\ Process \in Tasks /\ Sensor # Process /\ q \in Queues /\ WaitForever # 0
      /\ \A n \in Mutexes : MutexWaiters(n) # l
      /\ l \in WaitLists /\ ReceiveWaiters(q) \in WaitLists /\ l # NoWait
  BY DemoObjects, DemoLists
<1>2. /\ KernelInv(kernel) /\ CurrentRuns(kernel) /\ ~Waiting(Process)
      /\ ring[q] \in Ring(q) /\ ring \in [Queues -> UNION {Ring(p) : p \in Queues}]
      /\ kernel.waitOn \in [Tasks -> WaitLists \cup {NoWait}]
      /\ buffer \in [Tasks -> Messages \cup {NoMessage}]
  BY <1>1, DemoFields
<1>3. Capacity[q] \in Nat \ {0} /\ ring[q].count \in Nat /\ RingAgrees(ring[q], q)
  BY <1>1, <1>2, RingFields DEF RingsAgree
<1>4. ring[q].count > 0 =>
          /\ taken \in Ring(q) /\ RingAgrees(taken, q) /\ taken.count < Capacity[q]
          /\ taken.count = ring[q].count - 1
          /\ Snapshot(taken, q) = Tail(Snapshot(ring[q], q))
          /\ ring[q].slots[ring[q].head] = Head(Snapshot(ring[q], q))
  BY <1>1, <1>2, <1>3, TakeRemovesHead, RingCounts
<1>5. QueueSnapshot(q) = Snapshot(ring[q], q) /\ QueueSnapshot(q)' = Snapshot(ring'[q], q)
  BY <1>1, SnapshotOfRing
<1> HIDE DEF taken
<1>6. ASSUME w # NoTask, ring[q].count > 0,
             buffer' = [buffer EXCEPT ![Process] = ring[q].slots[ring[q].head]],
             ring' = [ring EXCEPT ![q] = Put(taken, q, buffer[w])],
             kernel' = WaitMaybePreempt(WaitMakeReady(
                           SetResult(WaitPop(kernel, l), Process, "OK"), w, "OK"), w)
      PROVE  Goal
  <2>1. /\ w \in Tasks /\ kernel.waitOn[w] = l
        /\ kernel'.waitOn = [kernel.waitOn EXCEPT ![w] = NoWait]
    BY <1>1, <1>2, <1>6, ServingCall
  <2> HIDE DEF w
  <2>2. w = Sensor /\ Waiting(Sensor)
    BY <1>1, <2>1, WhoWaits DEF Waiting
  <2>3. ring'[q] = Put(taken, q, buffer[Sensor])
    BY <1>1, <1>2, <1>6, <2>2
  <2>4. /\ Snapshot(Put(taken, q, buffer[Sensor]), q) = Append(Snapshot(taken, q), buffer[Sensor])
        /\ Put(taken, q, buffer[Sensor]).count = taken.count + 1
    <3>1. buffer[Sensor] \in Messages \cup {NoMessage}
      BY <1>1, <1>2
    <3>2. QED
      BY <1>1, <1>4, <1>6, <3>1, PutAppends, RingCounts
  <2>5. ring'[q].count = ring[q].count
    BY <1>3, <1>4, <1>6, <2>3, <2>4
  <2>6. /\ QueueSnapshot(q)' = Append(Tail(QueueSnapshot(q)), buffer[Sensor])
        /\ buffer' = [buffer EXCEPT ![Process] = Head(QueueSnapshot(q))]
    BY <1>4, <1>5, <1>6, <2>3, <2>4
  <2>7. Received
    BY <1>6, <2>1, <2>2, <2>5, <2>6 DEF Received
  <2>8. ~Waiting(Process)'
    BY <1>1, <1>2, <2>1, <2>2 DEF Waiting
  <2>9. QED
    BY <2>7, <2>8
<1>7. ASSUME w = NoTask, ring[q].count > 0, ring' = [ring EXCEPT ![q] = taken],
             buffer' = [buffer EXCEPT ![Process] = ring[q].slots[ring[q].head]],
             kernel' = SetResult(WaitPop(kernel, l), Process, "OK")
      PROVE  Goal
  <2>1. kernel'.waitOn = kernel.waitOn
    BY <1>1, <1>7, ToldOK
  <2>2. ring'[q] = taken
    BY <1>1, <1>2, <1>7
  <2>3. Received
    BY <1>4, <1>5, <1>7, <2>1, <2>2 DEF Received
  <2>4. ~Waiting(Process)'
    BY <1>2, <2>1 DEF Waiting
  <2>5. QED
    BY <2>3, <2>4
<1>8. ASSUME UNCHANGED <<ring, buffer>>,
             kernel' = WaitBlockCurrent(kernel, ReceiveWaiters(q), WaitForever)
      PROVE  Goal
  <2>1. /\ kernel'.waitOn = [kernel.waitOn EXCEPT ![Process] = ReceiveWaiters(q)]
        /\ ~DelayLinked(kernel', Process)
    BY <1>1, <1>8, BlocksForEver
  <2>2. QED
    BY <1>8, <2>1 DEF Received
<1>9. QED
  BY <1>1, <1>6, <1>7, <1>8 DEF QueueReceive, taken
-------------------------------------------------------------------------------
\* os_SemGiveCurrent, of Process: Alarm has the permit, and it is not counted.
LEMMA ProcessGave ==
    ASSUME SafeInv, PriorityInv(kernel), Standing, kernel.current = Process, SemGive(AlarmSem)
    PROVE  /\ kernel.waitOn[Alarm] = SemWaiters(AlarmSem)
           /\ kernel'.waitOn = [kernel.waitOn EXCEPT ![Alarm] = NoWait] /\ semCount' = semCount
           /\ ~Waiting(Process)'
<1> DEFINE l == SemWaiters(AlarmSem)
           w == WaitHead(kernel, l)
           r == WaitMakeReady(WaitPop(kernel, l), w, "OK")
           j == SetResult(r, Process, "OK")
<1>1. /\ Process \in Tasks /\ Alarm \in Tasks /\ Process # Alarm /\ AlarmSem \in Semaphores
      /\ l \in WaitLists /\ l # NoWait /\ \A m \in Mutexes : l # MutexWaiters(m)
  BY DemoObjects, DemoLists
<1>2. /\ Sound(kernel) /\ Consistent(kernel, {}) /\ semCount \in [Semaphores -> Nat] /\ ~Waiting(Process)
      /\ kernel.waitOn \in [Tasks -> WaitLists \cup {NoWait}]
  BY <1>1, DemoFields
<1>3. kernel.waitOn[Alarm] = l
  BY AlarmStandsBy DEF Standing
<1> HIDE DEF l
<1>4. w # NoTask /\ w \in Tasks /\ kernel.waitOn[w] = l
  <2>1. w = NoTask => \A u \in Tasks : kernel.waitOn[u] # l
    BY <1>1, <1>2, WaitPopExact
  <2>2. w # NoTask => w \in Tasks /\ kernel.waitOn[w] = l
    BY <1>1, <1>2, WaitPopExact
  <2>3. QED
    BY <1>1, <1>3, <2>1, <2>2
<1>5. w = Alarm
  BY <1>4, WhoWaits DEF l
<1>6. Sound(r) /\ Served(kernel, r, w)
  BY <1>1, <1>2, <1>4, GrantServes
<1>7. /\ semCount' = [semCount EXCEPT ![AlarmSem] = semCount[AlarmSem]]
      /\ kernel' = WaitMaybePreempt(j, w)
  BY <1>4 DEF SemGive, GiveOutcome, l
<1> HIDE DEF r, w
<1>8. Sound(j) /\ Served(kernel, j, w)
  BY <1>1, <1>6, ServedThenStatus DEF Statuses
<1> HIDE DEF j
<1>9. OnlySchedules(j, kernel')
  BY <1>7, <1>8, WaitMaybePreemptSound
<1>10. kernel'.waitOn = [kernel.waitOn EXCEPT ![Alarm] = NoWait]
  BY <1>5, <1>8, <1>9 DEF OnlySchedules, Served
<1>11. semCount' = semCount
  BY <1>1, <1>2, <1>7
<1>12. QED
  BY <1>1, <1>2, <1>3, <1>10, <1>11 DEF Waiting, l

\* os_SemTakeCurrent, of Alarm: no permit is counted, so it waits.
LEMMA AlarmTook ==
    ASSUME SafeInv, Standing, kernel.current = Alarm, SemTake(AlarmSem, WaitForever)
    PROVE  /\ kernel'.waitOn = [kernel.waitOn EXCEPT ![Alarm] = SemWaiters(AlarmSem)]
           /\ ~DelayLinked(kernel', Alarm) /\ Active(kernel', Alarm) /\ semCount' = semCount
<1>1. Alarm \in Tasks /\ WaitForever # 0 /\ SemWaiters(AlarmSem) \in WaitLists
  BY DemoObjects, DemoLists
<1>2. kernel' = WaitBlockCurrent(kernel, SemWaiters(AlarmSem), WaitForever) /\ semCount' = semCount
  BY <1>1 DEF SemTake, Standing
<1>3. QED
  BY <1>1, <1>2, BlocksForEver DEF Active

\* What a call leaves alone: the other tasks' waits get no deadline, and Alarm sleeps
\* for nobody's call.
LEMMA CallKeeps ==
    ASSUME SafeInv, SafeInv', Standing, NEW t \in Tasks, kernel.current = t, UserCall(t),
           Waiting(t)' => ~DelayLinked(kernel', t)
    PROVE  Endless' /\ (t # Alarm => Active(kernel', Alarm))
<1>1. Alarm \in Tasks /\ Endless /\ Active(kernel, Alarm)
  BY DemoObjects DEF Standing, Active
<1>2. \A u \in Tasks : u # t => Calm(kernel, kernel', u)
  <2>1. PICK r \in Requests : Handle(r)
    BY CallIsRequest
  <2>2. Spares(kernel, kernel', t)
    BY <2>1, RequestSpares DEF SafeInv
  <2>3. QED
    BY <2>2 DEF Spares
<1>3. Endless'
  BY <1>1, <1>2, StillEndless
<1>4. ASSUME t # Alarm PROVE Active(kernel', Alarm)
  <2>1. ~Leaves(kernel, kernel', Alarm)
    BY <1>4 DEF Leaves
  <2>2. [Next]_vars
    BY DEF Next
  <2>3. \/ UNCHANGED kernel
        \/ \E joined, granted : Fates(kernel, kernel', joined, granted)
    BY <2>2, StepFates
  <2>4. CASE UNCHANGED kernel
    BY <1>1, <2>4
  <2>5. CASE \E joined, granted : Fates(kernel, kernel', joined, granted)
    BY <1>1, <2>1, <2>5, StillActive
  <2>6. QED
    BY <2>3, <2>4, <2>5
<1>5. QED
  BY <1>3, <1>4

\* The demo's calls are calls of MiniRtos.
LEMMA DemoCalls ==
    ASSUME InTable
    PROVE  /\ SensorSends => /\ kernel.current = Sensor /\ UserCall(Sensor)
                             /\ Reading(sampleIndex) \in Messages
                             /\ QueueSend(SampleQueue, Reading(sampleIndex), WaitForever)
           /\ ProcessReceives => kernel.current = Process /\ UserCall(Process)
           /\ ProcessGives => kernel.current = Process /\ UserCall(Process)
           /\ AlarmTakes => kernel.current = Alarm /\ UserCall(Alarm)
<1>1. /\ SampleQueue \in Queues /\ AlarmSem \in Semaphores /\ WaitForever \in Timeouts
      /\ ~IsIdle(Sensor) /\ ~IsIdle(Process) /\ ~IsIdle(Alarm)
  BY DemoObjects
<1>2. sampleIndex \in Nat /\ sampleIndex % Length = sampleIndex
  <2>1. Length \in Nat \ {0} /\ sampleIndex \in 0 .. Length - 1
    BY DemoTable DEF InTable
  <2>2. QED
    BY <2>1, SmallRemainder
<1>3. Reading(sampleIndex) = Temperatures[sampleIndex + 1] /\ Reading(sampleIndex) \in Messages
  BY <1>2, DemoTable
<1>4. SensorSends => /\ kernel.current = Sensor /\ UserCall(Sensor)
                     /\ Reading(sampleIndex) \in Messages
                     /\ QueueSend(SampleQueue, Reading(sampleIndex), WaitForever)
  BY <1>1, <1>3 DEF SensorSends, Goes, UserCall, QueueCall
<1>5. ProcessReceives => kernel.current = Process /\ UserCall(Process)
  BY <1>1 DEF ProcessReceives, Goes, UserCall, QueueCall
<1>6. ProcessGives => kernel.current = Process /\ UserCall(Process)
  BY <1>1 DEF ProcessGives, Goes, UserCall, SemCall
<1>7. AlarmTakes => kernel.current = Alarm /\ UserCall(Alarm)
  BY <1>1 DEF AlarmTakes, Goes, UserCall, SemCall
<1>8. QED
  BY <1>4, <1>5, <1>6, <1>7
-------------------------------------------------------------------------------
\* The points of each task's code, and what it may wait for there.
Place(t, to) ==
    /\ t = Sensor => to \in {"sleep", "delay", "send", "sent"}
    /\ t = Process => to \in {"receive", "received", "work", "give"}
    /\ t = Alarm => to \in {"take", "taken", "work"}
WaitsThere(t, to, l) ==
    \/ l = NoWait
    \/ t = Sensor /\ to = "sent" /\ l = SendWaiters(SampleQueue)
    \/ t = Process /\ to = "received" /\ l = ReceiveWaiters(SampleQueue)
    \/ t = Alarm /\ to = "taken" /\ l = SemWaiters(AlarmSem)

\* A task that moves on in its code, alone, keeps Standing.
LEMMA StandingAfter ==
    ASSUME Standing, NEW t \in {Sensor, Process, Alarm}, NEW to \in Points, Place(t, to),
           pc' = [pc EXCEPT ![t] = to],
           Endless', Active(kernel', Alarm), semCount' = semCount,
           \A u \in {Sensor, Process, Alarm} : u # t => kernel'.waitOn[u] \in {kernel.waitOn[u], NoWait},
           WaitsThere(t, to, kernel'.waitOn[t])
    PROVE  Standing'
<1>1. Sensor # Process /\ Sensor # Alarm /\ Process # Alarm
  BY DemoObjects
<1>2. /\ pc' \in [{Sensor, Process, Alarm} -> Points] /\ pc'[t] = to
      /\ \A u \in {Sensor, Process, Alarm} : u # t => pc'[u] = pc[u]
  BY DEF Standing
<1>3. /\ pc'[Sensor] \in {"sleep", "delay", "send", "sent"}
      /\ pc'[Process] \in {"receive", "received", "work", "give"}
      /\ pc'[Alarm] \in {"take", "taken", "work"}
  BY <1>2 DEF Standing, Place
<1>4. Waiting(Sensor)' => kernel'.waitOn[Sensor] = SendWaiters(SampleQueue) /\ pc'[Sensor] = "sent"
  BY <1>1, <1>2 DEF Standing, WaitsThere, Waiting
<1>5. Waiting(Process)' => kernel'.waitOn[Process] = ReceiveWaiters(SampleQueue) /\ pc'[Process] = "received"
  BY <1>1, <1>2 DEF Standing, WaitsThere, Waiting
<1>6. Waiting(Alarm)' => kernel'.waitOn[Alarm] = SemWaiters(AlarmSem) /\ pc'[Alarm] = "taken"
  BY <1>1, <1>2 DEF Standing, WaitsThere, Waiting
<1>7. QED
  BY <1>2, <1>3, <1>4, <1>5, <1>6 DEF Standing, Active

\* A step between two calls: the task goes on and the kernel stands still.
LEMMA WorkKeepsStanding ==
    ASSUME SafeInv, Standing, NEW t \in {Sensor, Process, Alarm}, NEW from, NEW to \in Points,
           Goes(t, from, to), Place(t, to), UNCHANGED vars
    PROVE  Standing'
<1>1. t \in Tasks /\ Alarm \in Tasks
  BY DemoObjects
<1>2. kernel' = kernel /\ semCount' = semCount /\ pc' = [pc EXCEPT ![t] = to] /\ kernel.current = t
  BY DEF vars, Goes
<1>3. kernel'.waitOn[t] = NoWait
  BY <1>1, <1>2, DemoFields DEF Waiting
<1>4. Endless' /\ Active(kernel', Alarm)
  BY <1>2 DEF Standing, Endless, Waiting, Active
<1>5. WaitsThere(t, to, kernel'.waitOn[t])
  BY <1>3 DEF WaitsThere
<1>6. QED
  BY <1>2, <1>4, <1>5, StandingAfter

\* The kernel's own steps.
LEMMA KernelPartKeepsStanding ==
    ASSUME SafeInv, SafeInv', Standing, KernelPart
    PROVE  Standing' /\ \A u \in Tasks : kernel'.waitOn[u] = kernel.waitOn[u]
<1>1. Quiet(kernel, kernel') /\ UNCHANGED objects
  BY QuietStep
<1>2. /\ \A u \in Tasks : kernel'.waitOn[u] = kernel.waitOn[u]
      /\ Endless' /\ Active(kernel', Alarm)
  BY <1>1, QuietKeeps
<1>3. semCount' = semCount /\ pc' = pc
  BY <1>1 DEF objects, KernelPart
<1>4. Sensor \in Tasks /\ Process \in Tasks /\ Alarm \in Tasks
  BY DemoObjects
<1>5. Standing'
  BY <1>2, <1>3, <1>4 DEF Standing, Waiting, Active
<1>6. QED
  BY <1>2, <1>5

\* vTaskDelay, of the sensor.
LEMMA SleepKeepsStanding ==
    ASSUME SafeInv, SafeInv', Standing, SensorSleeps
    PROVE  Standing' /\ \A u \in Tasks : kernel'.waitOn[u] = kernel.waitOn[u]
<1>1. Quiet(kernel, kernel') /\ UNCHANGED objects
  BY QuietStep
<1>2. /\ \A u \in Tasks : kernel'.waitOn[u] = kernel.waitOn[u]
      /\ Endless' /\ Active(kernel', Alarm)
  BY <1>1, QuietKeeps
<1>3. /\ semCount' = semCount /\ pc' = [pc EXCEPT ![Sensor] = "send"] /\ kernel.current = Sensor
      /\ "send" \in Points /\ Place(Sensor, "send")
  BY <1>1, DemoObjects DEF objects, SensorSleeps, Goes, Points, Place
<1>4. Sensor \in Tasks /\ Process \in Tasks /\ Alarm \in Tasks
  BY DemoObjects
<1>5. kernel'.waitOn[Sensor] = NoWait
  BY <1>2, <1>3, <1>4, DemoFields DEF Waiting
<1>6. WaitsThere(Sensor, "send", kernel'.waitOn[Sensor])
  BY <1>5 DEF WaitsThere
<1>7. Standing'
  BY <1>2, <1>3, <1>4, <1>6, StandingAfter
<1>8. QED
  BY <1>2, <1>7

\* What a call of the demo leaves of Standing, by the lists it changes.
LEMMA CallKeepsStanding ==
    ASSUME SafeInv, SafeInv', Standing, NEW t \in {Sensor, Process, Alarm}, NEW from, NEW to \in Points,
           Goes(t, from, to), Place(t, to), UserCall(t), semCount' = semCount,
           Waiting(t)' => ~DelayLinked(kernel', t), t = Alarm => Active(kernel', Alarm),
           \A u \in {Sensor, Process, Alarm} : u # t => kernel'.waitOn[u] \in {kernel.waitOn[u], NoWait},
           WaitsThere(t, to, kernel'.waitOn[t])
    PROVE  Standing'
<1>1. t \in Tasks
  BY DemoObjects
<1>2. pc' = [pc EXCEPT ![t] = to] /\ kernel.current = t
  BY DEF Goes
<1>3. Endless' /\ Active(kernel', Alarm)
  BY <1>1, <1>2, CallKeeps
<1>4. QED
  BY <1>2, <1>3, StandingAfter

\* Every step of the demo keeps it.
LEMMA StandingKept ==
    ASSUME SafeInv, SafeInv', PriorityInv(kernel), RingsAgree, InTable, Standing, [DemoNext]_demoVars
    PROVE  Standing'
<1>1. /\ Sensor \in Tasks /\ Process \in Tasks /\ Alarm \in Tasks
      /\ Sensor # Process /\ Sensor # Alarm /\ Process # Alarm
  BY DemoObjects
<1>2. kernel.waitOn \in [Tasks -> WaitLists \cup {NoWait}]
  BY DemoFields
<1>3. \A t \in Tasks : kernel.current = t => kernel.waitOn[t] = NoWait
  BY DemoFields DEF Waiting
<1>4. CASE UNCHANGED demoVars
  <2>1. kernel' = kernel /\ semCount' = semCount /\ pc' = pc
    BY <1>4 DEF demoVars, vars
  <2>2. QED
    BY <2>1 DEF Standing, Endless, Waiting
<1>5. CASE KernelPart
  BY <1>5, KernelPartKeepsStanding
<1>6. CASE SensorSleeps
  BY <1>6, SleepKeepsStanding
<1>7. CASE SensorSends
  <2>1. /\ Goes(Sensor, "send", "sent") /\ UserCall(Sensor) /\ semCount' = semCount
        /\ kernel.current = Sensor /\ "sent" \in Points /\ Place(Sensor, "sent")
    BY <1>1, <1>7, DemoCalls DEF SensorSends, Points, Place
  <2>2. Sent(Reading(sampleIndex)) /\ (Waiting(Sensor)' => ~DelayLinked(kernel', Sensor))
    BY <1>7, DemoCalls, SensorSent
  <2>3. /\ WaitsThere(Sensor, "sent", kernel'.waitOn[Sensor])
        /\ \A u \in {Sensor, Process, Alarm} : u # Sensor =>
              kernel'.waitOn[u] \in {kernel.waitOn[u], NoWait}
    BY <1>1, <1>2, <1>3, <2>1, <2>2 DEF Sent, WaitsThere
  <2>4. QED
    BY <1>1, <2>1, <2>2, <2>3, CallKeepsStanding
<1>8. CASE ProcessReceives
  <2>1. /\ Goes(Process, "receive", "received") /\ UserCall(Process) /\ semCount' = semCount
        /\ kernel.current = Process /\ "received" \in Points /\ Place(Process, "received")
        /\ QueueReceive(SampleQueue, WaitForever)
    BY <1>1, <1>8, DemoCalls DEF ProcessReceives, Points, Place
  <2>2. Received /\ (Waiting(Process)' => ~DelayLinked(kernel', Process))
    BY <2>1, ProcessReceived
  <2>3. /\ WaitsThere(Process, "received", kernel'.waitOn[Process])
        /\ \A u \in {Sensor, Process, Alarm} : u # Process =>
              kernel'.waitOn[u] \in {kernel.waitOn[u], NoWait}
    BY <1>1, <1>2, <1>3, <2>1, <2>2 DEF Received, WaitsThere
  <2>4. QED
    BY <1>1, <2>1, <2>2, <2>3, CallKeepsStanding
<1>9. CASE ProcessGives
  <2>1. /\ Goes(Process, "give", "receive") /\ UserCall(Process)
        /\ kernel.current = Process /\ "receive" \in Points /\ Place(Process, "receive")
        /\ SemGive(AlarmSem)
    BY <1>1, <1>9, DemoCalls DEF ProcessGives, Points, Place
  <2>2. /\ kernel'.waitOn = [kernel.waitOn EXCEPT ![Alarm] = NoWait] /\ semCount' = semCount
        /\ ~Waiting(Process)'
    BY <2>1, ProcessGave
  <2>3. /\ WaitsThere(Process, "receive", kernel'.waitOn[Process])
        /\ \A u \in {Sensor, Process, Alarm} : u # Process =>
              kernel'.waitOn[u] \in {kernel.waitOn[u], NoWait}
    BY <1>1, <1>2, <2>2 DEF WaitsThere, Waiting
  <2>4. QED
    BY <1>1, <2>1, <2>2, <2>3, CallKeepsStanding
<1>10. CASE AlarmTakes
  <2>1. /\ Goes(Alarm, "take", "taken") /\ UserCall(Alarm)
        /\ kernel.current = Alarm /\ "taken" \in Points /\ Place(Alarm, "taken")
        /\ SemTake(AlarmSem, WaitForever)
    BY <1>1, <1>10, DemoCalls DEF AlarmTakes, Points, Place
  <2>2. /\ kernel'.waitOn = [kernel.waitOn EXCEPT ![Alarm] = SemWaiters(AlarmSem)]
        /\ ~DelayLinked(kernel', Alarm) /\ Active(kernel', Alarm) /\ semCount' = semCount
    BY <2>1, AlarmTook
  <2>3. /\ WaitsThere(Alarm, "taken", kernel'.waitOn[Alarm])
        /\ \A u \in {Sensor, Process, Alarm} : u # Alarm =>
              kernel'.waitOn[u] \in {kernel.waitOn[u], NoWait}
    BY <1>1, <1>2, <2>2 DEF WaitsThere
  <2>4. QED
    BY <1>1, <2>1, <2>2, <2>3, CallKeepsStanding
<1>11. CASE SensorCounts
  <2>1. Goes(Sensor, "sent", "delay") /\ UNCHANGED vars /\ "delay" \in Points /\ Place(Sensor, "delay")
    BY <1>1, <1>11 DEF SensorCounts, Points, Place
  <2>2. QED
    BY <2>1, WorkKeepsStanding
<1>12. CASE ProcessBegins
  <2>1. Goes(Process, "received", "work") /\ UNCHANGED vars /\ "work" \in Points /\ Place(Process, "work")
    BY <1>1, <1>12 DEF ProcessBegins, Points, Place
  <2>2. QED
    BY <2>1, WorkKeepsStanding
<1>13. CASE ProcessFinishes
  <2> DEFINE to == IF buffer[Process] \in HotOnes THEN "give" ELSE "receive"
  <2>1. Goes(Process, "work", to) /\ UNCHANGED vars /\ to \in Points /\ Place(Process, to)
    BY <1>1, <1>13 DEF ProcessFinishes, Points, Place
  <2>2. QED
    BY <2>1, WorkKeepsStanding
<1>14. CASE AlarmBegins
  <2>1. Goes(Alarm, "taken", "work") /\ UNCHANGED vars /\ "work" \in Points /\ Place(Alarm, "work")
    BY <1>1, <1>14 DEF AlarmBegins, Points, Place
  <2>2. QED
    BY <2>1, WorkKeepsStanding
<1>15. CASE AlarmFinishes
  <2>1. Goes(Alarm, "work", "take") /\ UNCHANGED vars /\ "take" \in Points /\ Place(Alarm, "take")
    BY <1>1, <1>15 DEF AlarmFinishes, Points, Place
  <2>2. QED
    BY <2>1, WorkKeepsStanding
<1>16. QED
  BY <1>4, <1>5, <1>6, <1>7, <1>8, <1>9, <1>10, <1>11, <1>12, <1>13, <1>14, <1>15 DEF DemoNext, TaskCode
-------------------------------------------------------------------------------
\* The counters of the pipeline and of the alarms are 0 or 1.
LEMMA Counters ==
    /\ InHand = IF pc[Process] \in {"received", "work"} /\ ~Waiting(Process) THEN 1 ELSE 0
    /\ InHand' = IF pc'[Process] \in {"received", "work"} /\ ~Waiting(Process)' THEN 1 ELSE 0
    /\ Accepted = IF pc[Sensor] = "sent" /\ ~Waiting(Sensor) THEN 1 ELSE 0
    /\ Accepted' = IF pc'[Sensor] = "sent" /\ ~Waiting(Sensor)' THEN 1 ELSE 0
BY DEF InHand, Accepted, One

\* Reading the table at an index is reading it at the number the index stands for.
LEMMA ReadingAtIndex ==
    ASSUME NEW n \in Nat
    PROVE  Reading(n % Length) = Reading(n)
<1>1. Length \in Nat \ {0} /\ n % Length \in 0 .. Length - 1
  BY DemoTable
<1>2. (n % Length) % Length = n % Length
  BY <1>1, SmallRemainder
<1>3. QED
  BY <1>2 DEF Reading

\* A step that minds neither the queue nor the counters.
LEMMA PipelineStays ==
    ASSUME Pipeline, processed' = processed, sampleIndex' = sampleIndex, ring' = ring, buffer' = buffer,
           InHand' = InHand, Accepted' = Accepted, Waiting(Sensor)' => Waiting(Sensor)
    PROVE  Pipeline'
<1>1. PICK p, s \in Nat : PipelineAt(p, s)
  BY DEF Pipeline
<1>2. QueueSnapshot(SampleQueue)' = QueueSnapshot(SampleQueue)
  BY DEF QueueSnapshot
<1>3. PipelineAt(p, s)'
  BY <1>1, <1>2 DEF PipelineAt
<1>4. QED
  BY <1>3 DEF Pipeline

\* The length of what the ring holds.
LEMMA SnapshotLength ==
    ASSUME SafeInv
    PROVE  /\ ring[SampleQueue].count \in Nat /\ Len(QueueSnapshot(SampleQueue)) = ring[SampleQueue].count
           /\ QueueSnapshot(SampleQueue) \in Seq(Messages \cup {NoMessage})
<1>1. SampleQueue \in Queues /\ ring[SampleQueue] \in Ring(SampleQueue)
  BY DemoObjects, DemoFields
<1>2. QED
  BY <1>1, RingFields, SnapshotOfRing

\* The sensor sends the reading it has come to.
LEMMA SendKeepsPipeline ==
    ASSUME SafeInv, PriorityInv(kernel), RingsAgree, InTable, Standing, Pipeline, SensorSends
    PROVE  Pipeline'
<1> DEFINE q == SampleQueue
           m == Reading(sampleIndex)
           snap == QueueSnapshot(q)
           c == ring[q].count
<1>1. /\ Sensor \in Tasks /\ Process \in Tasks /\ Sensor # Process
      /\ SendWaiters(q) # NoWait
  BY DemoObjects, DemoLists
<1>2. /\ kernel.current = Sensor /\ Sent(m) /\ m \in Messages
  BY DemoCalls, SensorSent
<1>3. /\ ~Waiting(Sensor) /\ kernel.waitOn \in [Tasks -> WaitLists \cup {NoWait}]
      /\ buffer \in [Tasks -> Messages \cup {NoMessage}]
      /\ c \in Nat /\ Len(snap) = c /\ snap \in Seq(Messages \cup {NoMessage})
  BY <1>1, <1>2, DemoFields, SnapshotLength
<1>4. /\ pc[Sensor] = "send" /\ pc'[Sensor] = "sent" /\ pc'[Process] = pc[Process]
      /\ processed' = processed /\ sampleIndex' = sampleIndex
  BY <1>1 DEF SensorSends, Goes, Standing, progress
<1>5. PICK p, s \in Nat : PipelineAt(p, s)
  BY DEF Pipeline
<1>6. m = Reading(s)
  BY <1>5, ReadingAtIndex DEF PipelineAt
<1>7. InHand \in {0, 1} /\ Accepted = 0 /\ s = p + InHand + c
  <2>1. InHand \in {0, 1} /\ Accepted = 0
    BY <1>4, Counters
  <2>2. QED
    BY <1>3, <1>5, <2>1 DEF PipelineAt
<1> HIDE DEF m
<1>8. CASE /\ Waiting(Process) /\ kernel'.waitOn = [kernel.waitOn EXCEPT ![Process] = NoWait]
           /\ c = 0 /\ ring' = ring
           /\ buffer' = [[buffer EXCEPT ![Sensor] = m] EXCEPT ![Process] = m]
  <2>1. ~Waiting(Process)' /\ ~Waiting(Sensor)' /\ pc[Process] = "received"
    BY <1>1, <1>3, <1>8 DEF Waiting, Standing
  <2>2. InHand = 0 /\ InHand' = 1 /\ Accepted' = 1
    BY <1>4, <1>8, <2>1, Counters
  <2>3. buffer'[Process] = m /\ ring'[q].count = 0
    BY <1>1, <1>3, <1>8
  <2>4. s = p
    BY <1>7, <1>8, <2>2
  <2>5. PipelineAt(p, s)'
    BY <1>4, <1>5, <1>6, <2>1, <2>2, <2>3, <2>4 DEF PipelineAt
  <2>6. QED
    BY <2>5 DEF Pipeline
<1>9. CASE /\ kernel'.waitOn = kernel.waitOn
           /\ ring'[q].count = c + 1 /\ snap' = Append(snap, m)
           /\ buffer' = [buffer EXCEPT ![Sensor] = m]
  <2>1. ~Waiting(Sensor)' /\ (Waiting(Process)' <=> Waiting(Process)) /\ buffer'[Process] = buffer[Process]
    BY <1>1, <1>3, <1>9 DEF Waiting
  <2>2. InHand' = InHand /\ Accepted' = 1
    BY <1>4, <2>1, Counters
  <2>3. ASSUME NEW i \in 1 .. c + 1 PROVE snap'[i] = Reading(p + InHand + i - 1)
    <3>1. CASE i = c + 1
      BY <1>3, <1>6, <1>7, <1>9, <3>1
    <3>2. CASE i # c + 1
      <4>1. i \in 1 .. c /\ snap'[i] = snap[i]
        BY <1>3, <1>9, <3>2
      <4>2. QED
        BY <1>5, <4>1 DEF PipelineAt
    <3>3. QED
      BY <3>1, <3>2
  <2>4. s + 1 = p + InHand + (c + 1)
    BY <1>3, <1>7
  <2> HIDE DEF c
  <2>5. PipelineAt(p, s)'
    BY <1>4, <1>5, <1>9, <2>1, <2>2, <2>3, <2>4 DEF PipelineAt
  <2>6. QED
    BY <2>5 DEF Pipeline
<1>10. CASE /\ kernel'.waitOn = [kernel.waitOn EXCEPT ![Sensor] = SendWaiters(q)]
            /\ ring' = ring /\ buffer' = [buffer EXCEPT ![Sensor] = m]
  <2>1. /\ Waiting(Sensor)' /\ (Waiting(Process)' <=> Waiting(Process))
        /\ buffer'[Process] = buffer[Process] /\ buffer'[Sensor] = m
    BY <1>1, <1>3, <1>10 DEF Waiting
  <2>2. InHand' = InHand /\ Accepted' = 0
    BY <1>4, <2>1, Counters
  <2>3. snap' = snap
    BY <1>10 DEF QueueSnapshot
  <2>4. PipelineAt(p, s)'
    BY <1>4, <1>5, <1>6, <1>7, <1>10, <2>1, <2>2, <2>3 DEF PipelineAt
  <2>5. QED
    BY <2>4 DEF Pipeline
<1>11. QED
  BY <1>2, <1>8, <1>9, <1>10 DEF Sent

\* Process receives the oldest reading it has not worked off.
LEMMA ReceiveKeepsPipeline ==
    ASSUME SafeInv, PriorityInv(kernel), RingsAgree, Standing, Pipeline, ProcessReceives
    PROVE  Pipeline'
<1> DEFINE q == SampleQueue
           snap == QueueSnapshot(q)
           c == ring[q].count
<1>1. /\ Sensor \in Tasks /\ Process \in Tasks /\ Sensor # Process
      /\ ReceiveWaiters(q) # NoWait
  BY DemoObjects, DemoLists
<1>2. kernel.current = Process /\ QueueReceive(q, WaitForever)
  BY DEF ProcessReceives, Goes
<1>3. Received
  BY <1>2, ProcessReceived
<1>4. /\ ~Waiting(Process) /\ kernel.waitOn \in [Tasks -> WaitLists \cup {NoWait}]
      /\ buffer \in [Tasks -> Messages \cup {NoMessage}]
      /\ c \in Nat /\ Len(snap) = c /\ snap \in Seq(Messages \cup {NoMessage})
  BY <1>1, <1>2, DemoFields, SnapshotLength
<1>5. /\ pc[Process] = "receive" /\ pc'[Process] = "received" /\ pc'[Sensor] = pc[Sensor]
      /\ processed' = processed /\ sampleIndex' = sampleIndex
  BY <1>1 DEF ProcessReceives, Goes, Standing, progress
<1>6. PICK p, s \in Nat : PipelineAt(p, s)
  BY DEF Pipeline
<1>7. InHand = 0 /\ Accepted \in {0, 1} /\ s + Accepted = p + c
  <2>1. InHand = 0 /\ Accepted \in {0, 1}
    BY <1>5, Counters
  <2>2. QED
    BY <1>4, <1>6, <2>1 DEF PipelineAt
<1>8. \A i \in 1 .. c : snap[i] = Reading(p + i - 1)
  BY <1>6, <1>7 DEF PipelineAt
<1>9. CASE /\ Waiting(Sensor) /\ kernel'.waitOn = [kernel.waitOn EXCEPT ![Sensor] = NoWait]
           /\ c > 0 /\ ring'[q].count = c
           /\ snap' = Append(Tail(snap), buffer[Sensor])
           /\ buffer' = [buffer EXCEPT ![Process] = Head(snap)]
  <2>1. ~Waiting(Sensor)' /\ ~Waiting(Process)' /\ pc[Sensor] = "sent" /\ buffer[Sensor] = Reading(s)
    BY <1>1, <1>4, <1>6, <1>9 DEF Waiting, Standing, PipelineAt
  <2>2. Accepted = 0 /\ InHand' = 1 /\ Accepted' = 1
    BY <1>5, <1>9, <2>1, Counters
  <2>3. buffer'[Process] = Reading(p)
    BY <1>1, <1>4, <1>8, <1>9
  <2>4. ASSUME NEW i \in 1 .. c PROVE snap'[i] = Reading(p + 1 + i - 1)
    <3>1. CASE i = c
      <4>1. snap'[i] = Reading(s) /\ s = p + 1 + i - 1
        BY <1>4, <1>7, <1>9, <2>1, <2>2, <3>1
      <4>2. QED
        BY <4>1
    <3>2. CASE i # c
      <4>1. i + 1 \in 1 .. c /\ snap'[i] = snap[i + 1] /\ p + 1 + i - 1 = p + (i + 1) - 1
        BY <1>4, <1>9, <3>2
      <4>2. QED
        BY <1>8, <4>1
    <3>3. QED
      BY <3>1, <3>2
  <2> HIDE DEF c
  <2>5. s + 1 = p + 1 + c
    <3>1. c \in Nat
      BY <1>4
    <3>2. s + 0 = p + c
      BY <1>7, <2>2
    <3>3. QED
      BY <3>1, <3>2
  <2>6. PipelineAt(p, s)'
    BY <1>5, <1>6, <1>9, <2>1, <2>2, <2>3, <2>4, <2>5 DEF PipelineAt
  <2>7. QED
    BY <2>6 DEF Pipeline
<1>10. CASE /\ kernel'.waitOn = kernel.waitOn
            /\ c > 0 /\ ring'[q].count = c - 1
            /\ snap' = Tail(snap) /\ buffer' = [buffer EXCEPT ![Process] = Head(snap)]
  <2>1. /\ ~Waiting(Process)' /\ (Waiting(Sensor)' <=> Waiting(Sensor)) /\ buffer'[Sensor] = buffer[Sensor]
    BY <1>1, <1>4, <1>10 DEF Waiting
  <2>2. InHand' = 1 /\ Accepted' = Accepted
    BY <1>5, <2>1, Counters
  <2>3. buffer'[Process] = Reading(p)
    BY <1>1, <1>4, <1>8, <1>10
  <2>4. ASSUME NEW i \in 1 .. c - 1 PROVE snap'[i] = Reading(p + 1 + i - 1)
    <3>1. i + 1 \in 1 .. c /\ snap'[i] = snap[i + 1] /\ p + 1 + i - 1 = p + (i + 1) - 1
      BY <1>4, <1>10
    <3>2. QED
      BY <1>8, <3>1
  <2> HIDE DEF c
  <2>5. s + Accepted = p + 1 + (c - 1)
    <3>1. c \in Nat
      BY <1>4
    <3>2. p + 1 + (c - 1) = p + c
      BY <3>1
    <3>3. QED
      BY <1>7, <3>2
  <2>6. PipelineAt(p, s)'
    BY <1>5, <1>6, <1>10, <2>1, <2>2, <2>3, <2>4, <2>5 DEF PipelineAt
  <2>7. QED
    BY <2>6 DEF Pipeline
<1>11. CASE /\ kernel'.waitOn = [kernel.waitOn EXCEPT ![Process] = ReceiveWaiters(q)]
            /\ ring' = ring /\ buffer' = buffer
  <2>1. Waiting(Process)' /\ (Waiting(Sensor)' <=> Waiting(Sensor))
    BY <1>1, <1>4, <1>11 DEF Waiting
  <2>2. InHand' = InHand /\ Accepted' = Accepted
    BY <1>5, <1>7, <2>1, Counters
  <2>3. QED
    BY <1>5, <1>11, <2>1, <2>2, PipelineStays
<1>12. QED
  BY <1>3, <1>9, <1>10, <1>11 DEF Received
-------------------------------------------------------------------------------
\* The sensor counts the sample that was accepted.
LEMMA CountKeepsPipeline ==
    ASSUME SafeInv, Standing, Pipeline, SensorCounts
    PROVE  Pipeline'
<1>1. Sensor \in Tasks /\ Sensor # Process
  BY DemoObjects
<1>2. /\ kernel.current = Sensor /\ pc[Sensor] = "sent" /\ pc'[Sensor] = "delay" /\ pc'[Process] = pc[Process]
      /\ kernel' = kernel /\ ring' = ring /\ buffer' = buffer /\ processed' = processed
      /\ sampleIndex' = (sampleIndex + 1) % Length
  BY <1>1 DEF SensorCounts, Goes, Standing, vars
<1>3. ~Waiting(Sensor)
  BY <1>1, <1>2, DemoFields
<1>4. InHand' = InHand /\ Accepted = 1 /\ Accepted' = 0 /\ ~Waiting(Sensor)'
  BY <1>2, <1>3, Counters DEF Waiting
<1>5. QueueSnapshot(SampleQueue)' = QueueSnapshot(SampleQueue)
  BY <1>2 DEF QueueSnapshot
<1>6. PICK p, s \in Nat : PipelineAt(p, s)
  BY DEF Pipeline
<1>7. sampleIndex' = (s + 1) % Length
  <2>1. sampleIndex = s % Length /\ Length \in Nat \ {0}
    BY <1>6, DemoTable DEF PipelineAt
  <2> DEFINE r == s % Length
  <2>2. r \in 0 .. Length - 1
    BY <2>1
  <2>3. (s + 1) % Length = IF r + 1 = Length THEN 0 ELSE r + 1
    BY <2>1, NextRemainder
  <2> HIDE DEF r
  <2>4. (r + 1) % Length = IF r + 1 = Length THEN 0 ELSE r + 1
    BY <2>1, <2>2, Wraps
  <2>5. QED
    BY <1>2, <2>1, <2>3, <2>4 DEF r
<1>8. PipelineAt(p, s + 1)'
  <2>1. InHand \in {0, 1}
    BY Counters
  <2>2. (s + 1) + 0 = p + InHand + ring[SampleQueue].count
    BY <1>4, <1>6 DEF PipelineAt
  <2>3. QED
    BY <1>2, <1>4, <1>5, <1>6, <1>7, <2>2 DEF PipelineAt
<1>9. s + 1 \in Nat
  OBVIOUS
<1>10. QED
  BY <1>8, <1>9 DEF Pipeline

\* Process has worked off the sample in its hands.
LEMMA FinishKeepsPipeline ==
    ASSUME SafeInv, Standing, Pipeline, ProcessFinishes
    PROVE  /\ Pipeline' /\ buffer[Process] = Reading(processed)
           /\ processed \in 0 .. Length - 1
           /\ processed' = IF processed + 1 = Length THEN 0 ELSE processed + 1
<1>1. Process \in Tasks /\ Sensor # Process
  BY DemoObjects
<1>2. /\ kernel.current = Process /\ pc[Process] = "work" /\ pc'[Process] \in {"give", "receive"}
      /\ pc'[Sensor] = pc[Sensor]
      /\ kernel' = kernel /\ ring' = ring /\ buffer' = buffer /\ sampleIndex' = sampleIndex
      /\ processed' = (processed + 1) % Length
  BY <1>1 DEF ProcessFinishes, Goes, Standing, vars
<1>3. ~Waiting(Process)
  BY <1>1, <1>2, DemoFields
<1>4. InHand = 1 /\ InHand' = 0 /\ Accepted' = Accepted /\ (Waiting(Sensor)' <=> Waiting(Sensor))
  BY <1>2, <1>3, Counters DEF Waiting
<1>5. QueueSnapshot(SampleQueue)' = QueueSnapshot(SampleQueue)
  BY <1>2 DEF QueueSnapshot
<1>6. PICK p, s \in Nat : PipelineAt(p, s)
  BY DEF Pipeline
<1>7. Length \in Nat \ {0} /\ processed = p % Length
  BY <1>6, DemoTable DEF PipelineAt
<1>8. processed \in 0 .. Length - 1
  BY <1>7, DemoTable
<1>9. /\ (p + 1) % Length = IF processed + 1 = Length THEN 0 ELSE processed + 1
      /\ (processed + 1) % Length = IF processed + 1 = Length THEN 0 ELSE processed + 1
  <2>1. (p + 1) % Length = IF processed + 1 = Length THEN 0 ELSE processed + 1
    BY <1>7, NextRemainder
  <2>2. (processed + 1) % Length = IF processed + 1 = Length THEN 0 ELSE processed + 1
    BY <1>7, <1>8, Wraps
  <2>3. QED
    BY <2>1, <2>2
<1>10. PipelineAt(p + 1, s)'
  <2> DEFINE c == ring[SampleQueue].count
  <2>1. Accepted \in {0, 1} /\ c \in Nat
    BY Counters, SnapshotLength
  <2>2. s + Accepted = (p + 1) + 0 + c
    BY <1>4, <1>6, <2>1 DEF PipelineAt
  <2>3. ASSUME NEW i \in 1 .. c PROVE QueueSnapshot(SampleQueue)[i] = Reading((p + 1) + 0 + i - 1)
    <3>1. p + 1 + i - 1 = (p + 1) + 0 + i - 1
      BY <2>1
    <3>2. QED
      BY <1>4, <1>6, <3>1 DEF PipelineAt
  <2>4. processed' = (p + 1) % Length
    BY <1>2, <1>9
  <2> HIDE DEF c
  <2>5. QED
    BY <1>2, <1>4, <1>5, <1>6, <2>2, <2>3, <2>4 DEF PipelineAt, c
<1>11. p + 1 \in Nat
  OBVIOUS
<1>12. buffer[Process] = Reading(processed)
  BY <1>4, <1>6, <1>7, ReadingAtIndex DEF PipelineAt
<1>13. QED
  BY <1>2, <1>8, <1>9, <1>10, <1>11, <1>12 DEF Pipeline

\* Every step of the demo keeps the pipeline.
LEMMA PipelineKept ==
    ASSUME SafeInv, SafeInv', PriorityInv(kernel), RingsAgree, InTable, Standing, Pipeline,
           [DemoNext]_demoVars
    PROVE  Pipeline'
<1>1. /\ Sensor \in Tasks /\ Process \in Tasks /\ Alarm \in Tasks
      /\ Sensor # Process /\ Sensor # Alarm /\ Process # Alarm
  BY DemoObjects
<1>2. kernel.waitOn \in [Tasks -> WaitLists \cup {NoWait}]
  BY DemoFields
<1>3. pc \in [{Sensor, Process, Alarm} -> Points]
  BY DEF Standing
<1> DEFINE SameWaiting == (Waiting(Sensor)' <=> Waiting(Sensor)) /\ (Waiting(Process)' <=> Waiting(Process))
           SameQueue == processed' = processed /\ sampleIndex' = sampleIndex /\ ring' = ring /\ buffer' = buffer
<1>4. CASE UNCHANGED demoVars
  <2>1. kernel' = kernel /\ pc' = pc /\ SameQueue
    BY <1>4 DEF demoVars, vars, progress
  <2>2. InHand' = InHand /\ Accepted' = Accepted /\ (Waiting(Sensor)' => Waiting(Sensor))
    BY <2>1 DEF InHand, Accepted, Waiting
  <2>3. QED
    BY <2>1, <2>2, PipelineStays
<1>5. CASE KernelPart
  <2>1. SameWaiting /\ pc' = pc /\ SameQueue
    BY <1>1, <1>5, KernelPartKeepsStanding, QuietStep DEF Waiting, KernelPart, objects, progress
  <2>2. InHand' = InHand /\ Accepted' = Accepted
    BY <2>1, Counters
  <2>3. QED
    BY <2>1, <2>2, PipelineStays
<1>6. CASE SensorSleeps
  <2>1. /\ SameWaiting /\ SameQueue /\ pc'[Process] = pc[Process]
        /\ pc[Sensor] \in {"sleep", "delay"} /\ pc'[Sensor] = "send"
    <3>1. SameWaiting
      BY <1>1, <1>6, SleepKeepsStanding DEF Waiting
    <3>2. QED
      BY <1>1, <1>3, <1>6, <3>1 DEF SensorSleeps, Goes, queueVars, progress
  <2>2. InHand' = InHand /\ Accepted' = Accepted
    BY <2>1, Counters
  <2>3. QED
    BY <2>1, <2>2, PipelineStays
<1>7. CASE SensorSends
  BY <1>7, SendKeepsPipeline
<1>8. CASE SensorCounts
  BY <1>8, CountKeepsPipeline
<1>9. CASE ProcessReceives
  BY <1>9, ReceiveKeepsPipeline
<1>10. CASE ProcessBegins
  <2>1. /\ kernel' = kernel /\ SameQueue /\ pc'[Sensor] = pc[Sensor] /\ kernel.current = Process
        /\ pc[Process] = "received" /\ pc'[Process] = "work"
    BY <1>1, <1>3, <1>10 DEF ProcessBegins, Goes, vars, progress
  <2>2. SameWaiting
    BY <2>1 DEF Waiting
  <2>3. InHand' = InHand /\ Accepted' = Accepted
    BY <2>1, <2>2, Counters
  <2>4. QED
    BY <2>1, <2>2, <2>3, PipelineStays
<1>11. CASE ProcessFinishes
  BY <1>11, FinishKeepsPipeline
<1>12. CASE ProcessGives
  <2>1. /\ SameQueue /\ pc'[Sensor] = pc[Sensor] /\ kernel.current = Process
        /\ pc[Process] = "give" /\ pc'[Process] = "receive" /\ SemGive(AlarmSem)
    BY <1>1, <1>3, <1>12 DEF ProcessGives, Goes, queueVars, progress
  <2>2. SameWaiting
    <3>1. kernel'.waitOn = [kernel.waitOn EXCEPT ![Alarm] = NoWait]
      BY <2>1, ProcessGave
    <3>2. QED
      BY <1>1, <1>2, <3>1 DEF Waiting
  <2>3. InHand' = InHand /\ Accepted' = Accepted
    BY <2>1, <2>2, Counters
  <2>4. QED
    BY <2>1, <2>2, <2>3, PipelineStays
<1>13. CASE AlarmTakes
  <2>1. /\ SameQueue /\ pc'[Sensor] = pc[Sensor] /\ pc'[Process] = pc[Process] /\ kernel.current = Alarm
        /\ SemTake(AlarmSem, WaitForever)
    BY <1>1, <1>3, <1>13 DEF AlarmTakes, Goes, queueVars, progress
  <2>2. SameWaiting
    <3>1. kernel'.waitOn = [kernel.waitOn EXCEPT ![Alarm] = SemWaiters(AlarmSem)]
      BY <2>1, AlarmTook
    <3>2. QED
      BY <1>1, <1>2, <3>1 DEF Waiting
  <2>3. InHand' = InHand /\ Accepted' = Accepted
    BY <2>1, <2>2, Counters
  <2>4. QED
    BY <2>1, <2>2, <2>3, PipelineStays
<1>14. CASE AlarmBegins \/ AlarmFinishes
  <2>1. /\ kernel' = kernel /\ SameQueue /\ pc'[Sensor] = pc[Sensor] /\ pc'[Process] = pc[Process]
    BY <1>1, <1>3, <1>14 DEF AlarmBegins, AlarmFinishes, Goes, vars, progress
  <2>2. SameWaiting
    BY <2>1 DEF Waiting
  <2>3. InHand' = InHand /\ Accepted' = Accepted
    BY <2>1, <2>2, Counters
  <2>4. QED
    BY <2>1, <2>2, <2>3, PipelineStays
<1>15. QED
  BY <1>4, <1>5, <1>6, <1>7, <1>8, <1>9, <1>10, <1>11, <1>12, <1>13, <1>14 DEF DemoNext, TaskCode
-------------------------------------------------------------------------------
\* The two alarms that may be owed: the one Alarm has been woken for, and the one that
\* Process is about to give.
Woken == One(pc[Alarm] = "taken" /\ ~Waiting(Alarm))
Found == One(pc[Process] = "give")

\* Each is 0 or 1.
LEMMA Owing ==
    /\ Owed = Woken + Found /\ Owed' = Woken' + Found'
    /\ Woken = IF pc[Alarm] = "taken" /\ ~Waiting(Alarm) THEN 1 ELSE 0
    /\ Woken' = IF pc'[Alarm] = "taken" /\ ~Waiting(Alarm)' THEN 1 ELSE 0
    /\ Found = IF pc[Process] = "give" THEN 1 ELSE 0
    /\ Found' = IF pc'[Process] = "give" THEN 1 ELSE 0
BY DEF Owed, Woken, Found, One

\* The ledger as one balance.
Balance(runs, owed, hot) ==
    /\ runs \in 0 .. HotAmong(Length) - 1
    /\ runs + owed - hot \in {-HotAmong(Length), 0, HotAmong(Length)}

\* An alarm that is owed is counted.
LEMMA BalanceAfterAlarm ==
    ASSUME NEW runs, NEW owed \in Nat, NEW hot \in 0 .. HotAmong(Length), owed > 0,
           Balance(runs, owed, hot)
    PROVE  Balance((runs + 1) % HotAmong(Length), owed - 1, hot)
<1> DEFINE h == HotAmong(Length)
           next == (runs + 1) % h
<1>1. h \in Nat /\ h > 1
  BY HotCount
<1>2. runs \in 0 .. h - 1 /\ runs + owed - hot \in {-h, 0, h}
  BY DEF Balance
<1>3. next = IF runs + 1 = h THEN 0 ELSE runs + 1
  BY <1>1, <1>2, Wraps
<1> HIDE DEF h, next
<1>4. next \in 0 .. h - 1 /\ next + (owed - 1) - hot \in {-h, 0, h}
  <2>1. hot \in 0 .. h
    BY DEF h
  <2>2. CASE runs + 1 = h
    BY <1>1, <1>2, <1>3, <2>1, <2>2
  <2>3. CASE runs + 1 # h
    BY <1>1, <1>2, <1>3, <2>1, <2>3
  <2>4. QED
    BY <2>2, <2>3
<1>5. QED
  BY <1>4 DEF Balance, h, next

\* A sample is processed; it is hot or not.
LEMMA BalanceAfterSample ==
    ASSUME NEW runs, NEW owed \in 0 .. 1, NEW n \in 0 .. Length - 1,
           Balance(runs, owed, HotAmong(n))
    PROVE  Balance(runs, owed + One(Temperatures[n + 1] \in HotOnes),
                   HotAmong(IF n + 1 = Length THEN 0 ELSE n + 1))
<1> DEFINE h == HotAmong(Length)
           one == One(Temperatures[n + 1] \in HotOnes)
           H == HotAmong(n)
<1>1. h \in Nat /\ h > 1 /\ HotAmong(0) = 0 /\ Length \in Nat \ {0}
  BY HotCount, DemoTable
<1>2. runs \in 0 .. h - 1 /\ runs + owed - H \in {-h, 0, h}
  BY DEF Balance
<1>3. H \in 0 .. h /\ HotAmong(n + 1) = H + one
  BY <1>1, HotCount
<1>4. one \in {0, 1}
  BY DEF One
<1> HIDE DEF one
<1>5. CASE n + 1 = Length
  <2>1. h = H + one
    BY <1>3, <1>5
  <2> HIDE DEF h, H
  <2>2. runs + (owed + one) - 0 \in {-h, 0, h}
    BY <1>1, <1>2, <1>3, <1>4, <2>1
  <2>3. QED
    BY <1>1, <1>2, <1>5, <2>2 DEF Balance, h, one
<1>6. CASE n + 1 # Length
  <2>1. runs + (owed + one) - (H + one) = runs + owed - H
    BY <1>1, <1>2, <1>3, <1>4
  <2>2. QED
    BY <1>2, <1>3, <1>6, <2>1 DEF Balance, one
<1>7. QED
  BY <1>5, <1>6

\* The count of the samples processed.
LEMMA LedgerIsBalance ==
    ASSUME Pipeline
    PROVE  /\ Ledger <=> Balance(alarmRuns, Owed, HotAmong(processed))
           /\ processed \in 0 .. Length - 1 /\ HotAmong(processed) \in 0 .. HotAmong(Length)
<1>1. PICK p \in Nat : processed = p % Length
  BY DEF Pipeline, PipelineAt
<1>2. processed \in 0 .. Length - 1 /\ Length \in Nat \ {0}
  BY <1>1, DemoTable
<1>3. processed \in 0 .. Length
  BY <1>2
<1>4. HotAmong(processed) \in 0 .. HotAmong(Length)
  BY <1>3, HotCount
<1>5. QED
  BY <1>2, <1>4 DEF Ledger, Balance

\* Every step of the demo keeps the ledger.
LEMMA LedgerKept ==
    ASSUME SafeInv, SafeInv', PriorityInv(kernel), RingsAgree, InTable, Standing, Pipeline, Ledger,
           [DemoNext]_demoVars
    PROVE  Ledger'
<1>1. /\ Sensor \in Tasks /\ Process \in Tasks /\ Alarm \in Tasks
      /\ Sensor # Process /\ Sensor # Alarm /\ Process # Alarm
      /\ SemWaiters(AlarmSem) # NoWait
  BY DemoObjects, DemoLists
<1>2. kernel.waitOn \in [Tasks -> WaitLists \cup {NoWait}]
  BY DemoFields
<1>3. pc \in [{Sensor, Process, Alarm} -> Points]
  BY DEF Standing
<1>4. Woken \in {0, 1} /\ Found \in {0, 1} /\ Owed = Woken + Found
  BY Owing
<1>5. ASSUME processed' = processed, alarmRuns' = alarmRuns, Owed' = Owed PROVE Ledger'
  BY <1>5 DEF Ledger
<1> DEFINE SameWaiting == Waiting(Alarm)' <=> Waiting(Alarm)
           SameProgress == processed' = processed /\ alarmRuns' = alarmRuns
<1>6. CASE UNCHANGED demoVars
  <2>1. kernel' = kernel /\ pc' = pc /\ SameProgress
    BY <1>6 DEF demoVars, vars, progress
  <2>2. Owed' = Owed
    BY <2>1 DEF Owed, Waiting
  <2>3. QED
    BY <1>5, <2>1, <2>2
<1>7. CASE KernelPart
  <2>1. SameWaiting /\ pc' = pc /\ SameProgress
    BY <1>1, <1>7, KernelPartKeepsStanding DEF Waiting, KernelPart, progress
  <2>2. QED
    BY <1>5, <2>1, Owing
<1>8. CASE SensorSleeps
  <2>1. SameWaiting
    BY <1>1, <1>8, SleepKeepsStanding DEF Waiting
  <2>2. pc'[Process] = pc[Process] /\ pc'[Alarm] = pc[Alarm] /\ SameProgress
    BY <1>1, <1>3, <1>8 DEF SensorSleeps, Goes, progress
  <2>3. QED
    BY <1>5, <2>1, <2>2, Owing
<1>9. CASE SensorSends
  <2>1. Sent(Reading(sampleIndex))
    BY <1>9, DemoCalls, SensorSent
  <2>2. SameWaiting
    BY <1>1, <1>2, <2>1 DEF Sent, Waiting
  <2>3. pc'[Process] = pc[Process] /\ pc'[Alarm] = pc[Alarm] /\ SameProgress
    BY <1>1, <1>3, <1>9 DEF SensorSends, Goes, progress
  <2>4. QED
    BY <1>5, <2>2, <2>3, Owing
<1>10. CASE ProcessReceives
  <2>1. /\ pc[Process] = "receive" /\ pc'[Process] = "received" /\ pc'[Alarm] = pc[Alarm] /\ SameProgress
        /\ kernel.current = Process /\ QueueReceive(SampleQueue, WaitForever)
    BY <1>1, <1>3, <1>10 DEF ProcessReceives, Goes, progress
  <2>2. Received
    BY <2>1, ProcessReceived
  <2>3. SameWaiting
    BY <1>1, <1>2, <2>2 DEF Received, Waiting
  <2>4. QED
    BY <1>5, <2>1, <2>3, Owing
<1>11. CASE SensorCounts \/ ProcessBegins \/ AlarmFinishes
  <2>1. kernel' = kernel /\ SameProgress
    BY <1>11 DEF SensorCounts, ProcessBegins, AlarmFinishes, vars, progress
  <2>2. /\ pc[Process] = "give" <=> pc'[Process] = "give"
        /\ pc[Alarm] = "taken" <=> pc'[Alarm] = "taken"
    BY <1>1, <1>3, <1>11 DEF SensorCounts, ProcessBegins, AlarmFinishes, Goes
  <2>3. SameWaiting
    BY <2>1 DEF Waiting
  <2>4. QED
    BY <1>5, <2>1, <2>2, <2>3, Owing
<1>12. CASE ProcessGives
  <2>1. /\ pc[Process] = "give" /\ pc'[Process] = "receive" /\ pc'[Alarm] = pc[Alarm] /\ SameProgress
        /\ kernel.current = Process /\ SemGive(AlarmSem)
    BY <1>1, <1>3, <1>12 DEF ProcessGives, Goes, progress
  <2>2. /\ kernel.waitOn[Alarm] = SemWaiters(AlarmSem)
        /\ kernel'.waitOn = [kernel.waitOn EXCEPT ![Alarm] = NoWait]
    BY <2>1, ProcessGave
  <2>3. Waiting(Alarm) /\ ~Waiting(Alarm)' /\ pc[Alarm] = "taken"
    BY <1>1, <1>2, <2>2 DEF Waiting, Standing
  <2>4. Woken = 0 /\ Woken' = 1 /\ Found = 1 /\ Found' = 0
    BY <2>1, <2>3, Owing
  <2>5. QED
    BY <1>5, <2>1, <2>4, Owing
<1>13. CASE AlarmTakes
  <2>1. /\ pc[Alarm] = "take" /\ pc'[Process] = pc[Process] /\ SameProgress
        /\ kernel.current = Alarm /\ SemTake(AlarmSem, WaitForever)
    BY <1>1, <1>3, <1>13 DEF AlarmTakes, Goes, progress
  <2>2. kernel'.waitOn = [kernel.waitOn EXCEPT ![Alarm] = SemWaiters(AlarmSem)]
    BY <2>1, AlarmTook
  <2>3. Waiting(Alarm)'
    BY <1>1, <1>2, <2>2 DEF Waiting
  <2>4. Woken = 0 /\ Woken' = 0 /\ Found' = Found
    BY <2>1, <2>3, Owing
  <2>5. QED
    BY <1>5, <2>1, <2>4, Owing
<1>14. CASE AlarmBegins
  <2>1. /\ pc[Alarm] = "taken" /\ pc'[Alarm] = "work" /\ pc'[Process] = pc[Process]
        /\ kernel.current = Alarm /\ processed' = processed
        /\ alarmRuns' = (alarmRuns + 1) % HotAmong(Length)
    BY <1>1, <1>3, <1>14 DEF AlarmBegins, Goes
  <2>2. ~Waiting(Alarm)
    BY <1>1, <2>1, DemoFields
  <2>3. Woken = 1 /\ Woken' = 0 /\ Found' = Found
    BY <2>1, <2>2, Owing
  <2>4. Owed \in Nat /\ Owed > 0 /\ Owed' = Owed - 1
    BY <1>4, <2>3, Owing
  <2>5. Balance(alarmRuns, Owed, HotAmong(processed)) /\ HotAmong(processed) \in 0 .. HotAmong(Length)
    BY LedgerIsBalance
  <2>6. Balance((alarmRuns + 1) % HotAmong(Length), Owed - 1, HotAmong(processed))
    BY <2>4, <2>5, BalanceAfterAlarm
  <2>7. Balance(alarmRuns', Owed', HotAmong(processed)')
    BY <2>1, <2>4, <2>6
  <2>8. QED
    BY <2>7 DEF Ledger, Balance
<1>15. CASE ProcessFinishes
  <2>1. /\ pc[Process] = "work" /\ pc'[Alarm] = pc[Alarm] /\ kernel' = kernel /\ alarmRuns' = alarmRuns
        /\ pc'[Process] = IF buffer[Process] \in HotOnes THEN "give" ELSE "receive"
    BY <1>1, <1>3, <1>15 DEF ProcessFinishes, Goes, vars
  <2>2. /\ buffer[Process] = Reading(processed) /\ processed \in 0 .. Length - 1
        /\ processed' = IF processed + 1 = Length THEN 0 ELSE processed + 1
    BY <1>15, FinishKeepsPipeline
  <2>3. buffer[Process] = Temperatures[processed + 1]
    <3>1. Length \in Nat \ {0} /\ processed \in Nat
      BY <2>2, DemoTable
    <3>2. processed % Length = processed
      BY <2>2, <3>1, SmallRemainder
    <3>3. QED
      BY <2>2, <3>2 DEF Reading
  <2> DEFINE hot == One(Temperatures[processed + 1] \in HotOnes)
  <2>4. Woken' = Woken /\ Found = 0 /\ Found' = hot
    <3>1. SameWaiting
      BY <2>1 DEF Waiting
    <3>2. Woken' = Woken /\ Found = 0
      BY <2>1, <3>1, Owing
    <3>3. CASE Temperatures[processed + 1] \in HotOnes
      BY <2>1, <2>3, <3>2, <3>3, Owing DEF One
    <3>4. CASE Temperatures[processed + 1] \notin HotOnes
      <4>1. hot = 0 /\ pc'[Process] = "receive"
        BY <2>1, <2>3, <3>4 DEF One
      <4>2. QED
        BY <3>2, <4>1, Owing
    <3>5. QED
      BY <3>3, <3>4
  <2>5. hot \in {0, 1}
    BY DEF One
  <2> HIDE DEF hot
  <2>6. Owed \in 0 .. 1 /\ Owed' = Owed + hot
    BY <1>4, <2>4, <2>5, Owing
  <2>7. Balance(alarmRuns, Owed, HotAmong(processed))
    BY LedgerIsBalance
  <2>8. Balance(alarmRuns, Owed + hot, HotAmong(IF processed + 1 = Length THEN 0 ELSE processed + 1))
    BY <2>2, <2>6, <2>7, BalanceAfterSample DEF hot
  <2>9. Balance(alarmRuns', Owed', HotAmong(processed'))
    BY <2>1, <2>2, <2>6, <2>8
  <2>10. QED
    BY <2>9 DEF Ledger, Balance
<1>16. QED
  BY <1>6, <1>7, <1>8, <1>9, <1>10, <1>11, <1>12, <1>13, <1>14, <1>15 DEF DemoNext, TaskCode

\* The demo starts with empty hands.
LEMMA InitDemo ==
    ASSUME DemoInit
    PROVE  DemoInv
<1>1. /\ Sensor \in Tasks /\ Process \in Tasks /\ Alarm \in Tasks
      /\ Sensor # Process /\ Sensor # Alarm /\ Process # Alarm
      /\ SampleQueue \in Queues /\ AlarmSem \in Semaphores
  BY DemoObjects
<1>2. Filled(kernel, TaskCount) /\ ring[SampleQueue].count = 0
  BY <1>1, CreatedFilled, InitRings DEF DemoInit, Init
<1>3. /\ \A t \in Tasks : ~Waiting(t) /\ kernel.state[t] = "READY"
  BY <1>2 DEF Filled, Waiting
<1>4. semCount[AlarmSem] = 0
  BY IpcDemoAssumption DEF DemoInit, Init
<1>5. /\ pc \in [{Sensor, Process, Alarm} -> Points]
      /\ pc[Sensor] = "sleep" /\ pc[Process] = "receive" /\ pc[Alarm] = "take"
      /\ sampleIndex = 0 /\ processed = 0 /\ alarmRuns = 0
  BY <1>1 DEF DemoInit, Points
<1>6. Standing
  BY <1>1, <1>3, <1>4, <1>5 DEF Standing, Endless
<1>7. InHand = 0 /\ Accepted = 0
  BY <1>5, Counters
<1>8. Length \in Nat \ {0} /\ 0 % Length = 0
  <2>1. Length \in Nat \ {0} /\ 0 \in 0 .. Length - 1
    BY DemoTable
  <2>2. QED
    BY <2>1, SmallRemainder
<1>9. PipelineAt(0, 0)
  BY <1>1, <1>2, <1>3, <1>5, <1>7, <1>8 DEF PipelineAt
<1>10. Pipeline
  BY <1>9 DEF Pipeline
<1>11. Owed = 0
  BY <1>5, Owing
<1>12. Ledger
  <2>1. HotAmong(Length) \in Nat /\ HotAmong(Length) > 1 /\ HotAmong(processed) = 0
    BY <1>5, HotCount
  <2>2. QED
    BY <1>5, <1>11, <2>1 DEF Ledger
<1>13. QED
  BY <1>6, <1>10, <1>12 DEF DemoInv

\* The inductive invariant of the demo, with the kernel's.
LEMMA AlwaysDemo == DemoSpec => [](SafeInv /\ PriorityInv(kernel) /\ DemoInv)
<1> DEFINE KernelKeeps == SafeInv /\ PriorityInv(kernel) /\ RingsAgree /\ InTable
<1>1. DemoInit => DemoInv
  BY InitDemo
<1>2. KernelKeeps /\ KernelKeeps' /\ DemoInv /\ [DemoNext]_demoVars => DemoInv'
  BY StandingKept, PipelineKept, LedgerKept DEF DemoInv
<1>3. DemoSpec => []KernelKeeps
  BY DemoKernel, AlwaysInTable, PTL
<1>4. QED
  BY <1>1, <1>2, <1>3, PTL DEF DemoSpec

\* Each hot sample has its alarm before the task that found it goes on: the give of a
\* binary semaphore never meets a permit that is counted already.
THEOREM AlarmIsHandled == DemoSpec => []AlarmForEveryHotSample
<1>1. SafeInv /\ PriorityInv(kernel) /\ DemoInv => AlarmForEveryHotSample
  <2> SUFFICES ASSUME SafeInv, PriorityInv(kernel), DemoInv,
                      kernel.current = Process, pc[Process] # "give"
               PROVE  alarmRuns = HotAmong(processed) % HotAmong(Length)
    BY DEF AlarmForEveryHotSample
  <2> DEFINE h == HotAmong(Length)
             H == HotAmong(processed)
             rest == H % h
  <2>1. Waiting(Alarm)
    BY AlarmStandsBy DEF DemoInv
  <2>2. Owed = 0
    BY <2>1, Owing
  <2>3. Balance(alarmRuns, 0, H) /\ H \in 0 .. h
    BY <2>2, LedgerIsBalance DEF DemoInv
  <2>4. h \in Nat /\ h > 1
    BY HotCount
  <2>5. alarmRuns \in 0 .. h - 1 /\ alarmRuns + 0 - H \in {-h, 0, h}
    BY <2>3 DEF Balance
  <2>6. CASE H = h
    <3>1. ((h - 1) + 1) % h = 0
      BY <2>4, Wraps
    <3>2. (h - 1) + 1 = h
      BY <2>4
    <3>3. rest = 0
      BY <2>6, <3>1, <3>2
    <3> HIDE DEF h, H, rest
    <3>4. alarmRuns = 0
      BY <2>3, <2>4, <2>5, <2>6
    <3>5. alarmRuns = rest
      BY <3>3, <3>4
    <3>6. QED
      BY <3>5 DEF rest, h, H
  <2>7. CASE H # h
    <3>1. H \in 0 .. h - 1
      BY <2>3, <2>4, <2>7
    <3>2. rest = H
      BY <2>4, <3>1, SmallRemainder
    <3> HIDE DEF h, H, rest
    <3>3. alarmRuns = H
      BY <2>4, <2>5, <3>1
    <3>4. alarmRuns = rest
      BY <3>2, <3>3
    <3>5. QED
      BY <3>4 DEF rest, h, H
  <2>8. QED
    BY <2>6, <2>7
<1>2. QED
  BY <1>1, AlwaysDemo, PTL

\* Process works on the samples in the order of the sensor's table, none twice and none
\* left out: the sample in processTask's buffer is the next of the table.
WorksInOrder ==
    kernel.current = Process /\ pc[Process] = "work" => buffer[Process] = Temperatures[processed + 1]

\* So the pipeline keeps the order of the readings, through the queue's ring, the direct
\* hand-over to a waiting receiver and the slot refilled by a waiting sender.
THEOREM SamplesInOrder == DemoSpec => []WorksInOrder
<1>1. SafeInv /\ DemoInv => WorksInOrder
  <2> SUFFICES ASSUME SafeInv, DemoInv, kernel.current = Process, pc[Process] = "work"
               PROVE  buffer[Process] = Temperatures[processed + 1]
    BY DEF WorksInOrder
  <2>1. ~Waiting(Process)
    BY DemoObjects, DemoFields
  <2>2. InHand = 1
    BY <2>1, Counters
  <2>3. PICK p, s \in Nat : PipelineAt(p, s)
    BY DEF DemoInv, Pipeline
  <2>4. buffer[Process] = Reading(p) /\ processed = p % Length
    BY <2>2, <2>3 DEF PipelineAt
  <2>5. QED
    BY <2>4 DEF Reading
<1>2. QED
  BY <1>1, AlwaysDemo, PTL
===============================================================================
