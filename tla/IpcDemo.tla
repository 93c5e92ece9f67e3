-------------------------------- MODULE IpcDemo --------------------------------
(***************************************************************************)
(* demos/ipc_demo.c over the kernel: a sensor task (priority 2) sends      *)
(* temperatures to a queue, a slower process task (1) receives them, works *)
(* and gives a semaphore for each hot one, and an alarm task (3) waits for *)
(* that semaphore and works.  The demo calls the kernel in the order its   *)
(* code says; between two calls its threads may be slow, so that any       *)
(* number of ticks may pass, and a run has no end.                         *)
(***************************************************************************)
EXTENDS MiniRtos

CONSTANTS
    Temperatures,   \* the values of sensorTask's table
    HotOnes,        \* those of at least ALARM_TEMPERATURE
    FirstDelay, Period,         \* ticks the sensor sleeps
    ProcessWork, AlarmWork      \* ticks of workForTicks

VARIABLES
    pc,         \* where each task stands
    start,      \* workForTicks's start_tick
    sampleIndex,    \* sample_index, wrapped at the table's length
    processed,      \* g_samples_processed, wrapped there too
    alarmRuns       \* g_alarm_runs, wrapped at the number of hot values in the table

\* The handles, in the order of creation; Idle comes last.
Sensor == 0
Process == 1
Alarm == 2
SampleQueue == 0
AlarmSem == 0

Length == Len(Temperatures)
HotAmong(n) == Cardinality({i \in 1 .. n : Temperatures[i] \in HotOnes})

ASSUME IpcDemoAssumption ==
    /\ TaskCount = 4 /\ SemCount = 1 /\ QueueCount = 1 /\ MutexCount = 0
    /\ BasePriority[Alarm] > BasePriority[Sensor] /\ BasePriority[Sensor] > BasePriority[Process]
    /\ BasePriority[Process] > IdlePriority /\ IsIdle(TaskCount - 1)
    /\ Temperatures \in Seq(Messages) /\ HotAmong(Length) > 1
    /\ MaximumCount[AlarmSem] = 1 /\ InitialCount[AlarmSem] = 0
    /\ {FirstDelay, Period, ProcessWork, AlarmWork} \subseteq Ticks \ {0}
    \* The demo's calls are among those MiniRtos allows.
    /\ {FirstDelay, Period} \subseteq Delays /\ WaitForever \in Timeouts

progress == <<sampleIndex, processed, alarmRuns>>
demoVars == <<vars, pc, start, progress>>

Points == {"sleep", "delay", "send", "sent", "receive", "received", "work", "give", "take", "taken"}

DemoInit ==
    /\ Init
    /\ pc = [t \in {Sensor, Process, Alarm} |->
                CASE t = Sensor -> "sleep" [] t = Process -> "receive" [] OTHER -> "take"]
    /\ start = [t \in {Process, Alarm} |-> 0]
    /\ sampleIndex = 0 /\ processed = 0 /\ alarmRuns = 0

\* The current task goes on in its code.
Goes(t, from, to) ==
    /\ kernel.current = t /\ kernel.state[t] = "RUNNING"
    /\ pc[t] = from /\ pc' = [pc EXCEPT ![t] = to]

\* A call that waits for ever is answered OK.  With another answer the task would
\* leave its loop; here it stands still, and PipelineMoves fails.
Answered(t) == kernel.result[t] = "OK"
-------------------------------------------------------------------------------
\* workForTicks: the loop ends when the task finds that the ticks have passed.
BeginWork(t) == start' = [start EXCEPT ![t] = kernel.tick]
WorkIsDone(t) ==
    (kernel.tick - start[t]) % TickModulus >= (IF t = Process THEN ProcessWork ELSE AlarmWork)

SensorSleeps ==
    /\ \/ Goes(Sensor, "sleep", "send") /\ TaskDelay(Sensor, FirstDelay)
       \/ Goes(Sensor, "delay", "send") /\ TaskDelay(Sensor, Period)
    /\ UNCHANGED <<semCount, queueVars, start, progress>>

SensorSends ==
    /\ Goes(Sensor, "send", "sent")
    /\ QueueSend(SampleQueue, Temperatures[sampleIndex + 1], WaitForever)
    /\ UNCHANGED <<semCount, start, progress>>

SensorCounts ==
    /\ Goes(Sensor, "sent", "delay") /\ Answered(Sensor)
    /\ sampleIndex' = (sampleIndex + 1) % Length
    /\ UNCHANGED <<vars, start, processed, alarmRuns>>

ProcessReceives ==
    /\ Goes(Process, "receive", "received")
    /\ QueueReceive(SampleQueue, WaitForever)
    /\ UNCHANGED <<semCount, start, progress>>

ProcessBegins ==
    /\ Goes(Process, "received", "work") /\ Answered(Process)
    /\ BeginWork(Process)
    /\ UNCHANGED <<vars, progress>>

ProcessFinishes ==
    /\ Goes(Process, "work", IF buffer[Process] \in HotOnes THEN "give" ELSE "receive")
    /\ WorkIsDone(Process)
    /\ processed' = (processed + 1) % Length
    /\ UNCHANGED <<vars, start, sampleIndex, alarmRuns>>

ProcessGives ==
    /\ Goes(Process, "give", "receive")
    /\ SemGive(AlarmSem)
    /\ UNCHANGED <<queueVars, start, progress>>

AlarmTakes ==
    /\ Goes(Alarm, "take", "taken")
    /\ SemTake(AlarmSem, WaitForever)
    /\ UNCHANGED <<queueVars, start, progress>>

AlarmBegins ==
    /\ Goes(Alarm, "taken", "work") /\ Answered(Alarm)
    /\ alarmRuns' = (alarmRuns + 1) % HotAmong(Length)
    /\ BeginWork(Alarm)
    /\ UNCHANGED <<vars, sampleIndex, processed>>

AlarmFinishes ==
    /\ Goes(Alarm, "work", "take") /\ WorkIsDone(Alarm)
    /\ UNCHANGED <<vars, start, progress>>

TaskCode ==
    \/ SensorSleeps \/ SensorSends \/ SensorCounts
    \/ ProcessReceives \/ ProcessBegins \/ ProcessFinishes \/ ProcessGives
    \/ AlarmTakes \/ AlarmBegins \/ AlarmFinishes

\* The kernel's own part: os_Start, the timer and the Idle task.
KernelPart ==
    /\ \/ Start
       \/ Timer
       \/ kernel.current = TaskCount - 1 /\ Scheduling(kernel.current)
    /\ UNCHANGED <<pc, start, progress>>

DemoNext == TaskCode \/ KernelPart

DemoSpec == DemoInit /\ [][DemoNext]_demoVars

\* A task whose next step is due, and that has the processor again and again, gets
\* on with its code; and the timer never stops.
IsDue(t) == pc[t] = "work" => WorkIsDone(t)
FairDemoSpec ==
    /\ DemoSpec
    /\ []<><<kernel'.tick # kernel.tick>>_vars
    /\ \A t \in {Sensor, Process, Alarm} :
          SF_pc(IsDue(t) /\ \E to \in Points : Goes(t, pc[t], to))
-------------------------------------------------------------------------------
\* One alarm is handled for each hot sample, before the task that found it
\* goes on: no give meets a counted permit, although the semaphore is binary.
AlarmForEveryHotSample ==
    kernel.current = Process /\ pc[Process] # "give" =>
        alarmRuns = HotAmong(processed) % HotAmong(Length)

\* The pipeline never stops, although it waits at both ends of the queue and its consumer
\* has the lowest priority: again and again a sample is processed.
PipelineMoves == []<>(pc[Process] = "work") /\ []<>(pc[Process] # "work")
===============================================================================
