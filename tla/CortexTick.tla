------------------------------ MODULE CortexTick ------------------------------
(***************************************************************************)
(* The tick of the Cortex-M port.  SysTick_Handler calls os_TimeTick       *)
(* without masking interrupts and at the lowest priority, so an interrupt  *)
(* handler that gives a semaphore can run between any two accesses of      *)
(* os_TimeTick.  Here the tick is split where it reads the head of the     *)
(* delay list, where it pops it and where it decides on a switch; each     *)
(* operation on a list stays one step.                                     *)
(***************************************************************************)
EXTENDS MiniRtos

VARIABLES tickPc,       \* where SysTick_Handler stands; "idle" outside it
          due,          \* its local task: the head it has found due
          wokeHigher    \* its local woke_higher_priority

tickVars == <<tickPc, due, wokeHigher>>
cortexVars == <<kernel, semCount, ring, buffer, tickPc, due, wokeHigher>>

CortexInit == Init /\ tickPc = "idle" /\ due = NoTask /\ wokeHigher = FALSE

\* The tick counter advances, and the lists are exchanged at its wrap.
TickBegin ==
    /\ tickPc = "idle" /\ kernel.started
    /\ kernel' = AdvanceTick(kernel)
    /\ tickPc' = "look" /\ wokeHigher' = FALSE
    /\ UNCHANGED <<due, semCount, ring, buffer>>

\* The loop's condition, and the test of the head's wake-up time.
TickLook ==
    /\ tickPc = "look"
    /\ \/ HeadIsDue(kernel) /\ due' = Head(kernel.delayed) /\ tickPc' = "pop"
       \/ ~HeadIsDue(kernel) /\ due' = NoTask /\ tickPc' = "decide"
    /\ UNCHANGED <<kernel, wokeHigher, semCount, ring, buffer>>

\* os_ListPopFront takes whatever task is the head by now, or nothing; the rest
\* of the loop's body is about the task found before.
TickPop ==
    /\ tickPc = "pop"
    /\ kernel' = Wake(IF kernel.delayed = <<>> THEN kernel ELSE PopDelayed(kernel), due)
    /\ wokeHigher' = (wokeHigher \/ OutranksCurrent(kernel', due))
    /\ tickPc' = "look"
    /\ UNCHANGED <<due, semCount, ring, buffer>>

TickDecide ==
    /\ tickPc = "decide"
    /\ kernel' = TickSwitch(UseSlice(kernel), wokeHigher)
    /\ tickPc' = "idle"
    /\ UNCHANGED <<due, wokeHigher, semCount, ring, buffer>>

\* xSemaphoreGiveFromISR masks interrupts, and so is one step of its own.
DeviceInterrupt == Interrupt /\ UNCHANGED tickVars

\* Tasks run in thread mode: only while SysTick is not active.
ThreadMode ==
    /\ tickPc = "idle"
    /\ Start \/ \E t \in Tasks : Scheduling(t) \/ UserCall(t)
    /\ UNCHANGED tickVars

CortexNext ==
    \/ TickBegin \/ TickLook \/ TickPop \/ TickDecide
    \/ DeviceInterrupt
    \/ ThreadMode

CortexSpec == CortexInit /\ [][CortexNext]_cortexVars
-------------------------------------------------------------------------------
\* docs/design.md:428, the fourth kernel invariant: a task in BLOCKED_DELAY is in
\* the delay queue.  Where no handler is active, no sleeping task has been
\* dropped from the lists that alone can wake it.
SleepersAreListed ==
    tickPc = "idle" =>
        \A t \in Tasks : kernel.state[t] = "BLOCKED_DELAY" => DelayLinked(kernel, t)
===============================================================================
