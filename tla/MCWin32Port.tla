------------------------------ MODULE MCWin32Port ------------------------------
(* Win32Port on small instances; each task makes the calls of its own part. *)
EXTENDS Win32Port, MCMiniRtos

Yield == Request("YIELD", 0, 0, NoMessage)
Delay == Request("DELAY", 0, 1, NoMessage)
Take(ticks) == Request("SEM_TAKE", 0, ticks, NoMessage)
Give == Request("SEM_GIVE", 0, 0, NoMessage)

\* Two tasks of one priority: one takes with a timeout, the other gives.
TakeAndGive == AsTasks(<<{Take(1)}, {Give, Delay}, {Yield}>>)

\* A task that delays and computes, and Idle.
OneTaskIdle == AsTasks(<<1, 0>>)
DelayAndYield == AsTasks(<<{Delay, Yield}, {Yield}>>)

\* A low task gives what a high one waits for, a tick at most.
LowHighIdle == AsTasks(<<1, 2, 0>>)
GiveAndTake == AsTasks(<<{Give}, {Take(1)}, {Yield}>>)
===============================================================================
