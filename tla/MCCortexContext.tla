---------------------------- MODULE MCCortexContext ----------------------------
(* CortexContext on small instances; each task makes the calls of its own part. *)
EXTENDS CortexContext, MCMiniRtos

Yield == Request("YIELD", 0, 0, NoMessage)
Take(ticks) == Request("SEM_TAKE", 0, ticks, NoMessage)
Give == Request("SEM_GIVE", 0, 0, NoMessage)

\* A low task gives what a high one takes, and interrupts give as well.
LowHighIdle == AsTasks(<<1, 2, 0>>)
GiverAndTaker == AsTasks(<<{Give}, {Take(1), Take(WaitForever)}, {Yield}>>)
===============================================================================
