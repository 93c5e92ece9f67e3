----------------------------- MODULE MCCortexTick -----------------------------
(* CortexTick on the instances of MCMiniRtos. *)
EXTENDS CortexTick, MCMiniRtos
===============================================================================
