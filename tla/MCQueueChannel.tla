---------------------------- MODULE MCQueueChannel ----------------------------
(* QueueChannel on the instances of MCMiniRtos. *)
EXTENDS QueueChannel, MCMiniRtos
===============================================================================
