------------------------------- MODULE MCIpcDemo -------------------------------
(* The IPC demo with shorter tables, times and queue. *)
EXTENDS IpcDemo, MCMiniRtos

Priorities213 == AsTasks(<<2, 1, 3, 0>>)
Table == <<"72", "24", "68">>
TableValues == {"72", "24", "68"}
TableHot == {"72", "68"}
===============================================================================
