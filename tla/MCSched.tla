------------------------------- MODULE MCSched -------------------------------
(***************************************************************************)
(* Sched with a task of high priority that waits for interrupts, a second  *)
(* one, a user process, and a process that was shut down.                  *)
(***************************************************************************)
EXTENDS Sched

MCPriority == <<3, 2, 2, 0>>
=============================================================================
