---------------------------- MODULE MCSched ----------------------------
(* Two CPUs, the boot thread and a process of two threads.                 *)
EXTENDS Sched

MCIdle == [c \in Cpus |-> <<"idle0", "idle1">>[c + 1]]
MCProcOf == [main |-> None, p1 |-> "p", p2 |-> "p"]
MCHome == [main |-> 0, p1 |-> 0, p2 |-> 1]
=============================================================================
