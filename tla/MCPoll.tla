------------------------------- MODULE MCPoll -------------------------------
(***************************************************************************)
(* Pollers, readers and writers of one small pipe under the timer, for     *)
(* TLC.                                                                    *)
(***************************************************************************)
EXTENDS Poll

\* A process has one thread.
OwnProcess == [t \in Threads |-> t]
=============================================================================
