------------------------------- MODULE MCPipe -------------------------------
(***************************************************************************)
(* A pipe with a ring of a few bytes shared by a few processes of one      *)
(* thread each, for TLC.                                                   *)
(***************************************************************************)
EXTENDS Pipe, TLC

OwnProcess == [t \in Threads |-> t]
ThreadSymmetry == Permutations(Threads)
=============================================================================
