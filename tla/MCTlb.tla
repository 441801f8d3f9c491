---------------------------- MODULE MCTlb ----------------------------
(* Tlb with one kernel page and one user page.                             *)
EXTENDS Tlb

MCRootOf == [k |-> Kernel, u |-> "r"]
=============================================================================
