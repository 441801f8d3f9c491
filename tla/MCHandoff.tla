----------------------------- MODULE MCHandoff -----------------------------
(***************************************************************************)
(* The request transport on a small table, for TLC.                        *)
(***************************************************************************)
EXTENDS Handoff, TLC

\* Actors are interchangeable: no action compares them.
ActorSymmetry == Permutations(Actors)
=============================================================================
