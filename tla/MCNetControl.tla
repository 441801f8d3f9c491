---------------------------- MODULE MCNetControl ----------------------------
(***************************************************************************)
(* The callers and the network worker on a small table, for TLC.  A run    *)
(* may restrict what the callers call: one of the Mixes, chosen at the     *)
(* start.                                                                  *)
(***************************************************************************)
EXTENDS NetControl, TLC

CONSTANT Mixes      \* actor -> the kinds of its calls
VARIABLE mix

ActorSymmetry == Permutations(Actors)

MixInit == NCInit /\ mix \in Mixes
MixNext == NCNext /\ mix' = mix /\ \A a \in Actors : call'[a] \in mix[a] \cup {NoKind}
MixSpec == MixInit /\ [][MixNext]_<<ncVars, mix>>
MixFairSpec == MixSpec /\ FairOwner

Split == {[a \in Actors |-> IF a = CHOOSE x \in Actors : TRUE THEN {"ping"} ELSE {"wifi"}]}
OneKind == {[a \in Actors |-> {k}] : k \in Kinds}
=============================================================================
