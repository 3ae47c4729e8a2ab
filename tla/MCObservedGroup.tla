-------------------------- MODULE MCObservedGroup --------------------------
(***************************************************************************)
(* Instances of ObservedGroup for TLC.                                     *)
(***************************************************************************)
EXTENDS ObservedGroup

Symmetry == Permutations(Sessions) \cup Permutations(Workers)
=============================================================================
