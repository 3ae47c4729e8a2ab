--------------------------- MODULE MCSavingsGroup ---------------------------
(***************************************************************************)
(* Instances of SavingsGroup for TLC.  Users are numbered in the order they *)
(* join and keep their identity; processes are interchangeable.            *)
(***************************************************************************)
EXTENDS SavingsGroup

Symmetry == Permutations(Sessions) \cup Permutations(Workers)
=============================================================================
