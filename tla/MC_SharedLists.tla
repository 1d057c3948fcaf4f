--------------------------- MODULE MC_SharedLists ---------------------------
(***************************************************************************)
(* Instances of SharedLists for TLC.                                       *)
(***************************************************************************)
EXTENDS SharedLists, TLC

(* Users, lists and handler slots are interchangeable. *)
Symmetry == Permutations(Users) \cup Permutations(Lists) \cup Permutations(Tasks)
=============================================================================
