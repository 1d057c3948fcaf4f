----------------------------- MODULE MC_Usernames -----------------------------
(***************************************************************************)
(* Instances of Usernames for TLC.                                         *)
(***************************************************************************)
EXTENDS Usernames, TLC

(* Users, names and handler slots are interchangeable. *)
Symmetry ==
  Permutations(Users) \cup Permutations(Names) \cup Permutations(Tasks)
=============================================================================
