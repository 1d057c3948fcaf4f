---------------------------- MODULE MC_EditPlaces ----------------------------
(***************************************************************************)
(* Instances of EditPlaces for TLC.                                        *)
(***************************************************************************)
EXTENDS EditPlaces, TLC

(* Devices, places and handler slots are interchangeable. *)
Symmetry ==
  Permutations(Devices) \cup Permutations(Places) \cup Permutations(Tasks)
=============================================================================
