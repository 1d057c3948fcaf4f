----------------------------- MODULE MC_Explore -----------------------------
(***************************************************************************)
(* Instances of Explore for TLC.                                           *)
(***************************************************************************)
EXTENDS Explore
=============================================================================
