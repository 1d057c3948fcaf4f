---------------------------- MODULE MC_SavedLists ----------------------------
(***************************************************************************)
(* Instances of SavedLists for TLC.                                        *)
(***************************************************************************)
EXTENDS SavedLists
=============================================================================
