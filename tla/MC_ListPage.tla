----------------------------- MODULE MC_ListPage -----------------------------
(***************************************************************************)
(* Instances of ListPage for TLC.                                          *)
(***************************************************************************)
EXTENDS ListPage
=============================================================================
