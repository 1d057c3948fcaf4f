----------------------------- MODULE PlaceLedger -----------------------------
(***************************************************************************)
(* What a list promises about its places, whichever of its two collections *)
(* they are in: a place that is kept stays kept until someone deletes it,  *)
(* or until a fault interrupts a move between the collections.             *)
(***************************************************************************)
EXTENDS Naturals

CONSTANT Places

VARIABLES
  kept,      \* the places the list has, in a collection or on the move
  transit,   \* the places on the move between the two collections
  faults     \* the faults so far

vars == <<kept, transit, faults>>

Init == kept = {} /\ transit = {} /\ faults = 0

(* A place is saved, or a move starts or arrives: nothing is dropped. *)
Keep(p) ==
  /\ kept' = kept \cup {p}
  /\ transit' \in {transit, transit \cup {p}, transit \ {p}}
  /\ UNCHANGED faults

(* A place at rest is deleted. *)
Delete(p) ==
  /\ p \notin transit
  /\ kept' = kept \ {p}
  /\ UNCHANGED <<transit, faults>>

(* Only a fault loses places, and only those on the move, all or part of
   them.                                                                   *)
Lose ==
  /\ faults' = faults + 1
  /\ transit' \subseteq transit
  /\ kept' \subseteq kept
  /\ kept \ kept' \subseteq transit \ transit'

Next == (\E p \in Places : Keep(p) \/ Delete(p)) \/ Lose

Spec == Init /\ [][Next]_vars
=============================================================================
