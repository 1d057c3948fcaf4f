----------------------------- MODULE MC_Session -----------------------------
(***************************************************************************)
(* Instances of Session for TLC.                                           *)
(***************************************************************************)
EXTENDS Session

CONSTANT Elder      \* one of the two accounts

(* Of the two starts with one account signed up, that with Elder: the other is
   its mirror image, and the properties do not tell accounts apart.         *)
MCInit == Init /\ (users # {} => Elder \in users)

MCSpec == MCInit /\ [][Next]_vars /\ Fairness
=============================================================================
