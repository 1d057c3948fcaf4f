---------------------------- MODULE ExploreProofs ----------------------------
(***************************************************************************)
(* Theorems about Explore, for any set of places and any number of         *)
(* handlers.                                                               *)
(***************************************************************************)
EXTENDS Explore, TLAPS

LEMMA InitExplore == Init => ExploreInv
  <1> SUFFICES ASSUME Init PROVE ExploreInv
    OBVIOUS
  <1>1. NoTask \in Task /\ NoTask.at = "idle"
    BY DEF NoTask, Task
  <1>2. task \in [Tasks -> Task] /\ \A t \in Tasks : task[t].at = "idle"
    BY <1>1 DEF Init
  <1>3. explores \in 0..MaxExplores /\ saves \in 0..MaxSaves
    BY ExploreAssumption DEF Init
  <1>4. TypeOK
    BY <1>2, <1>3 DEF Init, TypeOK
  <1> QED
    BY <1>2, <1>4 DEF Init, ExploreInv, OneLoad, SeenIsExcluded, DetailsHaveAPlace, Loading

(* What a handler's slot holds after it is written. *)
LEMMA Slots ==
  ASSUME TypeOK, NEW t \in Tasks, NEW r \in Task, task' = [task EXCEPT ![t] = r]
  PROVE  /\ task' \in [Tasks -> Task]
         /\ \A s \in Tasks : task'[s] = IF s = t THEN r ELSE task[s]
  BY DEF TypeOK

LEMMA NextExplore ==
  ASSUME ExploreInv, [Next]_vars
  PROVE  ExploreInv'
  <1> USE ExploreAssumption
  <1> USE DEF ExploreInv, TypeOK, OneLoad, SeenIsExcluded, DetailsHaveAPlace, ratings
  <1>1. ASSUME NEW t \in Tasks, LoadExplore(t) PROVE ExploreInv'
    <2> DEFINE r == [at |-> "chatComplete", place |-> None]
    <2>1. r \in Task /\ r.at = "chatComplete"
      BY DEF Task, Loading
    <2>2. task' = [task EXCEPT ![t] = r]
      BY <1>1 DEF LoadExplore, Await
    <2> HIDE DEF r
    <2>3. /\ task' \in [Tasks -> Task]
          /\ \A s \in Tasks : task'[s] = IF s = t THEN r ELSE task[s]
      BY <2>1, <2>2, Slots
    <2> QED
      BY <1>1, <2>1, <2>3 DEF LoadExplore, Emit, Loading
  <1>2. ASSUME NEW t \in Tasks, NEW p \in Places, chatComplete(t, p) PROVE ExploreInv'
    <2> DEFINE r == [at |-> "getPlace", place |-> p]
    <2>1. r \in Task /\ r.at = "getPlace" /\ r.place = p
      BY DEF Task, Loading
    <2>2. task' = [task EXCEPT ![t] = r]
      BY <1>2 DEF chatComplete, Await
    <2> HIDE DEF r
    <2>3. /\ task' \in [Tasks -> Task]
          /\ \A s \in Tasks : task'[s] = IF s = t THEN r ELSE task[s]
      BY <2>1, <2>2, Slots
    <2> QED
      BY <1>2, <2>1, <2>3 DEF chatComplete, Loading
  <1>3. NoTask \in Task /\ NoTask.at = "idle"
    BY DEF NoTask, Task
  <1>4. ASSUME NEW t \in Tasks, End(t)
        PROVE  /\ task' \in [Tasks -> Task]
               /\ \A s \in Tasks : task'[s] = IF s = t THEN NoTask ELSE task[s]
    BY <1>3, <1>4, Slots DEF End
  <1>5. ASSUME NEW t \in Tasks, EmitExploreLoaded(t) PROVE ExploreInv'
    BY <1>3, <1>4, <1>5 DEF EmitExploreLoaded, Emit, Loading
  <1>6. ASSUME NEW t \in Tasks, EmitExploreError(t) PROVE ExploreInv'
    BY <1>3, <1>4, <1>6 DEF EmitExploreError, Emit, Loading
  <1>7. ASSUME NEW t \in Tasks, addPlaceToListByName(t) PROVE ExploreInv'
    BY <1>3, <1>4, <1>7 DEF addPlaceToListByName, Loading
  <1>8. ASSUME NEW t \in Tasks, SaveFails(t) PROVE ExploreInv'
    BY <1>3, <1>4, <1>8 DEF SaveFails, Emit, Loading
  <1>9. ASSUME NEW t \in Tasks, AddPlaceToNewList(t) PROVE ExploreInv'
    <2> DEFINE r == [at |-> "save", place |-> card]
    <2>1. r \in Task /\ r.at = "save"
      BY DEF Task
    <2>2. task' = [task EXCEPT ![t] = r]
      BY <1>9 DEF AddPlaceToNewList, Await
    <2> HIDE DEF r
    <2>3. /\ task' \in [Tasks -> Task]
          /\ \A s \in Tasks : task'[s] = IF s = t THEN r ELSE task[s]
      BY <2>1, <2>2, Slots
    <2> QED
      BY <1>9, <2>1, <2>3 DEF AddPlaceToNewList, Loading
  <1>10. CASE ThumbDown
    BY <1>10 DEF ThumbDown
  <1>11. CASE ThumbUp
    BY <1>11 DEF ThumbUp
  <1>12. CASE OpenDetails
    BY <1>12 DEF OpenDetails
  <1>13. CASE CloseDetails
    BY <1>13 DEF CloseDetails
  <1>14. CASE UNCHANGED vars
    BY <1>14 DEF vars
  <1> QED
    BY <1>1, <1>2, <1>5, <1>6, <1>7, <1>8, <1>9, <1>10, <1>11, <1>12, <1>13, <1>14
    DEF Next, Resume

(* Every state is well-typed: only ExploreLoaded has a place. *)
THEOREM ExploreTypeCorrect == Spec => []TypeOK
  <1>1. ExploreInv => TypeOK
    BY DEF ExploreInv
  <1> QED
    BY <1>1, InitExplore, NextExplore, PTL DEF Spec

(* Until a save fails, whatever ChatGPT answers and however the places are
   rated, the next prompt leaves out every place that was on a card before. *)
THEOREM NothingTwice == Spec => []SeenIsExcluded
  <1>1. ExploreInv => SeenIsExcluded
    BY DEF ExploreInv, SeenIsExcluded
  <1> QED
    BY <1>1, InitExplore, NextExplore, PTL DEF Spec

(* Until a save fails, the details page never lacks the place it shows. *)
THEOREM DetailsSafe == Spec => []DetailsHaveAPlace
  <1>1. ExploreInv => DetailsHaveAPlace
    BY DEF ExploreInv, DetailsHaveAPlace
  <1> QED
    BY <1>1, InitExplore, NextExplore, PTL DEF Spec
=============================================================================
