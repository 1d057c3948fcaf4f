-------------------------- MODULE SavedListsProofs --------------------------
(***************************************************************************)
(* Theorems about SavedLists, for any set of lists and any number of       *)
(* concurrent handlers.                                                    *)
(***************************************************************************)
EXTENDS SavedLists, TLAPS

LEMMA InitLoad == Init => LoadInv
  <1> SUFFICES ASSUME Init PROVE LoadInv
    OBVIOUS
  <1>1. NoHandler \in Handler /\ NoHandler.at = "idle"
    BY DEF NoHandler, Handler
  <1>2. handler \in [Handlers -> Handler] /\ \A h \in Handlers : handler[h].at = "idle"
    BY <1>1 DEF Init
  <1>3. reloads \in 0..MaxReloads /\ updates \in 0..MaxUpdates /\ refused \in 0..MaxRefused
    BY SavedListsAssumption DEF Init
  <1>4. TypeOK
    BY <1>2, <1>3, SavedListsAssumption DEF Init, TypeOK
  <1> QED
    BY <1>2, <1>4 DEF Init, LoadInv, CreatedOnce

(* What the slots hold after one of them is written. *)
LEMMA Slots ==
  ASSUME TypeOK, NEW h \in Handlers, NEW r \in Handler, handler' = [handler EXCEPT ![h] = r]
  PROVE  /\ handler' \in [Handlers -> Handler]
         /\ \A g \in Handlers : handler'[g] = IF g = h THEN r ELSE handler[g]
  BY DEF TypeOK

LEMMA EndSlots ==
  ASSUME TypeOK, NEW h \in Handlers, End(h)
  PROVE  /\ handler' \in [Handlers -> Handler]
         /\ \A g \in Handlers : g # h => handler'[g] = handler[g]
         /\ handler'[h].at = "idle"
  <1>1. NoHandler \in Handler /\ NoHandler.at = "idle"
    BY DEF NoHandler, Handler
  <1> QED
    BY <1>1, Slots DEF End

LEMMA AwaitSlots ==
  ASSUME TypeOK, NEW h \in Handlers,
         NEW at \in {"set", "addId", "removeId", "delete", "update", "get", "contributor"},
         NEW l \in Lists \cup {None}, NEW left \in SUBSET Lists, Await(h, at, l, left)
  PROVE  /\ handler' \in [Handlers -> Handler]
         /\ \A g \in Handlers : g # h => handler'[g] = handler[g]
         /\ handler'[h].at = at /\ handler'[h].list = l /\ handler'[h].left = left
  <1> DEFINE r == [at |-> at, list |-> l, left |-> left]
  <1>1. r \in Handler /\ r.at = at /\ r.list = l /\ r.left = left
    BY DEF Handler
  <1>2. handler' = [handler EXCEPT ![h] = r]
    BY DEF Await
  <1> HIDE DEF r
  <1> QED
    BY <1>1, <1>2, Slots

LEMMA NextLoad ==
  ASSUME LoadInv, [Next]_vars
  PROVE  LoadInv'
  <1> USE SavedListsAssumption
  <1> USE DEF LoadInv, TypeOK, CreatedOnce, EndsLoading, Hindered, bounds, history, accepts
  <1>1. ASSUME NEW h \in Handlers, ProfileSnapshot(h)
        PROVE  LoadInv'
    <2>1. Await(h, "get", None, placeListIds) /\ None \in Lists \cup {None} /\ placeListIds \in SUBSET Lists
      BY <1>1 DEF ProfileSnapshot, StartLoad
    <2>2. /\ handler' \in [Handlers -> Handler]
          /\ \A g \in Handlers : g # h => handler'[g] = handler[g]
          /\ handler'[h].at = "get" /\ handler'[h].list = None /\ handler'[h].left = placeListIds
      BY <2>1, AwaitSlots
    <2>3. TypeOK'
      BY <1>1, <2>2 DEF ProfileSnapshot, StartLoad
    <2>4. CreatedOnce'
      BY <1>1, <2>2 DEF ProfileSnapshot, StartLoad
    <2>5. ~changed' => profile' = placeListIds'
      BY <1>1, <2>2 DEF ProfileSnapshot, StartLoad
    <2>6. savedLists' = "Loading" =>
           changed' \/ Hindered' \/ \E g \in Handlers : EndsLoading(g)'
      BY <1>1, <2>2 DEF ProfileSnapshot, StartLoad
    <2> QED
      BY <2>3, <2>4, <2>5, <2>6 DEF LoadInv
  <1>2. ASSUME NEW h \in Handlers, LoadSavedLists(h)
        PROVE  LoadInv'
    <2>1. Await(h, "get", None, profile) /\ None \in Lists \cup {None} /\ profile \in SUBSET Lists
      BY <1>2 DEF LoadSavedLists, StartLoad
    <2>2. /\ handler' \in [Handlers -> Handler]
          /\ \A g \in Handlers : g # h => handler'[g] = handler[g]
          /\ handler'[h].at = "get" /\ handler'[h].list = None /\ handler'[h].left = profile
      BY <2>1, AwaitSlots
    <2> QED
      BY <1>2, <2>2 DEF LoadSavedLists, StartLoad
  <1>3. ASSUME NEW h \in Handlers, NEW l \in Lists, AddList(h, l)
        PROVE  LoadInv'
    <2>1. Await(h, "set", l, {}) /\ l \in Lists \cup {None} /\ {} \in SUBSET Lists
      BY <1>3 DEF AddList
    <2>2. /\ handler' \in [Handlers -> Handler]
          /\ \A g \in Handlers : g # h => handler'[g] = handler[g]
          /\ handler'[h].at = "set" /\ handler'[h].list = l /\ handler'[h].left = {}
      BY <2>1, AwaitSlots
    <2> QED
      BY <1>3, <2>2 DEF AddList
  <1>4. ASSUME NEW h \in Handlers, NEW l \in Lists, RemoveList(h, l)
        PROVE  LoadInv'
    <2>1. Await(h, "removeId", l, {}) /\ l \in Lists \cup {None} /\ {} \in SUBSET Lists
      BY <1>4 DEF RemoveList
    <2>2. /\ handler' \in [Handlers -> Handler]
          /\ \A g \in Handlers : g # h => handler'[g] = handler[g]
          /\ handler'[h].at = "removeId" /\ handler'[h].list = l /\ handler'[h].left = {}
      BY <2>1, AwaitSlots
    <2> QED
      BY <1>4, <2>2 DEF RemoveList
  <1>5. ASSUME NEW h \in Handlers, NEW l \in Lists, UpdateSavedLists(h, l)
        PROVE  LoadInv'
    <2>1. Await(h, "update", l, {}) /\ l \in Lists \cup {None} /\ {} \in SUBSET Lists
      BY <1>5 DEF UpdateSavedLists
    <2>2. /\ handler' \in [Handlers -> Handler]
          /\ \A g \in Handlers : g # h => handler'[g] = handler[g]
          /\ handler'[h].at = "update" /\ handler'[h].list = l /\ handler'[h].left = {}
      BY <2>1, AwaitSlots
    <2> QED
      BY <1>5, <2>2 DEF UpdateSavedLists
  <1>6. ASSUME NEW h \in Handlers, NEW l \in Lists, AcceptInvite(h, l)
        PROVE  LoadInv'
    <2>1. Await(h, "contributor", l, {}) /\ l \in Lists \cup {None} /\ {} \in SUBSET Lists
      BY <1>6 DEF AcceptInvite
    <2>2. /\ handler' \in [Handlers -> Handler]
          /\ \A g \in Handlers : g # h => handler'[g] = handler[g]
          /\ handler'[h].at = "contributor" /\ handler'[h].list = l /\ handler'[h].left = {}
      BY <2>1, AwaitSlots
    <2> QED
      BY <1>6, <2>2 DEF AcceptInvite
  <1>7. ASSUME NEW h \in Handlers, NEW l \in Lists, getMyPlaceListsFuture(h, l)
        PROVE  LoadInv'
    <2> DEFINE k == handler[h].list
    <2>1. CASE l \in documents
      <3>1. Await(h, "get", None, handler[h].left \ {l}) /\ None \in Lists \cup {None} /\ handler[h].left \ {l} \in SUBSET Lists
        BY <1>7, <2>1 DEF getMyPlaceListsFuture, Handler
      <3>2. /\ handler' \in [Handlers -> Handler]
            /\ \A g \in Handlers : g # h => handler'[g] = handler[g]
            /\ handler'[h].at = "get" /\ handler'[h].list = None /\ handler'[h].left = handler[h].left \ {l}
        BY <3>1, AwaitSlots
      <3> QED
        BY <1>7, <2>1, <3>2 DEF getMyPlaceListsFuture
    <2>2. CASE l \notin documents
      <3>1. End(h)
        BY <1>7, <2>2 DEF getMyPlaceListsFuture
      <3>2. /\ handler' \in [Handlers -> Handler]
            /\ \A g \in Handlers : g # h => handler'[g] = handler[g]
            /\ handler'[h].at = "idle"
        BY <3>1, EndSlots
      <3> QED
        BY <1>7, <2>2, <3>2 DEF getMyPlaceListsFuture
    <2> QED
      BY <1>7, <2>1, <2>2 DEF getMyPlaceListsFuture
  <1>8. ASSUME NEW h \in Handlers, Loaded(h)
        PROVE  LoadInv'
    <2>1. End(h)
      BY <1>8 DEF Loaded
    <2>2. /\ handler' \in [Handlers -> Handler]
          /\ \A g \in Handlers : g # h => handler'[g] = handler[g]
          /\ handler'[h].at = "idle"
      BY <2>1, EndSlots
    <2> QED
      BY <1>8, <2>2 DEF Loaded
  <1>9. ASSUME NEW h \in Handlers, createPlaceList(h)
        PROVE  LoadInv'
    <2> DEFINE k == handler[h].list
    <2>1. CASE handler[h].at = "set"
      <3>1. Await(h, "addId", k, {}) /\ k \in Lists \cup {None} /\ {} \in SUBSET Lists
        BY <1>9, <2>1 DEF createPlaceList, Handler
      <3>2. /\ handler' \in [Handlers -> Handler]
            /\ \A g \in Handlers : g # h => handler'[g] = handler[g]
            /\ handler'[h].at = "addId" /\ handler'[h].list = k /\ handler'[h].left = {}
        BY <3>1, AwaitSlots
      <3> QED
        BY <1>9, <2>1, <3>2 DEF createPlaceList
    <2>2. CASE handler[h].at = "addId"
      <3>1. End(h)
        BY <1>9, <2>2 DEF createPlaceList
      <3>2. /\ handler' \in [Handlers -> Handler]
            /\ \A g \in Handlers : g # h => handler'[g] = handler[g]
            /\ handler'[h].at = "idle"
        BY <3>1, EndSlots
      <3> QED
        BY <1>9, <2>2, <3>2 DEF createPlaceList
    <2> QED
      BY <1>9, <2>1, <2>2 DEF createPlaceList
  <1>10. ASSUME NEW h \in Handlers, removePlaceList(h)
        PROVE  LoadInv'
    <2> DEFINE k == handler[h].list
    <2>1. CASE handler[h].at = "removeId" /\ k \in Mine
      <3>1. Await(h, "delete", k, {}) /\ k \in Lists \cup {None} /\ {} \in SUBSET Lists
        BY <1>10, <2>1 DEF removePlaceList, Handler
      <3>2. /\ handler' \in [Handlers -> Handler]
            /\ \A g \in Handlers : g # h => handler'[g] = handler[g]
            /\ handler'[h].at = "delete" /\ handler'[h].list = k /\ handler'[h].left = {}
        BY <3>1, AwaitSlots
      <3>3. TypeOK'
        BY <1>10, <2>1, <3>2 DEF removePlaceList
      <3>4. CreatedOnce'
        BY <1>10, <2>1, <3>2 DEF removePlaceList
      <3>5. ~changed' => profile' = placeListIds'
        BY <1>10, <2>1, <3>2 DEF removePlaceList
      <3>6. savedLists' = "Loading" =>
             changed' \/ Hindered' \/ \E g \in Handlers : EndsLoading(g)'
        BY <1>10, <2>1, <3>2 DEF removePlaceList
      <3> QED
        BY <3>3, <3>4, <3>5, <3>6 DEF LoadInv
    <2>2. CASE handler[h].at = "removeId" /\ k \notin Mine
      <3>1. End(h)
        BY <1>10, <2>2 DEF removePlaceList
      <3>2. /\ handler' \in [Handlers -> Handler]
            /\ \A g \in Handlers : g # h => handler'[g] = handler[g]
            /\ handler'[h].at = "idle"
        BY <3>1, EndSlots
      <3>3. TypeOK'
        BY <1>10, <2>2, <3>2 DEF removePlaceList
      <3>4. CreatedOnce'
        BY <1>10, <2>2, <3>2 DEF removePlaceList
      <3>5. ~changed' => profile' = placeListIds'
        BY <1>10, <2>2, <3>2 DEF removePlaceList
      <3>6. savedLists' = "Loading" =>
             changed' \/ Hindered' \/ \E g \in Handlers : EndsLoading(g)'
        BY <1>10, <2>2, <3>2 DEF removePlaceList
      <3> QED
        BY <3>3, <3>4, <3>5, <3>6 DEF LoadInv
    <2>3. CASE handler[h].at = "delete"
      <3>1. End(h)
        BY <1>10, <2>3 DEF removePlaceList
      <3>2. /\ handler' \in [Handlers -> Handler]
            /\ \A g \in Handlers : g # h => handler'[g] = handler[g]
            /\ handler'[h].at = "idle"
        BY <3>1, EndSlots
      <3> QED
        BY <1>10, <2>3, <3>2 DEF removePlaceList
    <2> QED
      BY <1>10, <2>1, <2>2, <2>3 DEF removePlaceList
  <1>11. ASSUME NEW h \in Handlers, updatePlaceLists(h)
        PROVE  LoadInv'
    <2> DEFINE k == handler[h].list
    <2>1. CASE k \in documents
      <3>1. Await(h, "get", None, profile) /\ None \in Lists \cup {None} /\ profile \in SUBSET Lists
        BY <1>11, <2>1 DEF updatePlaceLists, StartLoad, Handler
      <3>2. /\ handler' \in [Handlers -> Handler]
            /\ \A g \in Handlers : g # h => handler'[g] = handler[g]
            /\ handler'[h].at = "get" /\ handler'[h].list = None /\ handler'[h].left = profile
        BY <3>1, AwaitSlots
      <3> QED
        BY <1>11, <2>1, <3>2 DEF updatePlaceLists, StartLoad
    <2>2. CASE k \notin documents
      <3>1. End(h)
        BY <1>11, <2>2 DEF updatePlaceLists
      <3>2. /\ handler' \in [Handlers -> Handler]
            /\ \A g \in Handlers : g # h => handler'[g] = handler[g]
            /\ handler'[h].at = "idle"
        BY <3>1, EndSlots
      <3> QED
        BY <1>11, <2>2, <3>2 DEF updatePlaceLists
    <2> QED
      BY <1>11, <2>1, <2>2 DEF updatePlaceLists
  <1>12. ASSUME NEW h \in Handlers, Refused(h)
        PROVE  LoadInv'
    <2>1. End(h)
      BY <1>12 DEF Refused
    <2>2. /\ handler' \in [Handlers -> Handler]
          /\ \A g \in Handlers : g # h => handler'[g] = handler[g]
          /\ handler'[h].at = "idle"
      BY <2>1, EndSlots
    <2>3. TypeOK'
      BY <1>12, <2>2 DEF Refused
    <2>4. CreatedOnce'
      BY <1>12, <2>2 DEF Refused
    <2>5. ~changed' => profile' = placeListIds'
      BY <1>12, <2>2 DEF Refused
    <2>6. savedLists' = "Loading" =>
           changed' \/ Hindered' \/ \E g \in Handlers : EndsLoading(g)'
      BY <1>12, <2>2 DEF Refused
    <2> QED
      BY <2>3, <2>4, <2>5, <2>6 DEF LoadInv
  <1>13. ASSUME NEW h \in Handlers, addContributorToList(h)
        PROVE  LoadInv'
    <2> DEFINE k == handler[h].list
    <2>1. CASE Await(h, "addId", k, {}) /\ UNCHANGED gaveUp /\ k \in documents
      <3>1. Await(h, "addId", k, {}) /\ k \in Lists \cup {None} /\ {} \in SUBSET Lists
        BY <1>13, <2>1 DEF addContributorToList, Handler
      <3>2. /\ handler' \in [Handlers -> Handler]
            /\ \A g \in Handlers : g # h => handler'[g] = handler[g]
            /\ handler'[h].at = "addId" /\ handler'[h].list = k /\ handler'[h].left = {}
        BY <3>1, AwaitSlots
      <3> QED
        BY <1>13, <2>1, <3>2 DEF addContributorToList
    <2>2. CASE End(h) /\ gaveUp' = gaveUp \cup {k}
      <3>1. End(h)
        BY <1>13, <2>2 DEF addContributorToList
      <3>2. /\ handler' \in [Handlers -> Handler]
            /\ \A g \in Handlers : g # h => handler'[g] = handler[g]
            /\ handler'[h].at = "idle"
        BY <3>1, EndSlots
      <3>3. TypeOK'
        BY <1>13, <2>2, <3>2 DEF addContributorToList
      <3>4. CreatedOnce'
        BY <1>13, <2>2, <3>2 DEF addContributorToList
      <3>5. ~changed' => profile' = placeListIds'
        BY <1>13, <2>2, <3>2 DEF addContributorToList
      <3>6. savedLists' = "Loading" =>
             changed' \/ Hindered' \/ \E g \in Handlers : EndsLoading(g)'
        BY <1>13, <2>2, <3>2 DEF addContributorToList
      <3> QED
        BY <3>3, <3>4, <3>5, <3>6 DEF LoadInv
    <2> QED
      BY <1>13, <2>1, <2>2 DEF addContributorToList
  <1>14. CASE ListSnapshot
    BY <1>14 DEF ListSnapshot, getPlaceLists
  <1>15. ASSUME NEW l \in Lists, OwnerRemoves(l) PROVE LoadInv'
    BY <1>15 DEF OwnerRemoves
  <1>16. CASE UNCHANGED vars
    BY <1>16 DEF vars
  <1> QED
    BY <1>1, <1>2, <1>3, <1>4, <1>5, <1>6, <1>7, <1>8, <1>9, <1>10, <1>11, <1>12, <1>13,
       <1>14, <1>15, <1>16
    DEF Next, Resume, Press

(* Every state is well-typed; a handler that writes knows its list. *)
THEOREM ListsTypeCorrect == Spec => []TypeOK
  <1>1. LoadInv => TypeOK
    BY DEF LoadInv
  <1> QED
    BY <1>1, InitLoad, NextLoad, PTL DEF Spec

(* However many loads, writes and accepted invites overlap, the page is not
   left in SavedListsLoading with nothing under way, unless a handler ended
   in vain or a list of the account is gone.                                  *)
THEOREM LoadingEnds == Spec => []NotLeftLoading
  <1>1. LoadInv => NotLeftLoading
    BY DEF LoadInv, NotLeftLoading, TypeOK, EndsLoading
  <1> QED
    BY <1>1, InitLoad, NextLoad, PTL DEF Spec
=============================================================================
