------------------------------ MODULE ListPage ------------------------------
(***************************************************************************)
(* ListPage: the page of one list, as SavedPlacesBloc loads it             *)
(* (lib/bloc/saved_places/bloc/saved_places_bloc.dart).                    *)
(*                                                                         *)
(* A load subscribes to the list, its owner and its places, waits a fixed  *)
(* time and emits SavedPlacesLoaded with what the bloc's fields hold by    *)
(* then.  Handlers run concurrently and share these fields: placeStream,   *)
(* listOwner and _currentPlaceList.  Subscriptions are never cancelled, so *)
(* those of lists opened before still write them.                          *)
(***************************************************************************)
EXTENDS Naturals, Sequences, SequencesExt

CONSTANTS
  Lists,        \* place lists; every one has an owner of its own
  MaxTimers,    \* bound: handlers that wait at the same time
  MaxEvents,    \* bound: events the pages add
  MaxChanges,   \* bound: later versions of list and owner documents
  None          \* "no value"

Collections == {"places", "visited"}

(* How long a handler waits, in units of 100 ms. *)
Delay(kind) == CASE kind = "places" -> 10 [] kind = "visited" -> 6 [] kind = "add" -> 5

Stream == [list : Lists, of : Collections]
Timer == [kind : Collections \cup {"add"}, list : Lists]

ASSUME ListPageAssumption ==
  /\ MaxTimers \in Nat \ {0} /\ MaxEvents \in Nat /\ MaxChanges \in Nat
  /\ None \notin Lists \cup Stream

VARIABLES
  (* the pages *)
  opened,       \* the list whose page was opened last
  filter,       \* ListSortCubit's status
  (* SavedPlacesBloc's state *)
  state,        \* "Initial", "Loading", "Updated" or "Loaded"
  placeList,    \* its placeList
  owner,        \* its listOwner: the list whose owner that is
  places,       \* its placeStream
  (* SavedPlacesBloc's fields *)
  placeStream, listOwner, currentPlaceList,
  timers,       \* waiting handlers, in the order they started
  (* Firestore's listeners *)
  listDue,      \* listened to: lists with a snapshot to deliver
  listHad,      \* listened to: lists whose snapshot was delivered
  ownerDue, ownerHad,
  (* bounds and history *)
  events, changes,
  strayed,      \* since it was opened, a load of another list was started
  unfiltered,   \* since the filter was set, places were loaded under "visited"
  failed        \* the last load to end found no owner

state_ == <<state, placeList, owner, places>>
fields == <<placeStream, listOwner, currentPlaceList>>
listeners == <<listDue, listHad, ownerDue, ownerHad>>
history == <<strayed, unfiltered, failed>>
vars == <<opened, filter, state_, fields, timers, listeners, events, changes, history>>

TypeOK ==
  /\ opened \in Lists \cup {None}
  /\ filter \in Collections
  /\ state \in {"Initial", "Loading", "Updated", "Loaded"}
  /\ state = "Loaded" => placeList \in Lists /\ owner \in Lists /\ places \in Stream
  /\ state # "Loaded" => placeList = None
  /\ placeStream \in Stream \cup {None}
  /\ listOwner \in Lists \cup {None} /\ currentPlaceList \in Lists \cup {None}
  /\ timers \in Seq(Timer) /\ Len(timers) <= MaxTimers
  /\ listDue \cup listHad \cup ownerDue \cup ownerHad \subseteq Lists
  /\ events \in 0..MaxEvents /\ changes \in 0..MaxChanges
  /\ strayed \in BOOLEAN /\ unfiltered \in BOOLEAN /\ failed \in BOOLEAN

Init ==
  /\ opened = None
  /\ filter = "places"
  /\ state = "Initial" /\ placeList = None /\ owner = None /\ places = None
  /\ placeStream = None /\ listOwner = None /\ currentPlaceList = None
  /\ timers = << >>
  /\ listDue = {} /\ listHad = {} /\ ownerDue = {} /\ ownerHad = {}
  /\ events = 0 /\ changes = 0
  /\ strayed = FALSE /\ unfiltered = FALSE /\ failed = FALSE

-----------------------------------------------------------------------------
(* Helpers. *)

Emit(s) ==
  /\ state' = s /\ placeList' = None /\ owner' = None /\ places' = None

Pressed == events < MaxEvents /\ events' = events + 1

(* The part of LoadPlaces and LoadVisitedPlaces before their delay, of the
   handler that continues the waiting ones in rest.  Only LoadPlaces keeps
   the list in _currentPlaceList.                                          *)
StartLoad(kind, l, rest) ==
  /\ Len(rest) < MaxTimers
  /\ Emit("Loading")
  /\ placeStream' = [list |-> l, of |-> kind]
  /\ listDue' = IF kind = "places" THEN listDue \cup {l} ELSE listDue
  /\ ownerDue' = ownerDue \cup {l}
  /\ timers' = Append(rest, [kind |-> kind, list |-> l])
  /\ UNCHANGED <<listHad, ownerHad, listOwner, currentPlaceList>>

(* Mutant: a load waits for its documents instead of a fixed time. *)
AnyOrder(n) == n \in 1..Len(timers)

(* Timers fire in the order of their ends: not before one that started earlier
   and waits no longer.                                                    *)
MayFire(n) ==
  \A m \in 1..(n - 1) : Delay(timers[m].kind) > Delay(timers[n].kind)

-----------------------------------------------------------------------------
(* The pages. *)

(* A card of the home page is tapped; the route creates a new ListSortCubit. *)
OpenList(l) ==
  /\ Pressed
  /\ StartLoad("places", l, timers)
  /\ opened' = l /\ filter' = "places"
  /\ strayed' = FALSE /\ unfiltered' = FALSE /\ failed' = FALSE
  /\ UNCHANGED changes

(* The filter button: it is live while the state has a list, and loads that
   list.                                                                   *)
SetFilter(f) ==
  /\ Pressed
  /\ state = "Loaded" /\ f # filter
  /\ StartLoad(f, placeList, timers)
  /\ filter' = f
  /\ strayed' = (strayed \/ placeList # opened)
  /\ unfiltered' = FALSE /\ failed' = FALSE
  /\ UNCHANGED <<opened, changes>>

(* From the search sheet, to the list of the state, or from Explore, to any. *)
AddPlace(l) ==
  /\ Pressed
  /\ Len(timers) < MaxTimers
  /\ state \in {"Initial", "Loaded", "Updated"}
  /\ Emit("Loading")
  /\ timers' = Append(timers, [kind |-> "add", list |-> l])
  /\ strayed' = (strayed \/ l # opened)
  /\ UNCHANGED <<opened, filter, fields, listeners, changes, unfiltered, failed>>

(* SavedListsBloc emits SavedListsUpdated: the list kept last is loaded. *)
SavedListsUpdated ==
  /\ Pressed
  /\ currentPlaceList # None
  /\ StartLoad("places", currentPlaceList, timers)
  /\ strayed' = (strayed \/ currentPlaceList # opened)
  /\ unfiltered' = (unfiltered \/ filter = "visited")
  /\ failed' = FALSE
  /\ UNCHANGED <<opened, filter, changes>>

-----------------------------------------------------------------------------
(* The ends of the delays. *)

(* Mutant: the stream of the load itself, not the field. *)
EmitOwnStream(n) ==
  LET t == timers[n] IN
  /\ t.kind # "add" /\ MayFire(n)
  /\ timers' = RemoveAt(timers, n)
  /\ IF listOwner # None
     THEN /\ state' = "Loaded" /\ placeList' = t.list /\ owner' = listOwner
          /\ places' = [list |-> t.list, of |-> t.kind]
          /\ failed' = FALSE
     ELSE failed' = TRUE /\ UNCHANGED state_
  /\ UNCHANGED <<opened, filter, fields, listeners, events, changes, strayed, unfiltered>>

(* Mutant: the owner is not dereferenced. *)
EmitWithoutOwner(n) ==
  LET t == timers[n] IN
  /\ t.kind # "add" /\ MayFire(n)
  /\ timers' = RemoveAt(timers, n)
  /\ state' = "Loaded" /\ placeList' = t.list /\ owner' = listOwner
  /\ places' = placeStream
  /\ failed' = FALSE
  /\ UNCHANGED <<opened, filter, fields, listeners, events, changes, strayed, unfiltered>>

(* listOwner! throws if no owner has ever been delivered. *)
EmitLoaded(n) ==
  LET t == timers[n] IN
  /\ t.kind # "add" /\ MayFire(n)
  /\ timers' = RemoveAt(timers, n)
  /\ IF listOwner # None
     THEN /\ state' = "Loaded" /\ placeList' = t.list /\ owner' = listOwner
          /\ places' = placeStream
          /\ failed' = FALSE
     ELSE failed' = TRUE /\ UNCHANGED state_
  /\ UNCHANGED <<opened, filter, fields, listeners, events, changes, strayed, unfiltered>>

(* Mutant: no load is added. *)
AddedOnly(n) ==
  /\ timers[n].kind = "add" /\ MayFire(n)
  /\ Emit("Updated")
  /\ timers' = RemoveAt(timers, n)
  /\ UNCHANGED <<opened, filter, fields, listeners, events, changes, history>>

(* SavedPlacesUpdated lasts until the load that is added with it starts. *)
PlaceAdded(n) ==
  LET t == timers[n] IN
  /\ t.kind = "add" /\ MayFire(n)
  /\ StartLoad("places", t.list, RemoveAt(timers, n))
  /\ strayed' = (strayed \/ t.list # opened)
  /\ unfiltered' = (unfiltered \/ filter = "visited")
  /\ failed' = FALSE
  /\ UNCHANGED <<opened, filter, events, changes>>

-----------------------------------------------------------------------------
(* The listeners. *)

ListSnapshot(l) ==
  /\ l \in listDue
  /\ listDue' = listDue \ {l} /\ listHad' = listHad \cup {l}
  /\ currentPlaceList' = l
  /\ UNCHANGED <<opened, filter, state_, placeStream, listOwner, timers, ownerDue,
                 ownerHad, events, changes, history>>

OwnerSnapshot(l) ==
  /\ l \in ownerDue
  /\ ownerDue' = ownerDue \ {l} /\ ownerHad' = ownerHad \cup {l}
  /\ listOwner' = l
  /\ UNCHANGED <<opened, filter, state_, placeStream, currentPlaceList, timers,
                 listDue, listHad, events, changes, history>>

(* A document somebody listens to is written again. *)
DocumentChanges(l) ==
  /\ changes < MaxChanges
  /\ changes' = changes + 1
  /\ \/ l \in listHad /\ listDue' = listDue \cup {l} /\ UNCHANGED ownerDue
     \/ l \in ownerHad /\ ownerDue' = ownerDue \cup {l} /\ UNCHANGED listDue
  /\ UNCHANGED <<opened, filter, state_, fields, timers, listHad, ownerHad, events,
                 history>>

-----------------------------------------------------------------------------
Elapse == \E n \in 1..Len(timers) : EmitLoaded(n) \/ PlaceAdded(n)

Page ==
  \/ \E l \in Lists : OpenList(l)
  \/ \E f \in Collections : SetFilter(f)
  \/ \E l \in Lists : AddPlace(l)
  \/ SavedListsUpdated

Next ==
  \/ Elapse
  \/ Page
  \/ \E l \in Lists : ListSnapshot(l)
  \/ \E l \in Lists : OwnerSnapshot(l)
  \/ \E l \in Lists : DocumentChanges(l)

(* A delay ends; documents may take as long as they want. *)
Spec == Init /\ [][Next]_vars /\ WF_vars(Elapse)

-----------------------------------------------------------------------------
(* Properties. *)

(* When the loads have ended, the page shows the list that was opened: places
   of that list, on cards that write to that list.  It holds although loads
   overtake each other, unless a load of another list was started under the
   page.                                                                   *)
ShowsOpenedList ==
  state = "Loaded" /\ timers = << >> /\ ~strayed =>
    placeList = opened /\ places.list = opened

(* The heading is the filter's, and so are the places, also while older loads
   are still to end: the faster load of the visited places and the slower one
   never show each other's, unless places were loaded under the filter
   "visited".                                                              *)
FilterIsShown ==
  state = "Loaded" /\ ~unfiltered => places.of = filter

(* The page does not stay loading, unless no owner's document came in time. *)
PageSettles == (state = "Loading") ~> (state = "Loaded" \/ failed)

-----------------------------------------------------------------------------
(* The inductive invariant behind the safety properties. *)

(* SavedPlacesLoaded has the stream of the load that was started last: every
   start of a load emits SavedPlacesLoading.                               *)
StreamIsShown ==
  /\ state = "Loaded" => places = placeStream /\ listOwner # None
  /\ \A i \in 1..Len(timers) : timers[i].kind # "add" => placeStream # None
  /\ placeStream # None /\ ~unfiltered => placeStream.of = filter

(* The load of the opened list is still to end, and so is nothing of another
   list that was started after it; no other delay is longer, so everything
   that was started before it ends first.                                  *)
ToCome ==
  \E p \in 1..Len(timers) :
    /\ timers[p].kind = "places"
    /\ \A i \in p..Len(timers) : timers[i].list = opened

(* The loads of other lists have ended. *)
Settled ==
  /\ \A i \in 1..Len(timers) : timers[i].list = opened
  /\ state = "Loaded" => placeList = opened

OnTrack ==
  ~strayed =>
    /\ opened = None => timers = << >> /\ state # "Loaded"
    /\ opened # None => /\ placeStream # None /\ placeStream.list = opened
                        /\ ToCome \/ Settled

ListPageInv == TypeOK /\ StreamIsShown /\ OnTrack
=============================================================================
