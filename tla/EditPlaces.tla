----------------------------- MODULE EditPlaces ------------------------------
(***************************************************************************)
(* The places of one list, in the Firestore collections places and         *)
(* visited_places, and the devices that edit them through EditPlacesBloc   *)
(* (lib/bloc/place/edit_places_bloc.dart) and add to them through          *)
(* SavedPlacesBloc.                                                        *)
(*                                                                         *)
(* A bloc runs its handlers concurrently.  A batch handler walks the list  *)
(* selectedPlaces itself, not a copy, and awaits a write for each element; *)
(* a Dart list iterator only notices that the list's LENGTH changed.  A    *)
(* move between the collections is two awaited writes, delete then set.    *)
(***************************************************************************)
EXTENDS Naturals, Sequences, SequencesExt

CONSTANTS
  Devices,      \* open pages of the list, each with its EditPlacesBloc
  Places,       \* place ids
  Tasks,        \* slots for handlers suspended at an await
  MaxSelected,  \* bound: length of selectedPlaces
  MaxSessions,  \* bound: StartEditing events
  MaxFaults,    \* bound: killed apps and refused writes
  None          \* "no value"

ASSUME EditPlacesAssumption ==
  /\ MaxSelected \in Nat /\ MaxSessions \in Nat /\ MaxFaults \in Nat
  /\ None \notin Devices

Modes == {"Initial", "Started", "Loading", "Submitted"}

Filters == {"NotVisited", "Visited"}

Ops == {"delete", "deleteVisited", "visit", "unvisit"}

(* Mutant: restoreVisitedPlace forgets to set the place again. *)
IsMarkVisited(op) == op = "visit"

(* The methods that write twice: markPlaceVisited, restoreVisitedPlace. *)
IsMove(op) == op \in {"visit", "unvisit"}

(* A suspended handler: awaiting the delete of a place, the set of a move,
   or the two seconds after EditPlacesSubmitted.  A batch handler also has
   its iterator: the index it has reached and the length it started with.  *)
Task == [pc : {"idle", "write", "set", "linger"}, dev : Devices \cup {None},
         op : Ops \cup {None}, batch : BOOLEAN, place : Places \cup {None},
         index : Nat, length : Nat]

NoTask == [pc |-> "idle", dev |-> None, op |-> None, batch |-> FALSE,
           place |-> None, index |-> 0, length |-> 0]

VARIABLES
  places, visited_places,  \* the two collections
  filter,          \* a page's ListSortCubit
  shown,           \* the places whose cards a device's page shows
  mode,            \* EditPlacesBloc's state
  selectedPlaces,  \* EditPlacesBloc's selection
  task,            \* suspended handlers
  sessions, faults,
  (* history *)
  saved,           \* places ever added
  confirmed,       \* places a user asked to delete
  deleted,         \* places a delete hit since they were last set
  interrupted      \* places a fault lost on their move, since they were last set

collections == <<places, visited_places>>
page == <<filter, shown>>
bloc == <<mode, selectedPlaces>>
history == <<saved, confirmed, deleted, interrupted>>
vars == <<collections, page, bloc, task, sessions, faults, history>>

TypeOK ==
  /\ places \subseteq Places
  /\ visited_places \subseteq Places
  /\ filter \in [Devices -> Filters]
  /\ shown \in [Devices -> SUBSET Places]
  /\ mode \in [Devices -> Modes]
  /\ selectedPlaces \in [Devices -> Seq(Places)]
  /\ task \in [Tasks -> Task]
  /\ \A t \in Tasks : task[t].pc # "idle" => task[t].dev \in Devices
  /\ \A t \in Tasks : task[t].pc \in {"write", "set"} =>
                       task[t].place \in Places /\ task[t].op \in Ops
  /\ \A t \in Tasks : task[t].pc = "set" => IsMove(task[t].op)
  /\ sessions \in Nat
  /\ faults \in Nat
  /\ saved \subseteq Places
  /\ confirmed \subseteq Places
  /\ deleted \subseteq Places
  /\ interrupted \subseteq Places

Init ==
  /\ places = {} /\ visited_places = {}
  /\ filter = [d \in Devices |-> "NotVisited"]
  /\ shown = [d \in Devices |-> {}]
  /\ mode = [d \in Devices |-> "Initial"]
  /\ selectedPlaces = [d \in Devices |-> <<>>]
  /\ task = [t \in Tasks |-> NoTask]
  /\ sessions = 0 /\ faults = 0
  /\ saved = {} /\ confirmed = {} /\ deleted = {} /\ interrupted = {}

-----------------------------------------------------------------------------
(* Reading and adding. *)

(* LoadPlaces or LoadVisitedPlaces: no cards until the stream's snapshot. *)
sortByVisitedStatus(d, f) ==
  /\ filter[d] # f
  /\ filter' = [filter EXCEPT ![d] = f]
  /\ shown' = [shown EXCEPT ![d] = {}]
  /\ UNCHANGED <<collections, bloc, task, sessions, faults, history>>

(* The page's StreamBuilder gets the collection of the last load.  AddPlace
   and an edit of the list load the places whatever the filter is.         *)
Snapshot(d) ==
  /\ \/ shown' = [shown EXCEPT ![d] = places]
     \/ filter[d] = "Visited" /\ shown' = [shown EXCEPT ![d] = visited_places]
  /\ UNCHANGED <<collections, filter, bloc, task, sessions, faults, history>>

addPlaceToList(p) ==
  /\ places' = places \cup {p}
  /\ saved' = saved \cup {p}
  /\ deleted' = deleted \ {p}
  /\ interrupted' = interrupted \ {p}
  /\ UNCHANGED <<visited_places, page, bloc, task, sessions, faults, confirmed>>

-----------------------------------------------------------------------------
(* Selecting. *)

(* EditButton offers StartEditing in every state but EditPlacesStarted. *)
StartEditing(d) ==
  /\ sessions < MaxSessions
  /\ mode[d] # "Started"
  /\ sessions' = sessions + 1
  /\ selectedPlaces' = [selectedPlaces EXCEPT ![d] = <<>>]
  /\ mode' = [mode EXCEPT ![d] = "Started"]
  /\ UNCHANGED <<collections, page, task, faults, history>>

CancelEditing(d) ==
  /\ mode[d] = "Started"
  /\ mode' = [mode EXCEPT ![d] = "Initial"]
  /\ UNCHANGED <<collections, page, selectedPlaces, task, sessions, faults, history>>

SelectPlace(d, p) ==
  /\ mode[d] = "Started"
  /\ p \in shown[d]
  /\ Len(selectedPlaces[d]) < MaxSelected
  /\ selectedPlaces' = [selectedPlaces EXCEPT ![d] = Append(@, p)]
  /\ UNCHANGED <<collections, page, mode, task, sessions, faults, history>>

(* A card's check mark is its own flag and cards have no keys, so once the
   list has been rebuilt either event can be sent for any card, and a place
   can be selected twice.  List.remove compares Place objects by identity:
   which occurrence it removes, if any, depends on the snapshots the cards
   were built from.                                                        *)
UnselectPlace(d, p) ==
  /\ mode[d] = "Started"
  /\ p \in shown[d]
  /\ \/ UNCHANGED selectedPlaces
     \/ \E i \in 1 .. Len(selectedPlaces[d]) :
          /\ selectedPlaces[d][i] = p
          /\ selectedPlaces' = [selectedPlaces EXCEPT ![d] = RemoveAt(@, i)]
  /\ UNCHANGED <<collections, page, mode, task, sessions, faults, history>>

-----------------------------------------------------------------------------
(* Repository writes. *)

(* removePlaceFromList and removePlaceFromVisitedList: the only write.
   markPlaceVisited and restoreVisitedPlace: the first of two.             *)
DeleteDoc(op, p) ==
  LET fromPlaces == op \in {"delete", "visit"} IN
  /\ places' = IF fromPlaces THEN places \ {p} ELSE places
  /\ visited_places' = IF fromPlaces THEN visited_places ELSE visited_places \ {p}
  /\ deleted' = CASE op = "delete" -> deleted \cup ({p} \cap places)
                  [] op = "deleteVisited" -> deleted \cup ({p} \cap visited_places)
                  [] OTHER -> deleted

(* Mutant: restoreVisitedPlace sets the place in visited_places only if it
   is a visit, so an undone visit is set nowhere.                          *)
SetVisitedDoc(op, p) ==
  /\ visited_places' = IF op = "visit" THEN visited_places \cup {p} ELSE visited_places
  /\ deleted' = deleted \ {p}
  /\ interrupted' = interrupted \ {p}
  /\ UNCHANGED places

(* The second write of a move. *)
SetDoc(op, p) ==
  /\ places' = IF op = "unvisit" THEN places \cup {p} ELSE places
  /\ visited_places' = IF op = "visit" THEN visited_places \cup {p} ELSE visited_places
  /\ deleted' = deleted \ {p}
  /\ interrupted' = interrupted \ {p}

Confirm(op, S) ==
  confirmed' = IF IsMove(op) THEN confirmed ELSE confirmed \cup S

Put(t, pc, d, op, batch, p, n, len) ==
  task' = [task EXCEPT ![t] = [pc |-> pc, dev |-> d, op |-> op, batch |-> batch,
                               place |-> p, index |-> n, length |-> len]]

Emit(d, m) == mode' = [mode EXCEPT ![d] = m]

(* Mutant: the handler ends without emitting EditPlacesSubmitted. *)
SubmitSilently(t, d) ==
  /\ task' = [task EXCEPT ![t] = NoTask]
  /\ UNCHANGED <<mode, shown>>

(* The page would answer EditPlacesSubmitted with a load, but dereferences the
   placeList of SavedListsBloc's state, which is null: the cards stay, until
   the snapshot that follows the writes.                                   *)
Submit(t, d) ==
  /\ Put(t, "linger", d, None, FALSE, None, 0, 0)
  /\ Emit(d, "Submitted")
  /\ UNCHANGED shown

(* The iterator moves on.  If the list's length changed it throws a
   ConcurrentModificationError, which ends the handler without another
   state; m is the bloc's state unless the loop is done.                   *)
MoveNext(t, d, op, n, len, m) ==
  \/ /\ Len(selectedPlaces[d]) # len
     /\ task' = [task EXCEPT ![t] = NoTask]
     /\ Emit(d, m)
     /\ UNCHANGED shown
  \/ /\ Len(selectedPlaces[d]) = len
     /\ n >= len
     /\ Submit(t, d)
  \/ /\ Len(selectedPlaces[d]) = len
     /\ n < len
     /\ Put(t, "write", d, op, TRUE, selectedPlaces[d][n + 1], n + 1, len)
     /\ Emit(d, m)
     /\ UNCHANGED shown

(* The repository's method returns to its handler. *)
WriteReturns(t) ==
  LET r == task[t] IN
  IF r.batch THEN MoveNext(t, r.dev, r.op, r.index, r.length, mode[r.dev])
             ELSE Submit(t, r.dev)

-----------------------------------------------------------------------------
(* Handlers. *)

CardButtons(f) == IF f = "Visited" THEN {"unvisit", "deleteVisited"}
                                   ELSE {"visit", "delete"}

(* Marking as visited is the page's first offer, whatever the filter is. *)
PageButtons(f) == IF f = "Visited" THEN {"visit", "deleteVisited"}
                                   ELSE {"visit", "delete"}

(* Mutant: the event carries no place. *)
EditNoPlace(t, d, op, p) ==
  /\ task[t].pc = "idle"
  /\ p \in shown[d]
  /\ op \in CardButtons(filter[d])
  /\ Emit(d, "Loading")
  /\ Confirm(op, {p})
  /\ Put(t, "write", d, op, FALSE, None, 0, 0)
  /\ UNCHANGED <<collections, page, selectedPlaces, sessions, faults, saved,
                 deleted, interrupted>>

(* DeletePlace, DeleteVisitedPlace, MarkVisitedPlace, UnVisitPlace: the
   buttons of a card, offered in every state.                              *)
EditPlace(t, d, op, p) ==
  /\ task[t].pc = "idle"
  /\ p \in shown[d]
  /\ op \in CardButtons(filter[d])
  /\ Emit(d, "Loading")
  /\ Confirm(op, {p})
  /\ Put(t, "write", d, op, FALSE, p, 0, 0)
  /\ UNCHANGED <<collections, page, selectedPlaces, sessions, faults, saved,
                 deleted, interrupted>>

(* Mutant: the handler does not emit EditPlacesLoading first, so cards can
   be selected and unselected while it runs.                               *)
EditSelectedNoLoading(t, d, op) ==
  /\ task[t].pc = "idle"
  /\ mode[d] = "Started"
  /\ op \in PageButtons(filter[d])
  /\ Confirm(op, ToSet(selectedPlaces[d]))
  /\ MoveNext(t, d, op, 0, Len(selectedPlaces[d]), "Started")
  /\ UNCHANGED <<collections, filter, selectedPlaces, sessions, faults, saved,
                 deleted, interrupted>>

(* DeletePlaces, DeleteVisitedPlaces, MarkVisitedPlaces: the handler runs
   to the first await, or to its end when nothing is selected.  These are
   the bloc's events; the page's buttons for them dereference the same null
   placeList as the listener behind Submit, before they add one.           *)
EditSelected(t, d, op) ==
  /\ task[t].pc = "idle"
  /\ mode[d] = "Started"
  /\ op \in PageButtons(filter[d])
  /\ Confirm(op, ToSet(selectedPlaces[d]))
  /\ MoveNext(t, d, op, 0, Len(selectedPlaces[d]), "Loading")
  /\ UNCHANGED <<collections, filter, selectedPlaces, sessions, faults, saved,
                 deleted, interrupted>>

(* The awaited delete is done: a move goes on to its set. *)
DeleteDone(t) ==
  LET r == task[t] IN
  /\ r.pc = "write"
  /\ DeleteDoc(r.op, r.place)
  /\ \/ /\ IsMove(r.op)
        /\ Put(t, "set", r.dev, r.op, r.batch, r.place, r.index, r.length)
        /\ UNCHANGED <<mode, shown>>
     \/ ~IsMove(r.op) /\ WriteReturns(t)
  /\ UNCHANGED <<filter, selectedPlaces, sessions, faults, saved, confirmed, interrupted>>

(* The awaited set of a move is done. *)
SetDone(t) ==
  /\ task[t].pc = "set"
  /\ SetDoc(task[t].op, task[t].place)
  /\ WriteReturns(t)
  /\ UNCHANGED <<filter, selectedPlaces, sessions, faults, saved, confirmed>>

(* Future.delayed(2 s), then EditPlacesInitial whatever the state is now. *)
Linger(t) ==
  /\ task[t].pc = "linger"
  /\ Emit(task[t].dev, "Initial")
  /\ task' = [task EXCEPT ![t] = NoTask]
  /\ UNCHANGED <<collections, page, selectedPlaces, sessions, faults, history>>

-----------------------------------------------------------------------------
(* Failures. *)

InTransit(S) == {task[t].place : t \in {s \in S : task[s].pc = "set"}}

(* What the list keeps without the handlers of S. *)
KeptBut(S) == places \cup visited_places \cup InTransit(Tasks \ S)

(* A FirebaseException is rethrown and ends the handler; the bloc keeps the
   state it is in.                                                         *)
WriteRefused(t) ==
  /\ faults < MaxFaults
  /\ task[t].pc \in {"write", "set"}
  /\ faults' = faults + 1
  /\ interrupted' = interrupted \cup (InTransit({t}) \ KeptBut({t}))
  /\ task' = [task EXCEPT ![t] = NoTask]
  /\ UNCHANGED <<collections, page, bloc, sessions, saved, confirmed, deleted>>

(* The app is killed; the page is opened again. *)
Restart(d) ==
  LET mine == {t \in Tasks : task[t].dev = d} IN
  /\ faults < MaxFaults
  /\ faults' = faults + 1
  /\ interrupted' = interrupted \cup (InTransit(mine) \ KeptBut(mine))
  /\ task' = [t \in Tasks |-> IF t \in mine THEN NoTask ELSE task[t]]
  /\ filter' = [filter EXCEPT ![d] = "NotVisited"]
  /\ shown' = [shown EXCEPT ![d] = {}]
  /\ mode' = [mode EXCEPT ![d] = "Initial"]
  /\ selectedPlaces' = [selectedPlaces EXCEPT ![d] = <<>>]
  /\ UNCHANGED <<collections, sessions, saved, confirmed, deleted>>

-----------------------------------------------------------------------------
Step(t) == DeleteDone(t) \/ SetDone(t) \/ Linger(t)

Press(d) ==
  \/ StartEditing(d)
  \/ CancelEditing(d)
  \/ \E f \in Filters : sortByVisitedStatus(d, f)
  \/ \E p \in Places : SelectPlace(d, p)
  \/ \E p \in Places : UnselectPlace(d, p)
  \/ \E t \in Tasks, op \in Ops, p \in Places : EditPlace(t, d, op, p)
  \/ \E t \in Tasks, op \in Ops : EditSelected(t, d, op)

Next ==
  \/ \E t \in Tasks : Step(t)
  \/ \E d \in Devices : Press(d)
  \/ \E d \in Devices : Snapshot(d)
  \/ \E p \in Places : addPlaceToList(p)
  \/ \E t \in Tasks : WriteRefused(t)
  \/ \E d \in Devices : Restart(d)

Spec == Init /\ [][Next]_vars

(* Acknowledged writes and timers resume their handlers; users are free. *)
FairSpec == Spec /\ \A t \in Tasks : WF_vars(Step(t))

-----------------------------------------------------------------------------
(* Properties. *)

(* A place once added is in one of the two collections, or about to be set
   in one by a move, unless a delete hit it or a fault ended the move that
   alone still had it: however many devices move it back and forth at once,
   the two-write moves of markPlaceVisited and restoreVisitedPlace do not
   lose it.                                                                *)
NoPlaceLost ==
  \A p \in saved :
    p \in places \cup visited_places \cup InTransit(Tasks) \cup deleted \cup interrupted

(* Only a place some user asked to delete is deleted: the one on whose card
   they pressed delete, or one that was selected when they pressed Delete.
   It holds up to the second editing session: StartEditing empties, and lets
   the user refill, the list an earlier batch may still be walking.        *)
OnlyConfirmedDeletes == sessions <= 1 => deleted \subseteq confirmed

(* What makes it so: while a batch handler runs nothing can be selected, so
   what its iterator still has before it was selected when it was started. *)
ConfirmInv ==
  /\ \A d \in Devices : mode[d] = "Started" => sessions > 0
  /\ \A t \in Tasks :
       task[t].pc \in {"write", "set"} /\ task[t].batch =>
         /\ mode[task[t].dev] # "Started"
         /\ sessions > 0
         /\ ~IsMove(task[t].op) => ToSet(selectedPlaces[task[t].dev]) \subseteq confirmed
  /\ \A t \in Tasks :
       task[t].pc = "write" /\ ~IsMove(task[t].op) => task[t].place \in confirmed
  /\ deleted \subseteq confirmed

(* A bloc does not stay in EditPlacesLoading. *)
EditSettles == \A d \in Devices : mode[d] = "Loading" ~> mode[d] # "Loading"

(* The two collections and the moves between them implement the ledger. *)
Ledger == INSTANCE PlaceLedger WITH
            kept <- places \cup visited_places \cup InTransit(Tasks),
            transit <- InTransit(Tasks)

(* A list loses a place only by a delete that hits it at rest or by a fault
   that hits it on the move.                                               *)
KeepsLedger == Ledger!Spec
=============================================================================
