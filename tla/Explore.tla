------------------------------- MODULE Explore -------------------------------
(***************************************************************************)
(* Explore: the page that asks ChatGPT for a place, looks it up at Google  *)
(* and shows it as a card (lib/bloc/explore/explore_bloc.dart,             *)
(* lib/view/pages/explore.dart, explore/explore_details.dart).  The answer *)
(* depends on the prompt, which asks to leave out the places rated or      *)
(* already shown; ChatGPT is free to ignore that.                          *)
(***************************************************************************)
EXTENDS Naturals

CONSTANTS
  Places,       \* places ChatGPT knows, by name
  MaxTasks,     \* bound: suspended handlers
  MaxExplores,  \* bound: presses of "Explore" and "Retry"
  MaxSaves,     \* bound: AddPlaceToNewList events
  None          \* no place

ASSUME ExploreAssumption ==
  MaxTasks \in Nat /\ MaxExplores \in Nat /\ MaxSaves \in Nat /\ None \notin Places

(* Slots for suspended handlers, and what a handler awaits. *)
Tasks == 1..MaxTasks
Loading == {"chatComplete", "getPlace"}
Task == [at : {"idle", "save"} \cup Loading, place : Places \cup {None}]
NoTask == [at |-> "idle", place |-> None]

VARIABLES
  state,            \* ExploreBloc's state
  card,             \* the place of ExploreLoaded, None in the other states
  details,          \* the details page covers the card
  queryHistory, negativeQueries, positiveQueries,
  task,
  explores, saves,  \* bounds
  seen,             \* history: places that were on a card
  saveFailed        \* history: a save failed

ratings == <<queryHistory, negativeQueries, positiveQueries>>
vars == <<state, card, details, ratings, task, explores, saves, seen, saveFailed>>

TypeOK ==
  /\ state \in {"Initial", "Loading", "Loaded", "Error"}
  /\ card \in Places \cup {None} /\ (card # None <=> state = "Loaded")
  /\ details \in BOOLEAN
  /\ queryHistory \subseteq Places
  /\ negativeQueries \subseteq Places /\ positiveQueries \subseteq Places
  /\ task \in [Tasks -> Task]
  /\ explores \in 0..MaxExplores /\ saves \in 0..MaxSaves
  /\ seen \subseteq Places /\ saveFailed \in BOOLEAN

Init ==
  /\ state = "Initial" /\ card = None
  /\ details = FALSE
  /\ queryHistory = {} /\ negativeQueries = {} /\ positiveQueries = {}
  /\ task = [t \in Tasks |-> NoTask]
  /\ explores = 0 /\ saves = 0
  /\ seen = {} /\ saveFailed = FALSE

-----------------------------------------------------------------------------
(* Helpers. *)

Free(t) == task[t].at = "idle" /\ \A s \in 1..(t - 1) : task[s].at # "idle"
Await(t, at, p) == task' = [task EXCEPT ![t] = [at |-> at, place |-> p]]
End(t) == task' = [task EXCEPT ![t] = NoTask]

Emit(s, p) ==
  /\ state' = s /\ card' = p
  /\ seen' = IF p = None THEN seen ELSE seen \cup {p}

-----------------------------------------------------------------------------
(* Asking. *)

(* Mutant: only a place that was rated goes into the history. *)
HistoryOfRated(t) ==
  /\ explores < MaxExplores
  /\ state # "Loading" /\ ~details
  /\ Free(t)
  /\ explores' = explores + 1
  /\ queryHistory' = IF state = "Loaded" /\ card \in negativeQueries \cup positiveQueries
                     THEN queryHistory \cup {card} ELSE queryHistory
  /\ Emit("Loading", None)
  /\ Await(t, "chatComplete", None)
  /\ UNCHANGED <<details, negativeQueries, positiveQueries, saves, saveFailed>>

(* Mutant: the load does not emit ExploreLoading first. *)
LoadBehindCard(t) ==
  /\ explores < MaxExplores
  /\ state # "Loading" /\ ~details
  /\ Free(t)
  /\ explores' = explores + 1
  /\ queryHistory' = IF state = "Loaded" /\ card \notin negativeQueries \cup positiveQueries
                     THEN queryHistory \cup {card} ELSE queryHistory
  /\ Await(t, "chatComplete", None)
  /\ UNCHANGED <<state, card, seen, details, negativeQueries, positiveQueries, saves,
                 saveFailed>>

(* "Explore" and "Retry".  The page adds the card's place to the history
   after the event and before the handler reads it for the prompt.         *)
LoadExplore(t) ==
  /\ explores < MaxExplores
  /\ state # "Loading" /\ ~details
  /\ Free(t)
  /\ explores' = explores + 1
  /\ queryHistory' = IF state = "Loaded" /\ card \notin negativeQueries \cup positiveQueries
                     THEN queryHistory \cup {card} ELSE queryHistory
  /\ Emit("Loading", None)
  /\ Await(t, "chatComplete", None)
  /\ UNCHANGED <<details, negativeQueries, positiveQueries, saves, saveFailed>>

chatComplete(t, p) ==
  /\ task[t].at = "chatComplete"
  /\ Await(t, "getPlace", p)
  /\ UNCHANGED <<state, card, details, ratings, explores, saves, seen, saveFailed>>

(* getAutoComplete and getPlace, one after the other. *)
EmitExploreLoaded(t) ==
  /\ task[t].at = "getPlace"
  /\ Emit("Loaded", task[t].place)
  /\ End(t)
  /\ UNCHANGED <<details, ratings, explores, saves, saveFailed>>

(* Mutant: nothing catches what the requests throw. *)
ErrorNotCaught(t) ==
  /\ task[t].at \in Loading
  /\ End(t)
  /\ UNCHANGED <<state, card, seen, details, ratings, explores, saves, saveFailed>>

(* No answer of ChatGPT's, none that parses, no result for the name, or a
   request that throws.                                                    *)
EmitExploreError(t) ==
  /\ task[t].at \in Loading
  /\ Emit("Error", None)
  /\ End(t)
  /\ UNCHANGED <<details, ratings, explores, saves, saveFailed>>

-----------------------------------------------------------------------------
(* Rating. *)

(* Thumbs: whether one is pressed is read from the list at every build. *)
ThumbDown ==
  /\ state = "Loaded" /\ ~details
  /\ negativeQueries' = IF card \in negativeQueries THEN negativeQueries \ {card}
                        ELSE negativeQueries \cup {card}
  /\ UNCHANGED <<state, card, details, queryHistory, positiveQueries, task, explores,
                 saves, seen, saveFailed>>

ThumbUp ==
  /\ state = "Loaded" /\ ~details
  /\ positiveQueries' = IF card \in positiveQueries THEN positiveQueries \ {card}
                        ELSE positiveQueries \cup {card}
  /\ UNCHANGED <<state, card, details, queryHistory, negativeQueries, task, explores,
                 saves, seen, saveFailed>>

-----------------------------------------------------------------------------
(* The details page and saving. *)

OpenDetails ==
  /\ state = "Loaded" /\ ~details
  /\ details' = TRUE
  /\ UNCHANGED <<state, card, ratings, task, explores, saves, seen, saveFailed>>

CloseDetails ==
  /\ details
  /\ details' = FALSE
  /\ UNCHANGED <<state, card, ratings, task, explores, saves, seen, saveFailed>>

(* "Create New List" in the dialog of the card or of the details page. *)
AddPlaceToNewList(t) ==
  /\ saves < MaxSaves
  /\ state = "Loaded"
  /\ Free(t)
  /\ saves' = saves + 1
  /\ Await(t, "save", card)
  /\ UNCHANGED <<state, card, details, ratings, explores, seen, saveFailed>>

addPlaceToListByName(t) ==
  /\ task[t].at = "save"
  /\ End(t)
  /\ UNCHANGED <<state, card, details, ratings, explores, saves, seen, saveFailed>>

(* Mutant: the failed save keeps the place of the state it replaces. *)
ErrorKeepsPlace(t) ==
  /\ task[t].at = "save"
  /\ Emit("Error", card)
  /\ saveFailed' = TRUE
  /\ End(t)
  /\ UNCHANGED <<details, ratings, explores, saves>>

(* Whatever the page shows by then gives way to the error. *)
SaveFails(t) ==
  /\ task[t].at = "save"
  /\ Emit("Error", None)
  /\ saveFailed' = TRUE
  /\ End(t)
  /\ UNCHANGED <<details, ratings, explores, saves>>

-----------------------------------------------------------------------------
Resume(t) ==
  \/ \E p \in Places : chatComplete(t, p)
  \/ EmitExploreLoaded(t)
  \/ EmitExploreError(t)
  \/ addPlaceToListByName(t)
  \/ SaveFails(t)

Next ==
  \/ \E t \in Tasks : LoadExplore(t) \/ AddPlaceToNewList(t) \/ Resume(t)
  \/ ThumbDown \/ ThumbUp
  \/ OpenDetails \/ CloseDetails

(* A request ends, with an answer or not; nobody has to press anything. *)
Spec == Init /\ [][Next]_vars /\ \A t \in Tasks : WF_vars(Resume(t))

-----------------------------------------------------------------------------
(* Properties. *)

(* Every place that was on a card and is not now is left out by the next
   prompt (createExploreChatGPTQuery reads the three lists), however it was
   rated in between.  A failed save, which removes the card by itself, is
   the one way around the lists.                                           *)
SeenIsExcluded ==
  ~saveFailed =>
    seen \subseteq queryHistory \cup negativeQueries \cup positiveQueries \cup {card}

(* The details page dereferences the place of the bloc's state whenever it is
   built, and no load takes that place away under it; a failed save does.  *)
DetailsHaveAPlace == details /\ ~saveFailed => state = "Loaded"

(* What both rest on: as long as no save has failed, the page shows the state
   of the one load under way, and a task that has its place has a place.   *)
OneLoad ==
  \A t \in Tasks : task[t].at \in Loading =>
    /\ state = "Loading"
    /\ \A s \in Tasks : task[s].at \in Loading => s = t

ExploreInv ==
  /\ TypeOK
  /\ \A t \in Tasks : task[t].at = "getPlace" => task[t].place \in Places
  /\ ~saveFailed => OneLoad /\ SeenIsExcluded /\ DetailsHaveAPlace

(* "Exploring..." ends: every way out of the handler emits a state. *)
ExploreSettles == state = "Loading" ~> state # "Loading"
=============================================================================
