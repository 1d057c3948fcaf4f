----------------------------- MODULE SavedLists -----------------------------
(***************************************************************************)
(* SavedLists: how one user's home page follows the lists in the account.  *)
(* SavedListsBloc (lib/bloc/saved_categories/bloc/saved_lists_bloc.dart)   *)
(* reloads at every snapshot ProfileBloc emits; AddList and RemoveList     *)
(* emit SavedListsLoading, write, and leave it to that snapshot to end the *)
(* loading.  The page's StreamBuilder has a stream only in                 *)
(* SavedListsLoaded; in the other states it keeps the cards it drew last.  *)
(***************************************************************************)
EXTENDS Naturals

CONSTANTS
  Lists,        \* ids of place lists
  Mine,         \* those the user creates; the others have another owner
  Handlers,     \* slots for suspended handlers of SavedListsBloc
  MaxReloads,   \* bound: LoadSavedLists events a page adds by itself
  MaxUpdates,   \* bound: UpdateSavedLists events
  MaxRefused,   \* bound: writes and gets Firestore refuses
  None          \* "no value"

ASSUME SavedListsAssumption ==
  /\ Mine \subseteq Lists /\ None \notin Lists
  /\ MaxReloads \in Nat /\ MaxUpdates \in Nat /\ MaxRefused \in Nat

VARIABLES
  (* Firestore *)
  documents,    \* place_lists
  placeListIds, \* users/{me}.placeListIds
  changed,      \* the user's document has a snapshot to deliver
  (* the app *)
  profile,      \* placeListIds in ProfileBloc's state
  savedLists,   \* SavedListsBloc's state
  cards,        \* the lists the home page draws
  handler,      \* suspended handlers
  (* bounds and history *)
  created, reloads, updates, refused,
  vain,         \* a handler has ended in SavedListsLoading, with no snapshot since
  accepted,     \* lists whose invite was accepted
  gaveUp        \* those of them nothing was added for

bounds == <<created, reloads, updates, refused>>
accepts == <<accepted, gaveUp>>
history == <<vain, accepts>>
vars == <<documents, placeListIds, changed, profile, savedLists, cards, handler,
          bounds, history>>

(* What a handler awaits, for which list, and which lists a load has still to read. *)
Handler == [at : {"idle", "set", "addId", "removeId", "delete", "update",
                  "get", "contributor"},
            list : Lists \cup {None}, left : SUBSET Lists]

NoHandler == [at |-> "idle", list |-> None, left |-> {}]

TypeOK ==
  /\ documents \subseteq Lists /\ placeListIds \subseteq Lists
  /\ changed \in BOOLEAN
  /\ profile \subseteq Lists
  /\ savedLists \in {"Loading", "Loaded"}
  /\ cards \subseteq Lists
  /\ handler \in [Handlers -> Handler]
  /\ \A h \in Handlers : handler[h].at \notin {"idle", "get"} => handler[h].list \in Lists
  /\ created \subseteq Mine
  /\ reloads \in 0..MaxReloads /\ updates \in 0..MaxUpdates
  /\ refused \in 0..MaxRefused
  /\ vain \in BOOLEAN
  /\ gaveUp \subseteq accepted /\ accepted \subseteq Lists \ Mine

(* The app has just started: ProfileBloc's listener waits for the document. *)
Init ==
  /\ documents = Lists \ Mine
  /\ placeListIds = {}
  /\ changed = TRUE
  /\ profile = {}
  /\ savedLists = "Loading"
  /\ cards = {}
  /\ handler = [h \in Handlers |-> NoHandler]
  /\ created = {}
  /\ reloads = 0 /\ updates = 0 /\ refused = 0
  /\ vain = FALSE
  /\ accepted = {} /\ gaveUp = {}

-----------------------------------------------------------------------------
Await(h, at, l, left) ==
  handler' = [handler EXCEPT ![h] = [at |-> at, list |-> l, left |-> left]]

End(h) == handler' = [handler EXCEPT ![h] = NoHandler]

(* The first steps of LoadSavedLists: the ids are those of ProfileBloc's state
   at the start, whatever happens to the account meanwhile.                *)
StartLoad(h, ids) ==
  /\ savedLists' = "Loading"
  /\ Await(h, "get", None, ids)

(* Mutant: the listener on ProfileBloc does not add LoadSavedLists. *)
SnapshotOnly(h) ==
  /\ changed
  /\ handler[h].at = "idle"
  /\ changed' = FALSE
  /\ profile' = placeListIds
  /\ vain' = FALSE
  /\ UNCHANGED <<documents, placeListIds, savedLists, cards, handler, bounds, accepts>>

(* ProfileBloc emits ProfileLoaded, and the listener adds LoadSavedLists. *)
ProfileSnapshot(h) ==
  /\ changed
  /\ handler[h].at = "idle"
  /\ changed' = FALSE
  /\ profile' = placeListIds
  /\ StartLoad(h, placeListIds)
  /\ vain' = FALSE
  /\ UNCHANGED <<documents, placeListIds, cards, bounds, accepts>>

(* LoadSavedLists from the search sheet, before the place is added. *)
LoadSavedLists(h) ==
  /\ reloads < MaxReloads
  /\ handler[h].at = "idle"
  /\ reloads' = reloads + 1
  /\ StartLoad(h, profile)
  /\ UNCHANGED <<documents, placeListIds, changed, profile, cards, created,
                 updates, refused, history>>

(* getMyPlaceListsFuture reads one document after the other; fromSnapshot
   throws for one that is gone, and the handler ends.                      *)
getMyPlaceListsFuture(h, l) ==
  /\ handler[h].at = "get" /\ l \in handler[h].left
  /\ IF l \in documents THEN Await(h, "get", None, handler[h].left \ {l}) ELSE End(h)
  /\ UNCHANGED <<documents, placeListIds, changed, profile, savedLists, cards,
                 bounds, history>>

Loaded(h) ==
  /\ handler[h].at = "get" /\ handler[h].left = {}
  /\ savedLists' = "Loaded"
  /\ End(h)
  /\ UNCHANGED <<documents, placeListIds, changed, profile, cards, bounds, history>>

-----------------------------------------------------------------------------
AddList(h, l) ==
  /\ l \in Mine \ created
  /\ handler[h].at = "idle"
  /\ created' = created \cup {l}
  /\ savedLists' = "Loading"
  /\ Await(h, "set", l, {})
  /\ UNCHANGED <<documents, placeListIds, changed, profile, cards, reloads,
                 updates, refused, history>>

(* Mutant: the id first, the document after it. *)
AddIdFirst(h) ==
  LET l == handler[h].list IN
  /\ handler[h].at \in {"set", "addId"}
  /\ \/ /\ handler[h].at = "set"
        /\ placeListIds' = placeListIds \cup {l}
        /\ changed' = TRUE
        /\ Await(h, "addId", l, {})
        /\ UNCHANGED documents
     \/ /\ handler[h].at = "addId"
        /\ documents' = documents \cup {l}
        /\ End(h)
        /\ UNCHANGED <<placeListIds, changed>>
  /\ UNCHANGED <<profile, savedLists, cards, bounds, history>>

(* The document, then the id. *)
createPlaceList(h) ==
  LET l == handler[h].list IN
  /\ handler[h].at \in {"set", "addId"}
  /\ \/ /\ handler[h].at = "set"
        /\ documents' = documents \cup {l}
        /\ Await(h, "addId", l, {})
        /\ UNCHANGED <<placeListIds, changed>>
     \/ /\ handler[h].at = "addId"
        /\ placeListIds' = placeListIds \cup {l}
        /\ changed' = TRUE
        /\ End(h)
        /\ UNCHANGED documents
  /\ UNCHANGED <<profile, savedLists, cards, bounds, history>>

(* Mutant: the dialog does not pass its list on. *)
RemoveNothing(h, l) ==
  /\ l \in cards
  /\ handler[h].at = "idle"
  /\ savedLists' = "Loading"
  /\ Await(h, "removeId", None, {})
  /\ UNCHANGED <<documents, placeListIds, changed, profile, cards, bounds, history>>

(* From the dialog of a card. *)
RemoveList(h, l) ==
  /\ l \in cards
  /\ handler[h].at = "idle"
  /\ savedLists' = "Loading"
  /\ Await(h, "removeId", l, {})
  /\ UNCHANGED <<documents, placeListIds, changed, profile, cards, bounds, history>>

(* Removing an id that is not there changes nothing, so no snapshot follows. *)
removePlaceList(h) ==
  LET l == handler[h].list IN
  /\ handler[h].at \in {"removeId", "delete"}
  /\ \/ /\ handler[h].at = "removeId"
        /\ placeListIds' = placeListIds \ {l}
        /\ changed' = (changed \/ l \in placeListIds)
        /\ vain' = (vain \/ l \notin placeListIds)
        /\ IF l \in Mine THEN Await(h, "delete", l, {}) ELSE End(h)
        /\ UNCHANGED documents
     \/ /\ handler[h].at = "delete"
        /\ documents' = documents \ {l}
        /\ End(h)
        /\ UNCHANGED <<placeListIds, changed, vain>>
  /\ UNCHANGED <<profile, savedLists, cards, bounds, accepts>>

(* A new icon, or another name. *)
UpdateSavedLists(h, l) ==
  /\ updates < MaxUpdates
  /\ l \in cards
  /\ handler[h].at = "idle"
  /\ updates' = updates + 1
  /\ savedLists' = "Loading"
  /\ Await(h, "update", l, {})
  /\ UNCHANGED <<documents, placeListIds, changed, profile, cards, created,
                 reloads, refused, history>>

(* SavedListsUpdated lasts until the reload that is added with it starts; the
   update of a document that is gone throws instead.                       *)
updatePlaceLists(h) ==
  /\ handler[h].at = "update"
  /\ IF handler[h].list \in documents
     THEN /\ StartLoad(h, profile)
          /\ UNCHANGED vain
     ELSE /\ End(h)
          /\ vain' = TRUE
          /\ UNCHANGED savedLists
  /\ UNCHANGED <<documents, placeListIds, changed, profile, cards, bounds, accepts>>

(* Every write, and every get of a load, rethrows what Firestore answers, out
   of the handler; only addContributorToList swallows it.                  *)
Refused(h) ==
  LET l == handler[h].list
      swallowed == handler[h].at \in {"contributor", "addId"} /\ l \notin Mine IN
  /\ refused < MaxRefused
  /\ handler[h].at # "idle" /\ (handler[h].at = "get" => handler[h].left # {})
  /\ refused' = refused + 1
  /\ vain' = (vain \/ ~swallowed)
  /\ gaveUp' = IF swallowed THEN gaveUp \cup {l} ELSE gaveUp
  /\ End(h)
  /\ UNCHANGED <<documents, placeListIds, changed, profile, savedLists, cards,
                 created, reloads, updates, accepted>>

-----------------------------------------------------------------------------
(* Accepting an invite: InviteInboxBloc does not await the repository's call,
   which shares the account with the handlers above.                       *)

AcceptInvite(h, l) ==
  /\ l \in Lists \ (Mine \cup accepted)
  /\ handler[h].at = "idle"
  /\ accepted' = accepted \cup {l}
  /\ Await(h, "contributor", l, {})
  /\ UNCHANGED <<documents, placeListIds, changed, profile, savedLists, cards,
                 bounds, vain, gaveUp>>

(* Mutant: the account is not updated. *)
ContributorOnly(h) ==
  /\ handler[h].at = "contributor"
  /\ End(h)
  /\ gaveUp' = IF handler[h].list \in documents THEN gaveUp
               ELSE gaveUp \cup {handler[h].list}
  /\ UNCHANGED <<documents, placeListIds, changed, profile, savedLists, cards,
                 bounds, vain, accepted>>

(* addContributorToList updates the list, then the account.  It returns
   without either if the list is gone or the user's own document has not
   come after 500 ms.                                                      *)
addContributorToList(h) ==
  LET l == handler[h].list IN
  /\ handler[h].at = "contributor"
  /\ \/ /\ l \in documents
        /\ Await(h, "addId", l, {})
        /\ UNCHANGED gaveUp
     \/ /\ End(h)
        /\ gaveUp' = gaveUp \cup {l}
  /\ UNCHANGED <<documents, placeListIds, changed, profile, savedLists, cards,
                 bounds, vain, accepted>>

-----------------------------------------------------------------------------
(* The stream of getPlaceLists, while the page listens to it.  One missing
   document makes it an error, drawn as no lists; an empty account makes it
   say nothing, and the cards stay.                                        *)
getPlaceLists ==
  IF placeListIds = {} THEN cards
  ELSE IF placeListIds \subseteq documents THEN placeListIds ELSE {}

ListSnapshot ==
  /\ savedLists = "Loaded"
  /\ cards # getPlaceLists
  /\ cards' = getPlaceLists
  /\ UNCHANGED <<documents, placeListIds, changed, profile, savedLists, handler,
                 bounds, history>>

(* The owner of a shared list removes it. *)
OwnerRemoves(l) ==
  /\ l \in documents \ Mine
  /\ documents' = documents \ {l}
  /\ UNCHANGED <<placeListIds, changed, profile, savedLists, cards, handler,
                 bounds, history>>

-----------------------------------------------------------------------------
Resume(h) ==
  \/ ProfileSnapshot(h)
  \/ \E l \in Lists : getMyPlaceListsFuture(h, l)
  \/ Loaded(h)
  \/ createPlaceList(h)
  \/ removePlaceList(h)
  \/ updatePlaceLists(h)
  \/ addContributorToList(h)

Press(h) ==
  \/ LoadSavedLists(h)
  \/ \E l \in Lists : AddList(h, l)
  \/ \E l \in Lists : RemoveList(h, l)
  \/ \E l \in Lists : UpdateSavedLists(h, l)
  \/ \E l \in Lists : AcceptInvite(h, l)

Next ==
  \/ \E h \in Handlers : Resume(h) \/ Press(h) \/ Refused(h)
  \/ ListSnapshot
  \/ \E l \in Lists : OwnerRemoves(l)

-----------------------------------------------------------------------------
(* Suspended handlers, the profile's listener and the page's stream get their
   turn; nobody has to press anything, and no call has to fail.            *)
Fairness ==
  /\ \A h \in Handlers : WF_vars(Resume(h))
  /\ WF_vars(ListSnapshot)

Spec == Init /\ [][Next]_vars /\ Fairness

-----------------------------------------------------------------------------
(* The page may not catch up: a handler ended without a snapshot to follow, or
   a list of the account is gone.                                          *)
Hindered == vain \/ ~(placeListIds \subseteq documents)

(* AddList and RemoveList count on a snapshot to end their SavedListsLoading:
   when nothing is under way, the page is not left loading.                *)
NotLeftLoading ==
  (/\ \A h \in Handlers : handler[h].at = "idle"
   /\ ~changed /\ ~Hindered) => savedLists = "Loaded"

(* Why: a handler that will end the loading is one that will change the
   account, or a load of lists that are still in it.                       *)
EndsLoading(h) ==
  \/ handler[h].at \in {"set", "removeId", "update"}
  \/ handler[h].at = "addId" /\ handler[h].list \in Mine
  \/ handler[h].at = "get" /\ handler[h].left \subseteq placeListIds

(* A list's document is set, once, before its id is added; ProfileBloc is
   behind the account only while a snapshot is due.                        *)
CreatedOnce ==
  /\ \A l \in placeListIds \cap Mine : l \in created
  /\ \A h \in Handlers :
       /\ handler[h].at = "contributor" => handler[h].list \notin Mine
       /\ handler[h].at \in {"contributor", "addId"} /\ handler[h].list \notin Mine =>
            handler[h].list \in accepted
       /\ handler[h].at = "set" => handler[h].list \in Mine \ placeListIds
       /\ handler[h].at \in {"set", "addId"} /\ handler[h].list \in Mine =>
            handler[h].list \in created
  /\ \A h, g \in Handlers :
       handler[h].at = "set" /\ handler[g].at \in {"set", "addId"} /\ h # g =>
         handler[h].list # handler[g].list

LoadInv ==
  /\ TypeOK
  /\ CreatedOnce
  /\ ~changed => profile = placeListIds
  /\ savedLists = "Loading" =>
       changed \/ Hindered \/ \E h \in Handlers : EndsLoading(h)

(* The home page follows the account: a list that is added, by the user or by
   an accepted invite, gets its card, and a removed one loses it, unless it
   was the last.                                                           *)
CardsFollowAccount ==
  \A l \in Lists :
    (l \in cards) # (l \in placeListIds)
      ~> \/ (l \in cards) = (l \in placeListIds)
         \/ Hindered \/ placeListIds = {}

(* A list whose invite was accepted gets its card, unless the call gave up:
   whatever is added, removed, edited or reloaded at the same time.        *)
AcceptedListIsShown ==
  \A l \in Lists :
    (\E h \in Handlers : handler[h].at = "contributor" /\ handler[h].list = l)
      ~> (l \in cards \/ l \in gaveUp \/ Hindered)
=============================================================================
