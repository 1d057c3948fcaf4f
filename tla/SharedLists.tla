----------------------------- MODULE SharedLists -----------------------------
(***************************************************************************)
(* Place lists shared between users: the Firestore documents of            *)
(* lib/repository/place_list_repository.dart and invite_repository.dart,   *)
(* and the app of every user that reads and writes them from concurrent    *)
(* asynchronous handlers.                                                  *)
(*                                                                         *)
(* A repository method awaits one document write after another.  Its first *)
(* write is the action named after the method; each later write is a step  *)
(* of the task the action leaves behind, so that the writes of two         *)
(* handlers, of one app or of two, interleave in every order.  A document  *)
(* update of a missing document is refused by Firestore (not-found), a set *)
(* creates it.                                                             *)
(***************************************************************************)
EXTENDS Naturals, FiniteSets

CONSTANTS
  Users,        \* user ids (users/{id} exists for each of them)
  Lists,        \* ids place_lists.doc() may generate
  Tasks,        \* slots for handlers suspended at an await (bounds concurrency)
  MaxSends,     \* bound: SendInvite events
  MaxCopies,    \* bound: invite documents one listener writes
  MaxWrites,    \* bound: whole objects written back, lists and users together
  MaxFaults,    \* bound: app restarts and refused writes
  None          \* "no value"

ASSUME SharedListsAssumption ==
  /\ MaxSends \in Nat /\ MaxCopies \in Nat /\ MaxWrites \in Nat
  /\ MaxFaults \in Nat

(* getUser(userId).listen(...) of inviteContributorToList: who listens, to
   whose user document, for which list; nth tells two listeners apart.     *)
Listener == [from : Users, to : Users, list : Lists, nth : 1..MaxSends]

(* An invite document id: generated by the listener that sends it. *)
Invites == [via : Listener, copy : 1..MaxCopies]

Status == {"absent", "sent", "accepted", "declined"}

(* Where a suspended handler is: the write it performs next. *)
Ops == {"idle", "createIds", "deleteList", "awaitUser", "contributor",
        "acceptIds", "deleteInvite"}

Task == [op : Ops, by : Users \cup {None}, list : Lists \cup {None},
         inv : Invites \cup {None}]

NoTask == [op |-> "idle", by |-> None, list |-> None, inv |-> None]

(* A PlaceList object an app holds: the document as it was when read. *)
PlaceList == [list : Lists, contributorIds : SUBSET Users]

VARIABLES
  (* Firestore *)
  placeListIds,    \* users/{u}.placeListIds
  place_lists,     \* the documents place_lists/{l} that exist
  created,         \* the list ids generated so far
  listOwnerId,     \* place_lists/{l}.listOwnerId
  contributorIds,  \* place_lists/{l}.contributorIds
  invites,         \* users/{u}/invites/{i}.inviteStatus, or "absent"
  sent,            \* the invite ids generated so far
  (* the apps *)
  listeners,       \* leaked user-document listeners of inviting apps
  fresh,           \* the listeners with a snapshot to process
  profile,         \* placeListIds of the User object in ProfileBloc's state
  screen,          \* the PlaceList objects on a user's pages and dialogs
  cards,           \* inviteStatus of the Invite objects InviteInboxBloc shows
  task,            \* the suspended handlers
  (* bounds and history *)
  sends, edits, saves, faults,
  consented        \* <<u, l>>: u created l or pressed accept on an invite to l

firestore == <<placeListIds, place_lists, created, listOwnerId, contributorIds>>
mailboxes == <<invites, sent>>
apps == <<listeners, fresh, profile, screen, cards>>
bounds == <<sends, edits, saves, faults>>
vars == <<firestore, mailboxes, apps, task, bounds, consented>>

TypeOK ==
  /\ placeListIds \in [Users -> SUBSET Lists]
  /\ place_lists \subseteq Lists
  /\ created \subseteq Lists
  /\ listOwnerId \in [Lists -> Users \cup {None}]
  /\ contributorIds \in [Lists -> SUBSET Users]
  /\ invites \in [Users -> [Invites -> Status]]
  /\ sent \subseteq Invites
  /\ listeners \subseteq Listener
  /\ fresh \subseteq Listener
  /\ profile \in [Users -> SUBSET Lists]
  /\ screen \in [Users -> SUBSET PlaceList]
  /\ cards \in [Users -> [Invites -> Status]]
  /\ task \in [Tasks -> Task]
  /\ sends \in 0..MaxSends
  /\ edits \in Nat /\ saves \in Nat /\ edits + saves <= MaxWrites
  /\ faults \in 0..MaxFaults
  /\ consented \subseteq Users \X Lists

NoMail == [i \in Invites |-> "absent"]

Init ==
  /\ placeListIds = [u \in Users |-> {}]
  /\ place_lists = {}
  /\ created = {}
  /\ listOwnerId = [l \in Lists |-> None]
  /\ contributorIds = [l \in Lists |-> {}]
  /\ invites = [u \in Users |-> NoMail]
  /\ sent = {}
  /\ listeners = {}
  /\ fresh = {}
  /\ profile = [u \in Users |-> {}]
  /\ screen = [u \in Users |-> {}]
  /\ cards = [u \in Users |-> NoMail]
  /\ task = [t \in Tasks |-> NoTask]
  /\ sends = 0 /\ edits = 0 /\ saves = 0 /\ faults = 0
  /\ consented = {}

-----------------------------------------------------------------------------
(* Helpers. *)

Suspend(t, op, u, l, i) ==
  /\ task[t].op = "idle"
  /\ task' = [task EXCEPT ![t] = [op |-> op, by |-> u, list |-> l, inv |-> i]]

Goto(t, op) ==
  task' = [task EXCEPT ![t] = [op |-> op, by |-> task[t].by,
                               list |-> task[t].list, inv |-> task[t].inv]]

Return(t) == task' = [task EXCEPT ![t] = NoTask]

(* Firestore sends a snapshot of users/{u} to every listener when a write
   changes the document.                                                   *)
Notify(u) == fresh' = fresh \cup {k \in listeners : k.to = u}

(* FieldValue.arrayUnion and arrayRemove on users/{u}.placeListIds; a write
   that changes nothing produces no snapshot.                              *)
SetPlaceListIds(u, ids) ==
  /\ placeListIds' = [placeListIds EXCEPT ![u] = ids]
  /\ IF ids = placeListIds[u] THEN UNCHANGED fresh ELSE Notify(u)

-----------------------------------------------------------------------------
(* Reading. *)

(* ProfileBloc receives the current snapshot of its user's document. *)
LoadProfile(u) ==
  /\ profile' = [profile EXCEPT ![u] = placeListIds[u]]
  /\ UNCHANGED <<firestore, mailboxes, listeners, fresh, screen, cards, task,
                 bounds, consented>>

(* SavedListsBloc reads every list of the profile.  PlaceList.fromSnapshot
   of a missing document throws, SavedListsLoaded is never emitted and the
   user sees no list.                                                      *)
LoadSavedLists(u) ==
  /\ screen' = [screen EXCEPT ![u] =
       IF profile[u] \subseteq place_lists
       THEN {[list |-> l, contributorIds |-> contributorIds[l]] : l \in profile[u]}
       ELSE {}]
  /\ UNCHANGED <<firestore, mailboxes, listeners, fresh, profile, cards, task,
                 bounds, consented>>

(* InviteInboxBloc clears its cards; the query's stream then adds one card
   per document, and a card outlives its document until the next load.     *)
LoadInvites(u) ==
  /\ cards' = [cards EXCEPT ![u] = NoMail]
  /\ UNCHANGED <<firestore, mailboxes, listeners, fresh, profile, screen, task,
                 bounds, consented>>

InviteSnapshot(u, i) ==
  /\ invites[u][i] # "absent"
  /\ cards' = [cards EXCEPT ![u][i] = invites[u][i]]
  /\ UNCHANGED <<firestore, mailboxes, listeners, fresh, profile, screen, task,
                 bounds, consented>>

-----------------------------------------------------------------------------
(* Lists. *)

createPlaceList(t, u, l) ==
  /\ l \notin created
  /\ Suspend(t, "createIds", u, l, None)
  /\ created' = created \cup {l}
  /\ place_lists' = place_lists \cup {l}
  /\ listOwnerId' = [listOwnerId EXCEPT ![l] = u]
  /\ consented' = consented \cup {<<u, l>>}
  /\ UNCHANGED <<placeListIds, contributorIds, mailboxes, apps, bounds>>

createPlaceListIds(t) ==
  LET u == task[t].by IN
  /\ task[t].op = "createIds"
  /\ SetPlaceListIds(u, placeListIds[u] \cup {task[t].list})
  /\ Return(t)
  /\ UNCHANGED <<place_lists, created, listOwnerId, contributorIds, mailboxes,
                 listeners, profile, screen, cards, bounds, consented>>

(* Mutant: the owner test inverted. *)
RemoveUnlessOwner(t, u, p) ==
  /\ p \in screen[u]
  /\ SetPlaceListIds(u, placeListIds[u] \ {p.list})
  /\ IF listOwnerId[p.list] # u
     THEN Suspend(t, "deleteList", u, p.list, None)
     ELSE UNCHANGED task
  /\ UNCHANGED <<place_lists, created, listOwnerId, contributorIds, mailboxes,
                 listeners, profile, screen, cards, bounds, consented>>

(* The id leaves the user's own document; the document of the list is
   deleted, later, only by its owner.                                      *)
removePlaceList(t, u, p) ==
  /\ p \in screen[u]
  /\ SetPlaceListIds(u, placeListIds[u] \ {p.list})
  /\ IF listOwnerId[p.list] = u
     THEN Suspend(t, "deleteList", u, p.list, None)
     ELSE UNCHANGED task
  /\ UNCHANGED <<place_lists, created, listOwnerId, contributorIds, mailboxes,
                 listeners, profile, screen, cards, bounds, consented>>

removePlaceListDelete(t) ==
  /\ task[t].op = "deleteList"
  /\ place_lists' = place_lists \ {task[t].list}
  /\ contributorIds' = [contributorIds EXCEPT ![task[t].list] = {}]
  /\ Return(t)
  /\ UNCHANGED <<placeListIds, created, listOwnerId, mailboxes, apps, bounds,
                 consented>>

(* Mutant: set instead of update, which creates a missing document. *)
SetPlaceList(u, p) ==
  /\ edits + saves < MaxWrites
  /\ p \in screen[u]
  /\ place_lists' = place_lists \cup {p.list}
  /\ contributorIds' = [contributorIds EXCEPT ![p.list] = p.contributorIds]
  /\ edits' = edits + 1
  /\ UNCHANGED <<placeListIds, created, listOwnerId, mailboxes, apps, task,
                 sends, saves, faults, consented>>

(* EditListDialog and the icon picker write the whole PlaceList they were
   opened with, its contributorIds included; update of a deleted list is
   refused.                                                                *)
updatePlaceLists(u, p) ==
  /\ edits + saves < MaxWrites
  /\ p \in screen[u]
  /\ p.list \in place_lists
  /\ contributorIds' = [contributorIds EXCEPT ![p.list] = p.contributorIds]
  /\ edits' = edits + 1
  /\ UNCHANGED <<placeListIds, place_lists, created, listOwnerId, mailboxes,
                 apps, task, sends, saves, faults, consented>>

(* updateUser writes the whole User object taken from ProfileBloc's state
   before the awaits: placeListIds go back to what they were then.         *)
updateUser(u) ==
  /\ edits + saves < MaxWrites
  /\ placeListIds' = [placeListIds EXCEPT ![u] = profile[u]]
  /\ Notify(u)
  /\ saves' = saves + 1
  /\ UNCHANGED <<place_lists, created, listOwnerId, contributorIds, mailboxes,
                 listeners, profile, screen, cards, task, sends, edits, faults,
                 consented>>

-----------------------------------------------------------------------------
(* Invites. *)

(* The listener gets the invited user's document at once, and again each
   time it changes: it is never cancelled.                                 *)
inviteContributorToList(u, v, p) ==
  LET k == [from |-> u, to |-> v, list |-> p.list, nth |-> sends + 1] IN
  /\ sends < MaxSends
  /\ p \in screen[u]
  /\ sends' = sends + 1
  /\ listeners' = listeners \cup {k}
  /\ fresh' = fresh \cup {k}
  /\ UNCHANGED <<firestore, mailboxes, profile, screen, cards, task, edits,
                 saves, faults, consented>>

(* Mutant: the invite is filed under the inviter instead of the invited user. *)
SendToInviter(i) ==
  LET k == i.via IN
  /\ k \in fresh
  /\ i \notin sent
  /\ \A c \in 1..(i.copy - 1) : [via |-> k, copy |-> c] \in sent
  /\ fresh' = fresh \ {k}
  /\ sent' = sent \cup {i}
  /\ invites' = [invites EXCEPT ![k.from][i] = "sent"]
  /\ UNCHANGED <<firestore, listeners, profile, screen, cards, task, bounds,
                 consented>>

(* A listener processes its snapshot; doc() generates the next id. *)
sendInvite(i) ==
  LET k == i.via IN
  /\ k \in fresh
  /\ i \notin sent
  /\ \A c \in 1..(i.copy - 1) : [via |-> k, copy |-> c] \in sent
  /\ fresh' = fresh \ {k}
  /\ sent' = sent \cup {i}
  /\ invites' = [invites EXCEPT ![k.to][i] = "sent"]
  /\ UNCHANGED <<firestore, listeners, profile, screen, cards, task, bounds,
                 consented>>

acceptInvite(t, u, i) ==
  /\ cards[u][i] = "sent"
  /\ Suspend(t, "awaitUser", u, None, i)
  /\ invites' = [invites EXCEPT ![i.via.from][i] = "accepted"]
  /\ consented' = consented \cup {<<u, i.via.list>>}
  /\ UNCHANGED <<firestore, sent, apps, bounds>>

(* addContributorToList waits 500 ms for the first snapshot of the invited
   user; without it the list is left alone.                                *)
UserInTime(t) ==
  /\ task[t].op = "awaitUser"
  /\ Goto(t, "contributor")
  /\ UNCHANGED <<firestore, mailboxes, apps, bounds, consented>>

(* Mutant: return without deleting the invite. *)
ReturnTooLate(t) ==
  /\ task[t].op = "awaitUser"
  /\ Return(t)
  /\ UNCHANGED <<firestore, mailboxes, apps, bounds, consented>>

UserTooLate(t) ==
  /\ task[t].op = "awaitUser"
  /\ Goto(t, "deleteInvite")
  /\ UNCHANGED <<firestore, mailboxes, apps, bounds, consented>>

(* Mutant: the id of a user that has not arrived. *)
AddNullContributor(t) ==
  /\ task[t].op = "contributor"
  /\ contributorIds' = [contributorIds EXCEPT ![task[t].inv.via.list] = @ \cup {None}]
  /\ Goto(t, "acceptIds")
  /\ UNCHANGED <<placeListIds, place_lists, created, listOwnerId, mailboxes,
                 apps, bounds, consented>>

(* Mutant: the user document before the list document. *)
AddIdsFirst(t) ==
  LET u == task[t].inv.via.to IN
  /\ task[t].op = "contributor"
  /\ SetPlaceListIds(u, placeListIds[u] \cup {task[t].inv.via.list})
  /\ Goto(t, "acceptIds")
  /\ UNCHANGED <<place_lists, created, listOwnerId, contributorIds, mailboxes,
                 listeners, profile, screen, cards, bounds, consented>>

(* not-found is caught and makes addContributorToList return null *)
addContributor(t) ==
  LET l == task[t].inv.via.list IN
  /\ task[t].op = "contributor"
  /\ IF l \in place_lists
     THEN /\ contributorIds' = [contributorIds EXCEPT ![l] =
                                  @ \cup {task[t].inv.via.to}]
          /\ Goto(t, "acceptIds")
     ELSE /\ UNCHANGED contributorIds
          /\ Goto(t, "deleteInvite")
  /\ UNCHANGED <<placeListIds, place_lists, created, listOwnerId, mailboxes,
                 apps, bounds, consented>>

addContributorIds(t) ==
  LET u == task[t].inv.via.to IN
  /\ task[t].op = "acceptIds"
  /\ SetPlaceListIds(u, placeListIds[u] \cup {task[t].inv.via.list})
  /\ Goto(t, "deleteInvite")
  /\ UNCHANGED <<place_lists, created, listOwnerId, contributorIds, mailboxes,
                 listeners, profile, screen, cards, bounds, consented>>

(* The close button of a declined notification also sends DeclineInvite. *)
declineInvite(t, u, i) ==
  /\ cards[u][i] \in {"sent", "declined"}
  /\ Suspend(t, "deleteInvite", u, None, i)
  /\ invites' = [invites EXCEPT ![i.via.from][i] = "declined"]
  /\ UNCHANGED <<firestore, sent, apps, bounds, consented>>

deleteInvite(t, u, i) ==
  /\ cards[u][i] = "accepted"
  /\ Suspend(t, "deleteInvite", u, None, i)
  /\ invites' = [invites EXCEPT ![i.via.from][i] = "absent"]
  /\ UNCHANGED <<firestore, sent, apps, bounds, consented>>

(* The last write of accept, decline and delete. *)
deleteInvitedCopy(t) ==
  LET i == task[t].inv IN
  /\ task[t].op = "deleteInvite"
  /\ invites' = [invites EXCEPT ![i.via.to][i] = "absent"]
  /\ Return(t)
  /\ UNCHANGED <<firestore, sent, apps, bounds, consented>>

-----------------------------------------------------------------------------
(* Failures. *)

(* A FirebaseException at an await: addContributorToList catches it and
   acceptInvite goes on; every other method stops.                         *)
WriteRefused(t) ==
  /\ faults < MaxFaults
  /\ task[t].op \notin {"idle", "awaitUser"}
  /\ IF task[t].op \in {"contributor", "acceptIds"}
     THEN Goto(t, "deleteInvite")
     ELSE Return(t)
  /\ faults' = faults + 1
  /\ UNCHANGED <<firestore, mailboxes, apps, sends, edits, saves, consented>>

(* The app is killed and started again: suspended handlers, listeners and
   everything it held in memory are gone; ProfileBloc loads its user.      *)
Restart(u) ==
  /\ faults < MaxFaults
  /\ faults' = faults + 1
  /\ task' = [t \in Tasks |-> IF task[t].by = u THEN NoTask ELSE task[t]]
  /\ listeners' = {k \in listeners : k.from # u}
  /\ fresh' = {k \in fresh : k.from # u}
  /\ profile' = [profile EXCEPT ![u] = placeListIds[u]]
  /\ screen' = [screen EXCEPT ![u] = {}]
  /\ cards' = [cards EXCEPT ![u] = NoMail]
  /\ UNCHANGED <<firestore, mailboxes, sends, edits, saves, consented>>

-----------------------------------------------------------------------------
(* What the program does by itself once a handler is suspended. *)
Resume(t) ==
  \/ createPlaceListIds(t)
  \/ removePlaceListDelete(t)
  \/ UserInTime(t)
  \/ UserTooLate(t)
  \/ addContributor(t)
  \/ addContributorIds(t)
  \/ deleteInvitedCopy(t)

Read(u) ==
  \/ LoadProfile(u)
  \/ LoadSavedLists(u)
  \/ LoadInvites(u)
  \/ \E i \in Invites : InviteSnapshot(u, i)

(* What a user does in the app. *)
Press(t, u) ==
  \/ \E l \in Lists : createPlaceList(t, u, l)
  \/ \E p \in screen[u] : removePlaceList(t, u, p)
  \/ \E p \in screen[u] : updatePlaceLists(u, p)
  \/ updateUser(u)
  \/ \E v \in Users, p \in screen[u] : inviteContributorToList(u, v, p)
  \/ \E i \in Invites : acceptInvite(t, u, i)
  \/ \E i \in Invites : declineInvite(t, u, i)
  \/ \E i \in Invites : deleteInvite(t, u, i)

Next ==
  \/ \E t \in Tasks : Resume(t)
  \/ \E u \in Users : Read(u)
  \/ \E i \in Invites : sendInvite(i)
  \/ \E t \in Tasks, u \in Users : Press(t, u)
  \/ \E t \in Tasks : WriteRefused(t)
  \/ \E u \in Users : Restart(u)

Spec == Init /\ [][Next]_vars

(* A suspended handler goes on when its write is acknowledged or its timer
   fires: Firestore and the event loop guarantee that, users nothing.      *)
FairSpec == Spec /\ \A t \in Tasks : WF_vars(Resume(t))

-----------------------------------------------------------------------------
(* The inductive invariant behind NoUninvitedAccess: every copy of either
   side of the membership, in a document, in an app or in a suspended
   handler, is backed by consent, and an invite that can be accepted is in
   the hands of the user it is for.                                        *)
ConsentInv ==
  /\ \A u \in Users : \A l \in placeListIds[u] \cup profile[u] : <<u, l>> \in consented
  /\ \A l \in Lists : \A u \in contributorIds[l] : <<u, l>> \in consented
  /\ \A u \in Users : \A p \in screen[u] :
       \A v \in p.contributorIds : <<v, p.list>> \in consented
  /\ \A u \in Users, i \in Invites :
       invites[u][i] = "sent" \/ cards[u][i] = "sent" => u = i.via.to
  /\ \A t \in Tasks : task[t].op = "createIds" =>
       /\ task[t].by \in Users /\ task[t].list \in Lists
       /\ <<task[t].by, task[t].list>> \in consented
  /\ \A t \in Tasks : task[t].op = "deleteList" => task[t].list \in Lists
  /\ \A t \in Tasks : task[t].op \in {"awaitUser", "contributor", "acceptIds"} =>
       /\ task[t].inv \in Invites
       /\ <<task[t].inv.via.to, task[t].inv.via.list>> \in consented
  /\ \A t \in Tasks : task[t].op = "deleteInvite" => task[t].inv \in Invites

(* The inductive invariant behind MemberIsContributor: whatever can put a
   list into an account, a handler or a stale profile, finds the user already
   a member, and nothing refers to an id that was never generated.         *)
Member(u, l) == listOwnerId[l] = u \/ u \in contributorIds[l]

MemberInv ==
  /\ place_lists \subseteq created
  /\ \A u \in Users : \A l \in placeListIds[u] \cup profile[u] :
       l \in created /\ (l \in place_lists => Member(u, l))
  /\ \A k \in listeners \cup fresh : k.list \in created
  /\ \A u \in Users : \A p \in screen[u] : p.list \in created
  /\ \A u \in Users, i \in Invites :
       invites[u][i] # "absent" \/ cards[u][i] # "absent" => i.via.list \in created
  /\ \A t \in Tasks : task[t].op = "createIds" =>
       task[t].list \in created /\ listOwnerId[task[t].list] = task[t].by
  /\ \A t \in Tasks : task[t].op \in {"awaitUser", "contributor", "acceptIds"} =>
       task[t].inv.via.list \in created
  /\ \A t \in Tasks : task[t].op = "acceptIds" =>
       (task[t].inv.via.list \in place_lists =>
          Member(task[t].inv.via.to, task[t].inv.via.list))

(* The inductive invariant behind OwnedListReachable: a list has its creator
   as owner for good, and the handler that has yet to enter it in an account
   enters it in the owner's.                                               *)
Reachable(l) ==
  \/ l \in placeListIds[listOwnerId[l]]
  \/ \E t \in Tasks : /\ task[t].op \in {"createIds", "deleteList"}
                      /\ task[t].list = l

OwnerInv ==
  /\ place_lists \subseteq created
  /\ \A l \in created : listOwnerId[l] \in Users
  /\ \A t \in Tasks : task[t].op = "createIds" =>
       task[t].list \in created /\ listOwnerId[task[t].list] = task[t].by
  /\ \A l \in place_lists : Reachable(l)

-----------------------------------------------------------------------------
(* Properties. *)

(* No user gets a list they neither created nor accepted, through either
   side of the membership, however stale the copies are that updateUser and
   updatePlaceLists write back.                                            *)
NoUninvitedAccess ==
  \A u \in Users, l \in Lists :
    l \in placeListIds[u] \/ u \in contributorIds[l] => <<u, l>> \in consented

(* addContributorToList writes contributorIds before placeListIds: whoever
   has a list in their account owns it or is one of its contributors, even
   when the app dies between the two writes.  It holds until somebody edits a
   list: updatePlaceLists writes back the contributorIds of an old copy.   *)
MemberIsContributor ==
  edits = 0 =>
    \A u \in Users : \A l \in placeListIds[u] \cap place_lists : Member(u, l)

(* A list is in its owner's account from createPlaceList's second write to
   removePlaceList's first: it is never alive and unreachable.  It holds
   until updateUser writes a whole user document back (with the placeListIds
   of an old profile) or a handler is lost between its two writes.         *)
OwnedListReachable ==
  saves = 0 /\ faults = 0 =>
    \A l \in place_lists : Reachable(l)

(* A deleted list stays deleted: no suspended accept, no edit dialog opened
   before the deletion and no handler of another app brings it back.       *)
DeletedStaysDeleted ==
  [][\A l \in created \ place_lists : l \notin place_lists']_vars

(* Pressing accept gets the invite out of the user's mailbox, also when the
   list is deleted or the user's own document arrives too late.            *)
AcceptSettles ==
  \A i \in Invites :
    (\E t \in Tasks : task[t].op = "awaitUser" /\ task[t].inv = i)
      ~> invites[i.via.to][i] = "absent"

(* Every id of a user's placeListIds is the id of a place list. *)
IdsResolve == \A u \in Users : placeListIds[u] \subseteq place_lists
=============================================================================
