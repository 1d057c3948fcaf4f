-------------------------- MODULE SharedListsProofs --------------------------
(***************************************************************************)
(* Theorems about SharedLists, for every set of users, lists and           *)
(* concurrent handlers and every bound.                                    *)
(***************************************************************************)
EXTENDS SharedLists, TLAPS

(* Type correctness and consent hold initially. *)
LEMMA InitInv == Init => TypeOK /\ ConsentInv
  BY SharedListsAssumption
  DEF Init, TypeOK, ConsentInv, NoMail, NoTask, Task, Ops, Status, Invites

(* What writing one invite document does to the mailboxes. *)
LEMMA MailWrite ==
  ASSUME TypeOK, NEW u \in Users, NEW i \in Invites, NEW st \in Status,
         invites' = [invites EXCEPT ![u][i] = st]
  PROVE  /\ invites' \in [Users -> [Invites -> Status]]
         /\ \A v \in Users, j \in Invites :
              invites'[v][j] = IF v = u /\ j = i THEN st ELSE invites[v][j]
  BY DEF TypeOK

(* A step of a suspended handler preserves both. *)
LEMMA ResumeInv ==
  ASSUME TypeOK, ConsentInv, NEW t \in Tasks, Resume(t)
  PROVE  TypeOK' /\ ConsentInv'
  <1> USE DEF TypeOK, ConsentInv, firestore, mailboxes, apps, bounds, Task, Ops,
              Status, NoTask, Goto, Return, Invites, Listener, Notify,
              SetPlaceListIds, PlaceList
  <1>1. CASE createPlaceListIds(t)
    <2> DEFINE l == task[t].list
               u == task[t].by
    <2>1. l \in Lists /\ u \in Users /\ <<u, l>> \in consented
      BY <1>1 DEF createPlaceListIds
    <2>2. /\ placeListIds' = [placeListIds EXCEPT ![u] = placeListIds[u] \cup {l}]
          /\ fresh' \subseteq fresh \cup listeners
          /\ Return(t)
          /\ UNCHANGED <<place_lists, created, listOwnerId, contributorIds, mailboxes,
                         listeners, profile, screen, cards, bounds, consented>>
      BY <1>1 DEF createPlaceListIds
    <2>3. task[t].op = "createIds"
      BY <1>1 DEF createPlaceListIds
    <2> HIDE DEF l, u
    <2>4. TypeOK'
      BY <2>1, <2>2, <2>3
    <2>5. ConsentInv'
      BY <2>1, <2>2, <2>3
    <2> QED
      BY <2>4, <2>5
  <1>2. CASE removePlaceListDelete(t)
    BY <1>2 DEF removePlaceListDelete
  <1>3. CASE UserInTime(t)
    BY <1>3 DEF UserInTime
  <1>4. CASE UserTooLate(t)
    BY <1>4 DEF UserTooLate
  <1>5. CASE addContributor(t)
    <2> DEFINE l == task[t].inv.via.list
               u == task[t].inv.via.to
    <2>1. l \in Lists /\ u \in Users /\ <<u, l>> \in consented
      BY <1>5 DEF addContributor
    <2>2. CASE l \in place_lists
      <3>1. /\ contributorIds' = [contributorIds EXCEPT ![l] = contributorIds[l] \cup {u}]
            /\ Goto(t, "acceptIds")
            /\ UNCHANGED <<placeListIds, place_lists, created, listOwnerId,
                           mailboxes, apps, bounds, consented>>
        BY <1>5, <2>2 DEF addContributor
      <3>2. TypeOK'
        BY <2>1, <3>1
      <3>3. ConsentInv'
        BY <1>5, <2>1, <3>1 DEF addContributor
      <3> QED
        BY <3>2, <3>3
    <2>3. CASE l \notin place_lists
      <3>1. Goto(t, "deleteInvite") /\ UNCHANGED <<firestore, mailboxes, apps, bounds, consented>>
        BY <1>5, <2>3 DEF addContributor
      <3> QED
        BY <1>5, <3>1 DEF addContributor
    <2> QED
      BY <2>2, <2>3
  <1>6. CASE addContributorIds(t)
    <2> DEFINE l == task[t].inv.via.list
               u == task[t].inv.via.to
    <2>1. l \in Lists /\ u \in Users /\ <<u, l>> \in consented
      BY <1>6 DEF addContributorIds
    <2>2. /\ placeListIds' = [placeListIds EXCEPT ![u] = placeListIds[u] \cup {l}]
          /\ fresh' \subseteq fresh \cup listeners
          /\ Goto(t, "deleteInvite")
          /\ UNCHANGED <<place_lists, created, listOwnerId, contributorIds, mailboxes,
                         listeners, profile, screen, cards, bounds, consented>>
      BY <1>6 DEF addContributorIds
    <2>3. task[t].op = "acceptIds" /\ task[t].inv \in Invites
      BY <1>6 DEF addContributorIds
    <2> HIDE DEF l, u
    <2>4. TypeOK'
      BY <2>1, <2>2, <2>3
    <2>5. ConsentInv'
      BY <2>1, <2>2, <2>3
    <2> QED
      BY <2>4, <2>5
  <1>7. CASE deleteInvitedCopy(t)
    <2>1. TypeOK'
      BY <1>7 DEF deleteInvitedCopy
    <2>2. ConsentInv'
      BY <1>7 DEF deleteInvitedCopy
    <2> QED
      BY <2>1, <2>2
  <1> QED
    BY <1>1, <1>2, <1>3, <1>4, <1>5, <1>6, <1>7 DEF Resume

(* So does a user's app that reads documents. *)
LEMMA ReadInv ==
  ASSUME TypeOK, ConsentInv, NEW u \in Users, Read(u)
  PROVE  TypeOK' /\ ConsentInv'
  <1> USE DEF TypeOK, ConsentInv, firestore, mailboxes, bounds, NoMail, Status,
              Invites, Listener, PlaceList
  <1>1. CASE LoadProfile(u)
    BY <1>1 DEF LoadProfile
  <1>2. CASE LoadSavedLists(u)
    BY <1>2 DEF LoadSavedLists
  <1>3. CASE LoadInvites(u)
    BY <1>3 DEF LoadInvites
  <1>4. ASSUME NEW i \in Invites, InviteSnapshot(u, i)
        PROVE  TypeOK' /\ ConsentInv'
    <2>1. /\ cards' \in [Users -> [Invites -> Status]]
          /\ \A v \in Users, j \in Invites :
               cards'[v][j] = "sent" => cards[v][j] = "sent" \/ invites[v][j] = "sent"
      <3>1. /\ cards' = [cards EXCEPT ![u] = [cards[u] EXCEPT ![i] = invites[u][i]]]
            /\ cards \in [Users -> [Invites -> Status]]
            /\ invites \in [Users -> [Invites -> Status]]
        BY <1>4 DEF InviteSnapshot
      <3> HIDE DEF TypeOK, ConsentInv, Invites, Status
      <3> QED
        BY <3>1
    <2>2. UNCHANGED <<firestore, mailboxes, listeners, fresh, profile, screen, task,
                      bounds, consented>>
      BY <1>4 DEF InviteSnapshot
    <2>3. TypeOK'
      BY <2>1, <2>2
    <2>4. ConsentInv'
      BY <2>1, <2>2
    <2> QED
      BY <2>3, <2>4
  <1> QED
    BY <1>1, <1>2, <1>3, <1>4 DEF Read

(* So does everything a user can press. *)
LEMMA PressInv ==
  ASSUME TypeOK, ConsentInv, NEW t \in Tasks, NEW u \in Users, Press(t, u)
  PROVE  TypeOK' /\ ConsentInv'
  <1> USE SharedListsAssumption
      DEF TypeOK, ConsentInv, firestore, mailboxes, apps, bounds, Task, Ops,
          Status, Suspend, Invites, Listener, PlaceList, Notify, SetPlaceListIds
  <1>1. ASSUME NEW l \in Lists, createPlaceList(t, u, l)
        PROVE  TypeOK' /\ ConsentInv'
    <2>1. TypeOK'
      BY <1>1 DEF createPlaceList
    <2>2. ConsentInv'
      BY <1>1 DEF createPlaceList
    <2> QED
      BY <2>1, <2>2
  <1>2. ASSUME NEW p \in screen[u], removePlaceList(t, u, p)
        PROVE  TypeOK' /\ ConsentInv'
    <2>1. p.list \in Lists
      BY <1>2
    <2> DEFINE T == [op |-> "deleteList", by |-> u, list |-> p.list, inv |-> None]
    <2>2. /\ placeListIds' = [placeListIds EXCEPT ![u] = placeListIds[u] \ {p.list}]
          /\ fresh' \subseteq Listener
          /\ UNCHANGED <<place_lists, created, listOwnerId, contributorIds, mailboxes,
                         listeners, profile, screen, cards, bounds, consented>>
          /\ task' = task \/ task' = [task EXCEPT ![t] = T]
      BY <1>2 DEF removePlaceList
    <2>3. CASE task' = task
      BY <2>2, <2>3
    <2>4. CASE task' = [task EXCEPT ![t] = T]
      <3>1. TypeOK'
        BY <2>1, <2>2, <2>4
      <3>2. ConsentInv'
        BY <2>1, <2>2, <2>4
      <3> QED
        BY <3>1, <3>2
    <2> QED
      BY <2>2, <2>3, <2>4
  <1>3. ASSUME NEW p \in screen[u], updatePlaceLists(u, p)
        PROVE  TypeOK' /\ ConsentInv'
    <2>1. p \in PlaceList
      BY <1>3
    <2>2. TypeOK'
      BY <1>3, <2>1 DEF updatePlaceLists
    <2>3. ConsentInv'
      BY <1>3, <2>1 DEF updatePlaceLists
    <2> QED
      BY <2>2, <2>3
  <1>4. CASE updateUser(u)
    BY <1>4 DEF updateUser
  <1>5. ASSUME NEW v \in Users, NEW p \in screen[u], inviteContributorToList(u, v, p)
        PROVE  TypeOK' /\ ConsentInv'
    <2>1. p.list \in Lists
      BY <1>5
    <2> QED
      BY <1>5, <2>1 DEF inviteContributorToList
  <1>6. ASSUME NEW i \in Invites, acceptInvite(t, u, i)
        PROVE  TypeOK' /\ ConsentInv'
    <2>1. i.via.to = u /\ i.via.list \in Lists /\ i.via.from \in Users
      BY <1>6 DEF acceptInvite
    <2> DEFINE T == [op |-> "awaitUser", by |-> u, list |-> None, inv |-> i]
    <2>2. /\ task' = [task EXCEPT ![t] = T]
          /\ consented' = consented \cup {<<u, i.via.list>>}
          /\ UNCHANGED <<firestore, sent, apps, bounds>>
      BY <1>6 DEF acceptInvite
    <2>3. /\ invites' \in [Users -> [Invites -> Status]]
          /\ \A v \in Users, j \in Invites :
               invites'[v][j] = "sent" => invites[v][j] = "sent"
      <3>1. invites' = [invites EXCEPT ![i.via.from] =
                          [invites[i.via.from] EXCEPT ![i] = "accepted"]]
        BY <1>6 DEF acceptInvite
      <3>2. invites \in [Users -> [Invites -> Status]] /\ "accepted" \in Status
        OBVIOUS
      <3> HIDE DEF Invites, Status, TypeOK, ConsentInv
      <3> QED
        BY <2>1, <3>1, <3>2
    <2>4. TypeOK'
      BY <2>1, <2>2, <2>3
    <2>5. ConsentInv'
      BY <2>1, <2>2, <2>3
    <2> QED
      BY <2>4, <2>5
  <1>7. ASSUME NEW i \in Invites, declineInvite(t, u, i)
        PROVE  TypeOK' /\ ConsentInv'
    <2>1. i.via.from \in Users
      BY <1>7
    <2>2. TypeOK'
      BY <1>7, <2>1 DEF declineInvite
    <2>3. ConsentInv'
      BY <1>7, <2>1 DEF declineInvite
    <2> QED
      BY <2>2, <2>3
  <1>8. ASSUME NEW i \in Invites, deleteInvite(t, u, i)
        PROVE  TypeOK' /\ ConsentInv'
    <2>1. i.via.from \in Users
      BY <1>8
    <2>2. TypeOK'
      BY <1>8, <2>1 DEF deleteInvite
    <2>3. ConsentInv'
      BY <1>8, <2>1 DEF deleteInvite
    <2> QED
      BY <2>2, <2>3
  <1> QED
    BY <1>1, <1>2, <1>3, <1>4, <1>5, <1>6, <1>7, <1>8 DEF Press

(* So does every step. *)
LEMMA NextInv ==
  ASSUME TypeOK, ConsentInv, [Next]_vars
  PROVE  TypeOK' /\ ConsentInv'
  <1> USE DEF TypeOK, ConsentInv, firestore, mailboxes, apps, bounds
  <1>1. ASSUME NEW i \in Invites, sendInvite(i)
        PROVE  TypeOK' /\ ConsentInv'
    BY <1>1 DEF sendInvite, Invites, Listener, Status
  <1>2. ASSUME NEW t \in Tasks, WriteRefused(t)
        PROVE  TypeOK' /\ ConsentInv'
    <2> USE DEF Task, Ops, NoTask, Goto, Return
    <2>1. UNCHANGED <<firestore, mailboxes, apps, sends, edits, saves, consented>>
          /\ faults' \in 0..MaxFaults
      BY <1>2, SharedListsAssumption DEF WriteRefused
    <2>2. CASE task[t].op \in {"contributor", "acceptIds"}
      <3>1. Goto(t, "deleteInvite")
        BY <1>2, <2>2 DEF WriteRefused
      <3>2. TypeOK'
        BY <2>1, <3>1
      <3>3. ConsentInv'
        BY <2>1, <2>2, <3>1
      <3> QED
        BY <3>2, <3>3
    <2>3. CASE task[t].op \notin {"contributor", "acceptIds"}
      <3>1. Return(t)
        BY <1>2, <2>3 DEF WriteRefused
      <3>2. TypeOK'
        BY <2>1, <3>1
      <3>3. ConsentInv'
        BY <2>1, <3>1
      <3> QED
        BY <3>2, <3>3
    <2> QED
      BY <2>2, <2>3
  <1>3. ASSUME NEW u \in Users, Restart(u)
        PROVE  TypeOK' /\ ConsentInv'
    BY <1>3, SharedListsAssumption
    DEF Restart, NoTask, NoMail, Task, Ops, Status, Invites
  <1>4. CASE UNCHANGED vars
    BY <1>4 DEF vars
  <1> QED
    BY <1>1, <1>2, <1>3, <1>4, ResumeInv, ReadInv, PressInv DEF Next

(* Every state of every behaviour is well typed: in particular no null id
   gets into contributorIds and no handler resumes without its data.       *)
THEOREM TypeCorrect == Spec => []TypeOK
  BY InitInv, NextInv, PTL DEF Spec

(* No user gets a list they neither created nor accepted, on either side of
   the membership, for any number of users, lists, concurrent handlers,
   stale writes and crashes.                                               *)
THEOREM Consent == Spec => []NoUninvitedAccess
  <1>1. ConsentInv => NoUninvitedAccess
    BY DEF ConsentInv, NoUninvitedAccess
  <1> QED
    BY <1>1, InitInv, NextInv, PTL DEF Spec

(* A step that creates a place_lists document takes an id never used. *)
LEMMA OnlyCreateCreates ==
  ASSUME TypeOK, ConsentInv, [Next]_vars,
         NEW l \in created \ place_lists
  PROVE  l \notin place_lists'
  <1> USE DEF firestore, vars
  <1>1. ASSUME NEW t \in Tasks, Resume(t)
        PROVE  l \notin place_lists'
    BY <1>1 DEF Resume, createPlaceListIds, removePlaceListDelete, UserInTime,
       UserTooLate, addContributor, addContributorIds, deleteInvitedCopy
  <1>2. ASSUME NEW u \in Users, Read(u)
        PROVE  l \notin place_lists'
    BY <1>2 DEF Read, LoadProfile, LoadSavedLists, LoadInvites, InviteSnapshot
  <1>3. ASSUME NEW t \in Tasks, NEW u \in Users, Press(t, u)
        PROVE  l \notin place_lists'
    BY <1>3 DEF Press, createPlaceList, removePlaceList, updatePlaceLists, updateUser,
       inviteContributorToList, acceptInvite, declineInvite, deleteInvite
  <1> QED
    BY <1>1, <1>2, <1>3 DEF Next, sendInvite, WriteRefused, Restart

(* A deleted list stays deleted, whatever handlers, dialogs and apps still
   hold of it.                                                             *)
THEOREM DeletedForGood == Spec => DeletedStaysDeleted
  <1>1. TypeOK /\ ConsentInv /\ [Next]_vars =>
          [\A l \in created \ place_lists : l \notin place_lists']_vars
    BY OnlyCreateCreates
  <1> QED
    BY <1>1, InitInv, NextInv, PTL DEF Spec, DeletedStaysDeleted

-----------------------------------------------------------------------------
(* Membership, until a list is edited. *)

LEMMA InitMember == Init => MemberInv
  BY DEF Init, MemberInv, NoMail, NoTask

LEMMA ResumeMember ==
  ASSUME TypeOK, ConsentInv, MemberInv, NEW t \in Tasks, Resume(t)
  PROVE  MemberInv'
  <1> USE DEF TypeOK, MemberInv, Member, firestore, mailboxes, apps, bounds, Task,
              NoTask, Goto, Return, Invites, Listener, Notify, SetPlaceListIds
  <1>1. CASE createPlaceListIds(t)
    <2> DEFINE u == task[t].by
               l == task[t].list
    <2>1. u \in Users /\ l \in Lists /\ l \in created /\ listOwnerId[l] = u
      BY <1>1 DEF createPlaceListIds, ConsentInv
    <2>2. /\ placeListIds' = [placeListIds EXCEPT ![u] = placeListIds[u] \cup {l}]
          /\ fresh' \subseteq fresh \cup listeners
          /\ UNCHANGED <<place_lists, created, listOwnerId, contributorIds, mailboxes,
                         listeners, profile, screen, cards, bounds, consented>>
          /\ Return(t)
      BY <1>1 DEF createPlaceListIds
    <2>3. \A r \in Tasks : task'[r] = task[r] \/ task'[r].op = "idle"
      BY <2>2
    <2> HIDE DEF u, l, Return, Task, Invites, Listener
    <2>4. \A v \in Users : \A m \in placeListIds'[v] : m \in placeListIds[v] \/ (v = u /\ m = l)
      BY <2>1, <2>2
    <2>5. \A v \in Users : \A m \in placeListIds'[v] \cup profile'[v] :
            m \in created' /\ (m \in place_lists' => Member(v, m)')
      BY <2>1, <2>2, <2>4
    <2>6. \A k \in listeners' \cup fresh' : k.list \in created'
      BY <2>2
    <2>7. \A v \in Users, i \in Invites :
            invites'[v][i] # "absent" \/ cards'[v][i] # "absent" => i.via.list \in created'
      BY <2>2
    <2>8. /\ place_lists' \subseteq created'
          /\ \A v \in Users : \A p \in screen'[v] : p.list \in created'
      BY <2>2
    <2>9. UNCHANGED <<place_lists, created, listOwnerId, contributorIds>>
      BY <2>2
    <2> QED
      BY <2>3, <2>5, <2>6, <2>7, <2>8, <2>9
  <1>2. CASE removePlaceListDelete(t)
    BY <1>2 DEF removePlaceListDelete, ConsentInv
  <1>3. CASE UserInTime(t)
    BY <1>3 DEF UserInTime
  <1>4. CASE UserTooLate(t)
    BY <1>4 DEF UserTooLate
  <1>5. CASE addContributor(t)
    <2> DEFINE l == task[t].inv.via.list
               u == task[t].inv.via.to
    <2>1. l \in Lists /\ u \in Users
      BY <1>5 DEF addContributor, ConsentInv
    <2>2. CASE l \in place_lists
      <3>1. /\ contributorIds' = [contributorIds EXCEPT ![l] = contributorIds[l] \cup {u}]
            /\ Goto(t, "acceptIds")
            /\ UNCHANGED <<placeListIds, place_lists, created, listOwnerId,
                           mailboxes, apps, bounds, consented>>
        BY <1>5, <2>2 DEF addContributor
      <3> QED
        BY <1>5, <2>1, <3>1 DEF addContributor
    <2>3. CASE l \notin place_lists
      <3>1. Goto(t, "deleteInvite") /\ UNCHANGED <<firestore, mailboxes, apps, bounds, consented>>
        BY <1>5, <2>3 DEF addContributor
      <3> QED
        BY <3>1
    <2> QED
      BY <2>2, <2>3
  <1>6. CASE addContributorIds(t)
    <2>1. task[t].inv.via.list \in Lists /\ task[t].inv.via.to \in Users
      BY <1>6 DEF addContributorIds, ConsentInv
    <2> DEFINE l == task[t].inv.via.list
               u == task[t].inv.via.to
    <2>2. /\ placeListIds' = [placeListIds EXCEPT ![u] = placeListIds[u] \cup {l}]
          /\ l \in created /\ (l \in place_lists => Member(u, l))
          /\ fresh' \subseteq fresh \cup listeners
          /\ Goto(t, "deleteInvite")
          /\ UNCHANGED <<place_lists, created, listOwnerId, contributorIds, mailboxes,
                         listeners, profile, screen, cards, bounds, consented>>
      BY <1>6 DEF addContributorIds
    <2> HIDE DEF l, u
    <2> QED
      BY <2>1, <2>2
  <1>7. CASE deleteInvitedCopy(t)
    <2> DEFINE i == task[t].inv
    <2>1. i \in Invites /\ i.via.to \in Users /\ "absent" \in Status
      BY <1>7 DEF deleteInvitedCopy, ConsentInv, Status
    <2>2. invites' = [invites EXCEPT ![i.via.to][i] = "absent"]
      BY <1>7 DEF deleteInvitedCopy
    <2>3. \A v \in Users, j \in Invites :
            invites'[v][j] # "absent" => invites[v][j] # "absent"
      <3> HIDE DEF i, TypeOK, MemberInv, Invites
      <3> QED
        BY <2>1, <2>2, MailWrite
    <2>4. Return(t) /\ UNCHANGED <<firestore, sent, apps, bounds, consented>>
      BY <1>7 DEF deleteInvitedCopy
    <2>5. \A v \in Users, j \in Invites :
            invites'[v][j] # "absent" \/ cards'[v][j] # "absent" => j.via.list \in created'
      BY <2>3, <2>4
    <2>6. \A r \in Tasks : task'[r] = task[r] \/ task'[r].op = "idle"
      BY <2>4
    <2> HIDE DEF Return, Invites, Task
    <2> QED
      BY <2>4, <2>5, <2>6
  <1> QED
    BY <1>1, <1>2, <1>3, <1>4, <1>5, <1>6, <1>7 DEF Resume

LEMMA ReadMember ==
  ASSUME TypeOK, MemberInv, NEW u \in Users, Read(u)
  PROVE  MemberInv'
  <1> USE DEF TypeOK, MemberInv, Member, firestore, mailboxes, bounds, NoMail
  <1>1. CASE LoadProfile(u)
    BY <1>1 DEF LoadProfile
  <1>2. CASE LoadSavedLists(u)
    BY <1>2 DEF LoadSavedLists
  <1>3. CASE LoadInvites(u)
    BY <1>3 DEF LoadInvites
  <1>4. ASSUME NEW i \in Invites, InviteSnapshot(u, i)
        PROVE  MemberInv'
    BY <1>4 DEF InviteSnapshot
  <1> QED
    BY <1>1, <1>2, <1>3, <1>4 DEF Read

LEMMA PressMember ==
  ASSUME TypeOK, MemberInv, NEW t \in Tasks, NEW u \in Users, Press(t, u), edits' = 0
  PROVE  MemberInv'
  <1> USE DEF TypeOK, MemberInv, Member, firestore, mailboxes, apps, bounds, Task,
              Suspend, PlaceList, Notify, SetPlaceListIds
  <1>1. ASSUME NEW l \in Lists, createPlaceList(t, u, l)
        PROVE  MemberInv'
    BY <1>1 DEF createPlaceList
  <1>2. ASSUME NEW p \in screen[u], removePlaceList(t, u, p)
        PROVE  MemberInv'
    <2> DEFINE T == [op |-> "deleteList", by |-> u, list |-> p.list, inv |-> None]
    <2>1. /\ placeListIds' = [placeListIds EXCEPT ![u] = placeListIds[u] \ {p.list}]
          /\ fresh' \subseteq fresh \cup listeners
          /\ UNCHANGED <<place_lists, created, listOwnerId, contributorIds, mailboxes,
                         listeners, profile, screen, cards, bounds, consented>>
          /\ task' = task \/ task' = [task EXCEPT ![t] = T]
      BY <1>2 DEF removePlaceList
    <2>2. CASE task' = task
      BY <2>1, <2>2
    <2>3. CASE task' = [task EXCEPT ![t] = T]
      BY <2>1, <2>3
    <2> QED
      BY <2>1, <2>2, <2>3
  <1>3. ASSUME NEW p \in screen[u], updatePlaceLists(u, p)
        PROVE  FALSE
    BY <1>3 DEF updatePlaceLists
  <1>4. CASE updateUser(u)
    BY <1>4 DEF updateUser
  <1>5. ASSUME NEW v \in Users, NEW p \in screen[u], inviteContributorToList(u, v, p)
        PROVE  MemberInv'
    BY <1>5 DEF inviteContributorToList
  <1>6. ASSUME NEW i \in Invites, acceptInvite(t, u, i)
        PROVE  MemberInv'
    <2>1. i.via.from \in Users /\ i.via.list \in created
      BY <1>6 DEF acceptInvite, Invites, Listener
    <2>2. \A v \in Users, j \in Invites :
            invites'[v][j] # "absent" => j.via.list \in created
      BY <1>6, <2>1, MailWrite DEF acceptInvite, Status
    <2> QED
      BY <1>6, <2>1, <2>2 DEF acceptInvite
  <1>7. ASSUME NEW i \in Invites, declineInvite(t, u, i)
        PROVE  MemberInv'
    <2>1. i.via.from \in Users /\ i.via.list \in created
      BY <1>7 DEF declineInvite, Invites, Listener
    <2>2. \A v \in Users, j \in Invites :
            invites'[v][j] # "absent" => j.via.list \in created
      BY <1>7, <2>1, MailWrite DEF declineInvite, Status
    <2> QED
      BY <1>7, <2>1, <2>2 DEF declineInvite
  <1>8. ASSUME NEW i \in Invites, deleteInvite(t, u, i)
        PROVE  MemberInv'
    <2>1. i.via.from \in Users /\ i.via.list \in created
      BY <1>8 DEF deleteInvite, Invites, Listener
    <2>2. \A v \in Users, j \in Invites :
            invites'[v][j] # "absent" => j.via.list \in created
      BY <1>8, <2>1, MailWrite DEF deleteInvite, Status
    <2> QED
      BY <1>8, <2>1, <2>2 DEF deleteInvite
  <1> QED
    BY <1>1, <1>2, <1>3, <1>4, <1>5, <1>6, <1>7, <1>8 DEF Press

(* Edits are only counted up. *)
LEMMA EditsGrow ==
  ASSUME TypeOK, [Next]_vars, edits' = 0
  PROVE  edits = 0
  <1> USE DEF bounds
  <1>1. ASSUME NEW t \in Tasks, Resume(t) PROVE edits' = edits
    BY <1>1 DEF Resume, createPlaceListIds, removePlaceListDelete, UserInTime, UserTooLate,
                addContributor, addContributorIds, deleteInvitedCopy
  <1>2. ASSUME NEW u \in Users, Read(u) PROVE edits' = edits
    BY <1>2 DEF Read, LoadProfile, LoadSavedLists, LoadInvites, InviteSnapshot
  <1>3. ASSUME NEW t \in Tasks, NEW u \in Users, Press(t, u) PROVE edits' \in {edits, edits + 1}
    BY <1>3 DEF Press, createPlaceList, removePlaceList, updatePlaceLists, updateUser,
                inviteContributorToList, acceptInvite, declineInvite, deleteInvite
  <1>4. ASSUME NEW i \in Invites, sendInvite(i) PROVE edits' = edits
    BY <1>4 DEF sendInvite
  <1>5. ASSUME NEW t \in Tasks, WriteRefused(t) PROVE edits' = edits
    BY <1>5 DEF WriteRefused
  <1>6. ASSUME NEW u \in Users, Restart(u) PROVE edits' = edits
    BY <1>6 DEF Restart
  <1>7. CASE UNCHANGED vars
    BY <1>7 DEF vars
  <1>8. edits' \in {edits, edits + 1}
    BY <1>1, <1>2, <1>3, <1>4, <1>5, <1>6, <1>7 DEF Next
  <1> QED
    BY <1>8 DEF TypeOK

LEMMA NextMember ==
  ASSUME TypeOK, ConsentInv, MemberInv, [Next]_vars, edits' = 0
  PROVE  MemberInv'
  <1> USE DEF TypeOK, MemberInv, Member, firestore, mailboxes, apps, bounds
  <1>1. ASSUME NEW i \in Invites, sendInvite(i)
        PROVE  MemberInv'
    BY <1>1 DEF sendInvite, Invites, Listener
  <1>2. ASSUME NEW t \in Tasks, WriteRefused(t)
        PROVE  MemberInv'
    <2>1. \/ Goto(t, "deleteInvite")
          \/ Return(t)
      BY <1>2 DEF WriteRefused
    <2>2. UNCHANGED <<firestore, mailboxes, apps, sends, edits, saves, consented>>
      BY <1>2 DEF WriteRefused
    <2>3. CASE Goto(t, "deleteInvite")
      BY <2>2, <2>3 DEF Goto, Task
    <2>4. CASE Return(t)
      BY <2>2, <2>4 DEF Return, NoTask, Task
    <2> QED
      BY <2>1, <2>3, <2>4
  <1>3. ASSUME NEW u \in Users, Restart(u)
        PROVE  MemberInv'
    BY <1>3 DEF Restart, NoTask, NoMail, Task
  <1>4. CASE UNCHANGED vars
    BY <1>4 DEF vars
  <1> QED
    BY <1>1, <1>2, <1>3, <1>4, ResumeMember, ReadMember, PressMember DEF Next

(* Until somebody edits a list, whoever has a list in their account owns it
   or is one of its contributors, for any number of users, lists, concurrent
   handlers, stale profile writes and crashes.                             *)
THEOREM Membership == Spec => []MemberIsContributor
  <1> DEFINE EditedOrMember == edits = 0 => MemberInv
  <1>1. EditedOrMember => MemberIsContributor
    BY DEF MemberInv, MemberIsContributor
  <1>2. TypeOK /\ ConsentInv /\ EditedOrMember /\ [Next]_vars
          => TypeOK' /\ ConsentInv' /\ EditedOrMember'
    BY NextInv, NextMember, EditsGrow
  <1>3. Init => EditedOrMember
    BY InitMember
  <1> HIDE DEF EditedOrMember
  <1> QED
    BY <1>1, <1>2, <1>3, InitInv, PTL DEF Spec
-----------------------------------------------------------------------------
(* The owner's way to a list, until a user document is written back whole or
   a handler is lost.                                                      *)

LEMMA InitOwner == Init => OwnerInv
  BY DEF Init, OwnerInv, NoTask

(* What keeps a list reachable: the owner stays the same, the owner's account
   loses no id and the handlers on their way stay, or what replaces them.  *)
LEMMA StillReachable ==
  ASSUME OwnerInv, NEW l \in place_lists, listOwnerId'[l] = listOwnerId[l],
         placeListIds[listOwnerId[l]] \subseteq placeListIds'[listOwnerId[l]],
         \A r \in Tasks : task[r].op \in {"createIds", "deleteList"} => task'[r] = task[r]
  PROVE  Reachable(l)'
  BY DEF OwnerInv, Reachable

(* A step that leaves lists and accounts alone and, of the handlers, only
   those that concern an invite, or starts one of those.                   *)
LEMMA InviteStepOwner ==
  ASSUME OwnerInv, UNCHANGED <<place_lists, created, listOwnerId>>,
         \A u \in Users : placeListIds[u] \subseteq placeListIds'[u],
         \A r \in Tasks : task[r].op \in {"createIds", "deleteList"} => task'[r] = task[r],
         \A r \in Tasks : task'[r].op = "createIds" => task'[r] = task[r]
  PROVE  OwnerInv'
  <1>1. \A l \in place_lists : listOwnerId[l] \in Users
    BY DEF OwnerInv
  <1>2. \A l \in place_lists : Reachable(l)'
    BY <1>1, StillReachable
  <1> QED
    BY <1>2 DEF OwnerInv

LEMMA ResumeOwner ==
  ASSUME TypeOK, ConsentInv, OwnerInv, NEW t \in Tasks, Resume(t)
  PROVE  OwnerInv'
  <1> USE DEF firestore, Goto, Return
  <1>1. CASE createPlaceListIds(t)
    <2> DEFINE u == task[t].by
               l == task[t].list
    <2>1. u \in Users /\ l \in created /\ listOwnerId[l] = u
      BY <1>1 DEF createPlaceListIds, ConsentInv, OwnerInv
    <2>2. /\ placeListIds' = [placeListIds EXCEPT ![u] = placeListIds[u] \cup {l}]
          /\ UNCHANGED <<place_lists, created, listOwnerId>>
          /\ task' = [task EXCEPT ![t] = NoTask]
      BY <1>1 DEF createPlaceListIds, SetPlaceListIds
    <2>3. \A r \in Tasks : task'[r] = IF r = t THEN NoTask ELSE task[r]
      BY <2>2 DEF TypeOK
    <2>4. \A v \in Users : placeListIds'[v] =
            IF v = u THEN placeListIds[v] \cup {l} ELSE placeListIds[v]
      BY <2>1, <2>2 DEF TypeOK
    <2>5. ASSUME NEW m \in place_lists PROVE Reachable(m)'
      <3>1. listOwnerId[m] \in Users
        BY DEF OwnerInv
      <3>2. Reachable(m)
        BY DEF OwnerInv
      <3> HIDE DEF u
      <3>3. CASE m = l
        BY <2>1, <2>2, <2>4, <3>3 DEF Reachable
      <3>4. CASE m # l
        BY <2>2, <2>3, <2>4, <3>1, <3>2, <3>4 DEF Reachable
      <3> QED
        BY <3>3, <3>4
    <2>6. \A r \in Tasks : task'[r].op = "createIds" => task'[r] = task[r]
      BY <2>3 DEF NoTask
    <2> QED
      BY <2>2, <2>5, <2>6 DEF OwnerInv
  <1>2. CASE removePlaceListDelete(t)
    <2>1. /\ place_lists' = place_lists \ {task[t].list}
          /\ UNCHANGED <<placeListIds, created, listOwnerId>>
          /\ task' = [task EXCEPT ![t] = NoTask]
      BY <1>2 DEF removePlaceListDelete
    <2>2. \A r \in Tasks : task'[r] = IF r = t THEN NoTask ELSE task[r]
      BY <2>1 DEF TypeOK
    <2>3. ASSUME NEW m \in place_lists' PROVE Reachable(m)'
      <3>1. m \in place_lists /\ m # task[t].list
        BY <2>1
      <3>2. Reachable(m)
        BY <3>1 DEF OwnerInv
      <3> QED
        BY <2>1, <2>2, <3>1, <3>2 DEF Reachable
    <2>4. \A r \in Tasks : task'[r].op = "createIds" => task'[r] = task[r]
      BY <2>2 DEF NoTask
    <2> QED
      BY <2>1, <2>3, <2>4 DEF OwnerInv
  <1>3. CASE UserInTime(t) \/ UserTooLate(t) \/ addContributor(t) \/ deleteInvitedCopy(t)
    <2>1. /\ task[t].op \notin {"createIds", "deleteList"}
          /\ UNCHANGED <<placeListIds, place_lists, created, listOwnerId>>
      BY <1>3 DEF UserInTime, UserTooLate, addContributor, deleteInvitedCopy
    <2>2. /\ \A r \in Tasks : r # t => task'[r] = task[r]
          /\ task'[t].op # "createIds"
      BY <1>3 DEF UserInTime, UserTooLate, addContributor, deleteInvitedCopy, NoTask, TypeOK
    <2> QED
      BY <2>1, <2>2, InviteStepOwner
  <1>4. CASE addContributorIds(t)
    <2> DEFINE u == task[t].inv.via.to
    <2>1. u \in Users
      BY <1>4 DEF addContributorIds, ConsentInv, Invites, Listener
    <2>2. /\ task[t].op = "acceptIds"
          /\ UNCHANGED <<place_lists, created, listOwnerId>>
          /\ placeListIds' = [placeListIds EXCEPT ![u] =
                                placeListIds[u] \cup {task[t].inv.via.list}]
      BY <1>4 DEF addContributorIds, SetPlaceListIds
    <2>3. /\ \A r \in Tasks : r # t => task'[r] = task[r]
          /\ task'[t].op # "createIds"
      BY <1>4 DEF addContributorIds, TypeOK
    <2> HIDE DEF u
    <2>4. \A v \in Users : placeListIds[v] \subseteq placeListIds'[v]
      BY <2>1, <2>2 DEF TypeOK
    <2> QED
      BY <2>2, <2>3, <2>4, InviteStepOwner
  <1> QED
    BY <1>1, <1>2, <1>3, <1>4 DEF Resume

LEMMA PressOwner ==
  ASSUME TypeOK, OwnerInv, NEW t \in Tasks, NEW u \in Users, Press(t, u),
         saves \in Nat, saves' = 0
  PROVE  OwnerInv'
  <1> USE DEF firestore, apps, bounds, Suspend
  <1>1. ASSUME NEW l \in Lists, createPlaceList(t, u, l)
        PROVE  OwnerInv'
    <2> DEFINE T == [op |-> "createIds", by |-> u, list |-> l, inv |-> None]
    <2>1. /\ l \notin created /\ task[t].op = "idle"
          /\ task' = [task EXCEPT ![t] = T]
          /\ created' = created \cup {l}
          /\ place_lists' = place_lists \cup {l}
          /\ listOwnerId' = [listOwnerId EXCEPT ![l] = u]
          /\ placeListIds' = placeListIds
      BY <1>1 DEF createPlaceList
    <2>2. T.op = "createIds" /\ T.by = u /\ T.list = l
      OBVIOUS
    <2> HIDE DEF T
    <2>3. \A r \in Tasks : task'[r] = IF r = t THEN T ELSE task[r]
      BY <2>1 DEF TypeOK
    <2>4. \A m \in created' : listOwnerId'[m] = IF m = l THEN u ELSE listOwnerId[m]
      BY <2>1 DEF TypeOK
    <2>5. ASSUME NEW m \in place_lists' PROVE Reachable(m)'
      <3>1. CASE m = l
        BY <2>2, <2>3, <3>1 DEF Reachable
      <3>2. CASE m # l
        <4>1. m \in place_lists /\ m \in created /\ Reachable(m)
          BY <2>1, <3>2 DEF OwnerInv
        <4>2. listOwnerId'[m] = listOwnerId[m]
          BY <2>1, <2>4, <3>2, <4>1
        <4> QED
          BY <2>1, <2>3, <4>1, <4>2 DEF Reachable
      <3> QED
        BY <3>1, <3>2
    <2>6. place_lists' \subseteq created'
      BY <2>1 DEF OwnerInv
    <2>7. \A m \in created' : listOwnerId'[m] \in Users
      BY <2>1, <2>4 DEF OwnerInv
    <2>8. \A r \in Tasks : task'[r].op = "createIds" =>
            task'[r].list \in created' /\ listOwnerId'[task'[r].list] = task'[r].by
      BY <2>1, <2>2, <2>3, <2>4 DEF OwnerInv
    <2> QED
      BY <2>5, <2>6, <2>7, <2>8 DEF OwnerInv
  <1>2. ASSUME NEW p \in screen[u], removePlaceList(t, u, p)
        PROVE  OwnerInv'
    <2> DEFINE l == p.list
               T == [op |-> "deleteList", by |-> u, list |-> l, inv |-> None]
    <2>1. /\ placeListIds' = [placeListIds EXCEPT ![u] = placeListIds[u] \ {l}]
          /\ UNCHANGED <<place_lists, created, listOwnerId>>
      BY <1>2 DEF removePlaceList, SetPlaceListIds
    <2>2. T.op = "deleteList" /\ T.list = l
      OBVIOUS
    <2>3. \/ listOwnerId[l] # u /\ task' = task
          \/ task[t].op = "idle" /\ task' = [task EXCEPT ![t] = T]
      BY <1>2 DEF removePlaceList
    <2> HIDE DEF T, l
    <2>4. \A v \in Users : placeListIds'[v] =
            IF v = u THEN placeListIds[v] \ {l} ELSE placeListIds[v]
      BY <2>1 DEF TypeOK
    <2>5. \A m \in place_lists : listOwnerId[m] \in Users /\ Reachable(m)
      BY DEF OwnerInv
    <2>6. CASE listOwnerId[l] # u /\ task' = task
      <3>1. ASSUME NEW m \in place_lists PROVE Reachable(m)'
        BY <2>1, <2>4, <2>5, <2>6 DEF Reachable
      <3> QED
        BY <2>1, <2>6, <3>1 DEF OwnerInv
    <2>7. CASE task[t].op = "idle" /\ task' = [task EXCEPT ![t] = T]
      <3>1. \A r \in Tasks : task'[r] = IF r = t THEN T ELSE task[r]
        BY <2>7 DEF TypeOK
      <3>2. ASSUME NEW m \in place_lists PROVE Reachable(m)'
        <4>1. CASE m = l
          BY <2>2, <3>1, <4>1 DEF Reachable
        <4>2. CASE m # l
          BY <2>1, <2>4, <2>5, <2>7, <3>1, <4>2 DEF Reachable
        <4> QED
          BY <4>1, <4>2
      <3>3. \A r \in Tasks : task'[r].op = "createIds" => task'[r] = task[r]
        BY <2>2, <3>1
      <3> QED
        BY <2>1, <3>2, <3>3 DEF OwnerInv
    <2> QED
      BY <2>3, <2>6, <2>7
  <1>3. CASE updateUser(u)
    BY <1>3 DEF updateUser
  <1>4. ASSUME NEW p \in screen[u],
               updatePlaceLists(u, p) \/ \E v \in Users : inviteContributorToList(u, v, p)
        PROVE  OwnerInv'
    <2>1. UNCHANGED <<placeListIds, place_lists, created, listOwnerId, task>>
      BY <1>4 DEF updatePlaceLists, inviteContributorToList
    <2> QED
      BY <2>1, InviteStepOwner
  <1>5. ASSUME NEW i \in Invites,
               acceptInvite(t, u, i) \/ declineInvite(t, u, i) \/ deleteInvite(t, u, i)
        PROVE  OwnerInv'
    <2>1. /\ UNCHANGED <<placeListIds, place_lists, created, listOwnerId>>
          /\ task[t].op = "idle"
      BY <1>5 DEF acceptInvite, declineInvite, deleteInvite
    <2>2. /\ \A r \in Tasks : r # t => task'[r] = task[r]
          /\ task'[t].op # "createIds"
      BY <1>5 DEF acceptInvite, declineInvite, deleteInvite, TypeOK
    <2> QED
      BY <2>1, <2>2, InviteStepOwner
  <1> QED
    BY <1>1, <1>2, <1>3, <1>4, <1>5 DEF Press

(* Whole-document writes and lost handlers are only counted up. *)
LEMMA FaultsGrow ==
  ASSUME TypeOK, [Next]_vars, saves' = 0, faults' = 0
  PROVE  saves = 0 /\ faults = 0
  <1> USE DEF bounds
  <1>1. ASSUME NEW t \in Tasks, Resume(t) PROVE saves' = saves /\ faults' = faults
    BY <1>1 DEF Resume, createPlaceListIds, removePlaceListDelete, UserInTime, UserTooLate,
                addContributor, addContributorIds, deleteInvitedCopy
  <1>2. ASSUME NEW u \in Users, Read(u) PROVE saves' = saves /\ faults' = faults
    BY <1>2 DEF Read, LoadProfile, LoadSavedLists, LoadInvites, InviteSnapshot
  <1>3. ASSUME NEW t \in Tasks, NEW u \in Users, Press(t, u)
        PROVE  saves' \in {saves, saves + 1} /\ faults' = faults
    BY <1>3 DEF Press, createPlaceList, removePlaceList, updatePlaceLists, updateUser,
                inviteContributorToList, acceptInvite, declineInvite, deleteInvite
  <1>4. ASSUME NEW i \in Invites, sendInvite(i) PROVE saves' = saves /\ faults' = faults
    BY <1>4 DEF sendInvite
  <1>5. ASSUME NEW t \in Tasks, WriteRefused(t)
        PROVE  saves' = saves /\ faults' = faults + 1
    BY <1>5 DEF WriteRefused
  <1>6. ASSUME NEW u \in Users, Restart(u) PROVE saves' = saves /\ faults' = faults + 1
    BY <1>6 DEF Restart
  <1>7. CASE UNCHANGED vars
    BY <1>7 DEF vars
  <1>8. saves' \in {saves, saves + 1} /\ faults' \in {faults, faults + 1}
    BY <1>1, <1>2, <1>3, <1>4, <1>5, <1>6, <1>7 DEF Next
  <1> QED
    BY <1>8 DEF TypeOK

LEMMA NextOwner ==
  ASSUME TypeOK, ConsentInv, OwnerInv, [Next]_vars, saves' = 0, faults' = 0
  PROVE  OwnerInv'
  <1>1. saves \in Nat /\ faults \in Nat
    BY DEF TypeOK
  <1>2. ASSUME NEW t \in Tasks, Resume(t) PROVE OwnerInv'
    BY <1>2, ResumeOwner
  <1>3. ASSUME NEW t \in Tasks, NEW u \in Users, Press(t, u) PROVE OwnerInv'
    BY <1>1, <1>3, PressOwner
  <1>4. ASSUME NEW u \in Users, Read(u) PROVE OwnerInv'
    <2>1. UNCHANGED <<placeListIds, place_lists, created, listOwnerId, task>>
      BY <1>4 DEF Read, LoadProfile, LoadSavedLists, LoadInvites, InviteSnapshot, firestore
    <2> QED
      BY <2>1, InviteStepOwner
  <1>5. ASSUME NEW i \in Invites, sendInvite(i) PROVE OwnerInv'
    <2>1. UNCHANGED <<placeListIds, place_lists, created, listOwnerId, task>>
      BY <1>5 DEF sendInvite, firestore
    <2> QED
      BY <2>1, InviteStepOwner
  <1>6. ASSUME NEW t \in Tasks, WriteRefused(t) PROVE FALSE
    BY <1>1, <1>6 DEF WriteRefused
  <1>7. ASSUME NEW u \in Users, Restart(u) PROVE FALSE
    BY <1>1, <1>7 DEF Restart
  <1>8. CASE UNCHANGED vars
    <2>1. UNCHANGED <<placeListIds, place_lists, created, listOwnerId, task>>
      BY <1>8 DEF vars, firestore
    <2> QED
      BY <2>1, InviteStepOwner
  <1> QED
    BY <1>2, <1>3, <1>4, <1>5, <1>6, <1>7, <1>8 DEF Next

(* Until a user document is written back whole or a handler is lost, a list
   that exists is in its owner's account or on its way in or out of it, for
   any number of users, lists, concurrent handlers, edits and invites.     *)
THEOREM OwnersReachTheirLists == Spec => []OwnedListReachable
  <1> DEFINE DisturbedOrOwner == saves = 0 /\ faults = 0 => OwnerInv
  <1>1. DisturbedOrOwner => OwnedListReachable
    BY DEF OwnerInv, OwnedListReachable
  <1>2. TypeOK /\ ConsentInv /\ DisturbedOrOwner /\ [Next]_vars
          => TypeOK' /\ ConsentInv' /\ DisturbedOrOwner'
    BY NextInv, NextOwner, FaultsGrow
  <1>3. Init => DisturbedOrOwner
    BY InitOwner
  <1> HIDE DEF DisturbedOrOwner
  <1> QED
    BY <1>1, <1>2, <1>3, InitInv, PTL DEF Spec
=============================================================================
