------------------------------ MODULE Usernames ------------------------------
(***************************************************************************)
(* Usernames: the documents usernames/{name} and users/{id} of             *)
(* lib/repository/database/database_repository.dart, and the apps that     *)
(* choose a name while signing up (OnboardingBloc) and change it later     *)
(* (SettingsBloc).                                                         *)
(*                                                                         *)
(* A change of name is a check, then a deregistration, a registration and  *)
(* an update of the user's document, each awaited.  Nothing ties them      *)
(* together: the page reads the text field again after the check, the      *)
(* registration overwrites whatever is there, the old name comes from      *)
(* ProfileBloc's copy of the document, and a listener that the sign-up     *)
(* leaves behind writes every later version of the document back.          *)
(***************************************************************************)
EXTENDS Naturals

CONSTANTS
  Users,        \* user ids
  Names,        \* user names a text field accepts
  Tasks,        \* slots for handlers suspended at an await
  MaxChanges,   \* bound: presses of the buttons that set a name
  MaxSaves,     \* bound: UpdateName events
  MaxPictures,  \* bound: pictures a user uploads while signing up
  MaxFaults,    \* bound: killed or reinstalled apps, refused writes, failed uploads
  NoName,       \* the empty user name
  None          \* "no value"

ASSUME UsernamesAssumption ==
  /\ MaxChanges \in Nat /\ MaxSaves \in Nat /\ MaxPictures \in Nat
  /\ MaxFaults \in Nat
  /\ NoName \notin Names /\ None \notin Users

(* A User object or document, without the fields nothing here depends on. *)
User == [userName : Names \cup {NoName}, picture : BOOLEAN]

NewUser == [userName |-> NoName, picture |-> FALSE]

(* The writes of a handler that sets a name, in the order it awaits them. *)
Writing == {"deregister", "register", "update"}

(* A suspended handler: what it awaits, the name it checks or sets, the name
   and picture of the User object it holds, and what the check answered.   *)
Task == [pc : {"idle", "check", "answer", "upload", "delete", "linger"} \cup Writing,
         flow : {"onboarding", "settings"}, by : Users \cup {None},
         old : Names \cup {NoName}, name : Names \cup {NoName},
         picture : BOOLEAN, free : BOOLEAN]

NoTask == [pc |-> "idle", flow |-> "settings", by |-> None, old |-> NoName,
           name |-> NoName, picture |-> FALSE, free |-> FALSE]

VARIABLES
  (* Firestore *)
  usernames,    \* usernames/{n}.userId, or None
  users,        \* the ids of the documents users/{u} that exist
  doc,          \* users/{u}
  (* the apps *)
  page,         \* "welcome", "profile" (sign-up), "home", "gone"
  onboarding,   \* OnboardingBloc's state
  obUser,       \* the User object in OnboardingLoaded
  echoes,       \* listeners UpdateUserProfilePicture has left behind
  fresh,        \* those of them with a snapshot to process
  settings,     \* SettingsBloc's state
  profile,      \* the User object in ProfileBloc's state
  task,
  (* bounds and history *)
  changes, saves, faults,
  disturbed,    \* names something happened to that can part them from their owner
  left          \* names an account may have left behind, still registered

firestore == <<usernames, users, doc>>
signup == <<page, onboarding, obUser, echoes, fresh>>
bounds == <<changes, saves, faults>>
history == <<disturbed, left>>
vars == <<firestore, signup, settings, profile, task, bounds, history>>

TypeOK ==
  /\ usernames \in [Names -> Users \cup {None}]
  /\ users \subseteq Users
  /\ doc \in [Users -> User]
  /\ page \in [Users -> {"welcome", "profile", "home", "gone"}]
  /\ onboarding \in [Users -> {"Loading", "Loaded"}]
  /\ obUser \in [Users -> User]
  /\ echoes \in [Users -> 0..MaxPictures]
  /\ fresh \in [Users -> SUBSET (1..MaxPictures)]
  /\ settings \in [Users -> {"Loaded", "Loading", "Updated"}]
  /\ profile \in [Users -> User]
  /\ task \in [Tasks -> Task]
  /\ \A t \in Tasks : task[t].pc # "idle" => task[t].by \in Users
  /\ \A t \in Tasks : task[t].pc \in {"check", "answer"} => task[t].name \in Names
  /\ changes \in 0..MaxChanges /\ saves \in 0..MaxSaves /\ faults \in 0..MaxFaults
  /\ disturbed \subseteq Names /\ left \subseteq Names

Init ==
  /\ usernames = [n \in Names |-> None]
  /\ users = {}
  /\ doc = [u \in Users |-> NewUser]
  /\ page = [u \in Users |-> "welcome"]
  /\ onboarding = [u \in Users |-> "Loading"]
  /\ obUser = [u \in Users |-> NewUser]
  /\ echoes = [u \in Users |-> 0]
  /\ fresh = [u \in Users |-> {}]
  /\ settings = [u \in Users |-> "Loaded"]
  /\ profile = [u \in Users |-> NewUser]
  /\ task = [t \in Tasks |-> NoTask]
  /\ changes = 0 /\ saves = 0 /\ faults = 0
  /\ disturbed = {} /\ left = {}

-----------------------------------------------------------------------------
(* Helpers. *)

Suspend(t, pc, flow, u, old, name, picture) ==
  /\ task[t].pc = "idle"
  /\ task' = [task EXCEPT ![t] =
       [pc |-> pc, flow |-> flow, by |-> u, old |-> old, name |-> name,
        picture |-> picture, free |-> FALSE]]

Goto(t, pc) ==
  task' = [task EXCEPT ![t] =
    [pc |-> pc, flow |-> task[t].flow, by |-> task[t].by, old |-> task[t].old,
     name |-> task[t].name, picture |-> task[t].picture, free |-> task[t].free]]

Return(t) == task' = [task EXCEPT ![t] = NoTask]

(* Firestore sends a snapshot to every listener when the document changes. *)
WriteDoc(u, d) ==
  /\ doc' = [doc EXCEPT ![u] = d]
  /\ fresh' = IF d = doc[u] THEN fresh
              ELSE [fresh EXCEPT ![u] = 1..echoes[u]]

-----------------------------------------------------------------------------
(* History.  Nothing below restricts a step.  A name is disturbed by what can
   part it from the account whose document has it: Meets, Outdates, Takes,
   Frees and Lost, and a profile saved with a name no longer registered to
   its user.  A name is left behind, registered to an account whose document
   has another: Leaves, Unused, and signing up again.                      *)

NamesOf(r) == IF r.pc \in Writing THEN {r.old, r.name} \ {NoName} ELSE {}

(* The handlers that write u's document, or one of the names S. *)
Met(u, S) ==
  {t \in Tasks : /\ task[t].pc \in Writing
                 /\ task[t].by = u \/ NamesOf(task[t]) \cap S # {}}

(* Two changes overlap: a handler of u starts writing the names S while those
   handlers run.                                                           *)
Meets(u, S) ==
  IF Met(u, S) = {} THEN {} ELSE S \cup UNION {NamesOf(task[t]) : t \in Met(u, S)}

(* A name is registered while a handler of another user holds the answer that
   it is free.                                                             *)
Outdates(t) ==
  {task[t].name} \cap
  {task[s].name : s \in {s \in Tasks : /\ task[s].pc = "answer" /\ task[s].free
                                      /\ task[s].by # task[t].by}}

(* The text has changed since the check, to a name of somebody else. *)
Takes(u, name, checked) ==
  IF name # checked /\ usernames[name] \notin {None, u} THEN {name} ELSE {}

(* The name to deregister, from a profile that is out of date, is by now
   somebody else's.                                                        *)
Frees(u, old) ==
  IF old # NoName /\ usernames[old] \notin {None, u} THEN {old} ELSE {}

(* A change is cut off between the deregistration of the name in the document
   and the update of the document.                                         *)
Lost(r) ==
  IF r.pc \in {"register", "update"} /\ r.old = doc[r.by].userName THEN {r.old} \ {NoName}
  ELSE {}

(* A change of u starts that sets name and deregisters at most old, while u's
   document has a third: the sign-up deregisters nothing, the settings what
   ProfileBloc's copy says.                                                *)
Leaves(u, old, name) == {doc[u].userName} \ {old, name, NoName}

(* A change is cut off between the registration of a name and the update of
   the document.                                                           *)
Unused(r) ==
  IF r.pc = "update" THEN {r.name} \ {doc[r.by].userName, NoName} ELSE {}

-----------------------------------------------------------------------------
(* Signing up. *)

(* createUser sets the document, also over the one of an existing account. *)
StartOnboarding(u) ==
  /\ page[u] = "welcome"
  /\ users' = users \cup {u}
  /\ doc' = [doc EXCEPT ![u] = NewUser]
  /\ page' = [page EXCEPT ![u] = "profile"]
  /\ onboarding' = [onboarding EXCEPT ![u] = "Loaded"]
  /\ obUser' = [obUser EXCEPT ![u] = NewUser]
  /\ left' = left \cup ({doc[u].userName} \ {NoName})
  /\ UNCHANGED <<usernames, echoes, fresh, settings, profile, task, bounds, disturbed>>

(* "Already have an account?  Sign In." *)
SignIn(u) ==
  /\ page[u] = "welcome"
  /\ u \in users
  /\ page' = [page EXCEPT ![u] = "home"]
  /\ UNCHANGED <<firestore, onboarding, obUser, echoes, fresh, settings,
                 profile, task, bounds, history>>

UpdateUserProfilePicture(t, u) ==
  /\ page[u] = "profile" /\ onboarding[u] = "Loaded"
  /\ echoes[u] + 1 <= MaxPictures
  /\ \A s \in Tasks : task[s].by = u => task[s].pc # "upload"
  /\ Suspend(t, "upload", "onboarding", u, NoName, NoName, FALSE)
  /\ onboarding' = [onboarding EXCEPT ![u] = "Loading"]
  /\ UNCHANGED <<firestore, page, obUser, echoes, fresh, settings, profile,
                 bounds, history>>

(* uploadImage updates one field of the document; the listener installed
   after it gets the document at once and whenever it changes.             *)
uploadImage(t) ==
  LET u == task[t].by IN
  /\ task[t].pc = "upload"
  /\ doc' = [doc EXCEPT ![u] = [userName |-> doc[u].userName, picture |-> TRUE]]
  /\ echoes' = [echoes EXCEPT ![u] = @ + 1]
  /\ fresh' = [fresh EXCEPT ![u] = @ \cup {echoes[u] + 1} \cup
                 (IF doc[u].picture THEN {} ELSE 1..echoes[u])]
  /\ Return(t)
  /\ UNCHANGED <<usernames, users, page, onboarding, obUser, settings, profile,
                 bounds, history>>

(* A failed upload is swallowed, and the listener installed all the same. *)
uploadImageFails(t) ==
  LET u == task[t].by IN
  /\ task[t].pc = "upload"
  /\ faults < MaxFaults
  /\ faults' = faults + 1
  /\ echoes' = [echoes EXCEPT ![u] = @ + 1]
  /\ fresh' = [fresh EXCEPT ![u] = @ \cup {echoes[u] + 1}]
  /\ Return(t)
  /\ UNCHANGED <<firestore, page, onboarding, obUser, settings, profile, changes,
                 saves, history>>

(* The listener adds UpdateUser for a snapshot; the handler registers the
   name in it, if any, and writes the whole document back.                 *)
EchoSnapshot(t, u, k) ==
  LET n == doc[u].userName IN
  /\ k \in fresh[u] /\ u \in users
  /\ fresh' = [fresh EXCEPT ![u] = @ \ {k}]
  /\ Suspend(t, IF n # NoName THEN "register" ELSE "update", "onboarding", u,
             NoName, n, doc[u].picture)
  /\ onboarding' = [onboarding EXCEPT ![u] = "Loading"]
  /\ disturbed' = disturbed \cup Meets(u, {n} \ {NoName})
  /\ UNCHANGED <<firestore, page, obUser, echoes, settings, profile, bounds, left>>

(* After the paywall; the page turns when both are set. *)
FinishOnboarding(u) ==
  /\ page[u] = "profile" /\ onboarding[u] = "Loaded"
  /\ obUser[u].picture /\ obUser[u].userName # NoName
  /\ page' = [page EXCEPT ![u] = "home"]
  /\ UNCHANGED <<firestore, onboarding, obUser, echoes, fresh, settings,
                 profile, task, bounds, history>>

-----------------------------------------------------------------------------
(* Choosing a name. *)

(* The button of the sign-up page: the closure keeps the User object of the
   state it was built from.                                                *)
PressSetUsername(t, u, n) ==
  /\ changes < MaxChanges
  /\ page[u] = "profile" /\ onboarding[u] = "Loaded" /\ obUser[u].picture
  /\ Suspend(t, "check", "onboarding", u, NoName, n, TRUE)
  /\ changes' = changes + 1
  /\ UNCHANGED <<firestore, signup, settings, profile, saves, faults, history>>

(* The button of ChangeUsernameDialog. *)
PressUpdateUsername(t, u, n) ==
  /\ changes < MaxChanges
  /\ page[u] = "home" /\ settings[u] = "Loaded" /\ profile[u].picture
  /\ Suspend(t, "check", "settings", u, NoName, n, FALSE)
  /\ changes' = changes + 1
  /\ UNCHANGED <<firestore, signup, settings, profile, saves, faults, history>>

(* Mutant: a name that exists is reported free as well. *)
AnswerFree(t) ==
  /\ task[t].pc = "check"
  /\ task' = [task EXCEPT ![t] =
       [pc |-> "answer", flow |-> task[t].flow, by |-> task[t].by,
        old |-> task[t].old, name |-> task[t].name,
        picture |-> task[t].picture, free |-> TRUE]]
  /\ UNCHANGED <<firestore, signup, settings, profile, bounds, history>>

checkUsernameAvailability(t) ==
  /\ task[t].pc = "check"
  /\ task' = [task EXCEPT ![t] =
       [pc |-> "answer", flow |-> task[t].flow, by |-> task[t].by,
        old |-> task[t].old, name |-> task[t].name,
        picture |-> task[t].picture, free |-> usernames[task[t].name] = None]]
  /\ UNCHANGED <<firestore, signup, settings, profile, bounds, history>>

(* "Username already taken!", or the page is gone. *)
GiveUp(t) ==
  /\ task[t].pc = "answer"
  /\ Return(t)
  /\ UNCHANGED <<firestore, signup, settings, profile, bounds, history>>

(* Mutant: the name goes into the document only. *)
UpdateUnregistered(t, m) ==
  LET u == task[t].by IN
  /\ task[t].pc = "answer" /\ task[t].flow = "onboarding" /\ task[t].free
  /\ task' = [task EXCEPT ![t] =
       [pc |-> "update", flow |-> "onboarding", by |-> u, old |-> NoName,
        name |-> m, picture |-> task[t].picture, free |-> TRUE]]
  /\ onboarding' = [onboarding EXCEPT ![u] = "Loading"]
  /\ disturbed' = disturbed \cup Meets(u, {m}) \cup Takes(u, m, task[t].name)
  /\ left' = left \cup Leaves(u, NoName, m)
  /\ UNCHANGED <<firestore, page, obUser, echoes, fresh, settings, profile, bounds>>

(* OnboardingBloc's UpdateUser, for the text m the field holds by now. *)
UpdateUser(t, m) ==
  LET u == task[t].by IN
  /\ task[t].pc = "answer" /\ task[t].flow = "onboarding" /\ task[t].free
  /\ task' = [task EXCEPT ![t] =
       [pc |-> "register", flow |-> "onboarding", by |-> u, old |-> NoName,
        name |-> m, picture |-> task[t].picture, free |-> TRUE]]
  /\ onboarding' = [onboarding EXCEPT ![u] = "Loading"]
  /\ disturbed' = disturbed \cup Meets(u, {m}) \cup Takes(u, m, task[t].name)
  /\ left' = left \cup Leaves(u, NoName, m)
  /\ UNCHANGED <<firestore, page, obUser, echoes, fresh, settings, profile, bounds>>

(* SettingsBloc's UpdateUsername, with ProfileBloc's user and the text m. *)
UpdateUsername(t, m) ==
  LET u == task[t].by
      me == profile[u] IN
  /\ task[t].pc = "answer" /\ task[t].flow = "settings" /\ task[t].free
  /\ task' = [task EXCEPT ![t] =
       [pc |-> "deregister", flow |-> "settings", by |-> u, old |-> me.userName,
        name |-> m, picture |-> me.picture, free |-> TRUE]]
  /\ settings' = [settings EXCEPT ![u] = "Loading"]
  /\ disturbed' = disturbed \cup Meets(u, {me.userName, m} \ {NoName})
                    \cup Takes(u, m, task[t].name) \cup Frees(u, me.userName)
  /\ left' = left \cup Leaves(u, me.userName, m)
  /\ UNCHANGED <<firestore, signup, profile, bounds>>

(* SettingsBloc's UpdateName writes ProfileBloc's user with another name:
   its userName goes back to what ProfileBloc has, registered or not.      *)
UpdateName(t, u) ==
  LET me == profile[u] IN
  /\ saves < MaxSaves
  /\ page[u] = "home" /\ settings[u] = "Loaded" /\ me # NewUser
  /\ Suspend(t, "update", "settings", u, NoName, me.userName, me.picture)
  /\ saves' = saves + 1
  /\ settings' = [settings EXCEPT ![u] = "Loading"]
  /\ disturbed' = disturbed \cup Meets(u, {me.userName} \ {NoName})
       \cup {n \in {me.userName} \ {NoName} : usernames[n] # u}
  /\ left' = left \cup Leaves(u, NoName, me.userName)
  /\ UNCHANGED <<firestore, signup, profile, changes, faults>>

-----------------------------------------------------------------------------
(* The writes. *)

(* Mutant: the name that is set instead of the one that was. *)
DeregisterNew(t) ==
  LET r == task[t] IN
  /\ r.pc = "deregister" /\ r.old # NoName
  /\ usernames' = [usernames EXCEPT ![r.name] = None]
  /\ Goto(t, "register")
  /\ UNCHANGED <<users, doc, signup, settings, profile, bounds, history>>

deregisterUsername(t) ==
  LET r == task[t] IN
  /\ r.pc = "deregister" /\ r.old # NoName
  /\ usernames' = [usernames EXCEPT ![r.old] = None]
  /\ Goto(t, "register")
  /\ UNCHANGED <<users, doc, signup, settings, profile, bounds, history>>

(* Mutant: the two arguments of registerUsername are swapped. *)
RegisterSwapped(t) ==
  LET r == task[t] IN
  /\ r.pc = "register"
  /\ usernames' = [usernames EXCEPT ![r.name] = r.name]
  /\ Goto(t, "update")
  /\ disturbed' = disturbed \cup Outdates(t)
  /\ UNCHANGED <<users, doc, signup, settings, profile, bounds, left>>

registerUsername(t) ==
  LET r == task[t] IN
  /\ r.pc = "register"
  /\ usernames' = [usernames EXCEPT ![r.name] = r.by]
  /\ Goto(t, "update")
  /\ disturbed' = disturbed \cup Outdates(t)
  /\ UNCHANGED <<users, doc, signup, settings, profile, bounds, left>>

(* The whole User object; then the bloc's state. *)
updateUser(t) ==
  LET r == task[t]
      me == [userName |-> r.name, picture |-> r.picture] IN
  /\ r.pc = "update" /\ r.by \in users
  /\ WriteDoc(r.by, me)
  /\ \/ /\ r.flow = "onboarding"
        /\ onboarding' = [onboarding EXCEPT ![r.by] = "Loaded"]
        /\ obUser' = [obUser EXCEPT ![r.by] = me]
        /\ Return(t)
        /\ UNCHANGED settings
     \/ /\ r.flow = "settings"
        /\ settings' = [settings EXCEPT ![r.by] = "Updated"]
        /\ Goto(t, "linger")
        /\ UNCHANGED <<onboarding, obUser>>
  /\ UNCHANGED <<usernames, users, page, echoes, profile, bounds, history>>

(* Two seconds after SettingsUpdated. *)
Linger(t) ==
  /\ task[t].pc = "linger"
  /\ settings' = [settings EXCEPT ![task[t].by] = "Loaded"]
  /\ Return(t)
  /\ UNCHANGED <<firestore, signup, profile, bounds, history>>

(* ProfileBloc's listener. *)
ProfileSnapshot(u) ==
  /\ page[u] = "home" /\ u \in users
  /\ profile' = [profile EXCEPT ![u] = doc[u]]
  /\ UNCHANGED <<firestore, signup, settings, task, bounds, history>>

(* The account goes first, then the document; usernames is left alone. *)
DeleteAccount(t, u) ==
  /\ page[u] = "home"
  /\ Suspend(t, "delete", "settings", u, NoName, NoName, FALSE)
  /\ settings' = [settings EXCEPT ![u] = "Loading"]
  /\ page' = [page EXCEPT ![u] = "gone"]
  /\ UNCHANGED <<firestore, onboarding, obUser, echoes, fresh, profile, bounds,
                 history>>

deleteUserData(t) ==
  LET u == task[t].by IN
  /\ task[t].pc = "delete"
  /\ users' = users \ {u}
  /\ settings' = [settings EXCEPT ![u] = "Loaded"]
  /\ Return(t)
  /\ UNCHANGED <<usernames, doc, signup, profile, bounds, history>>

-----------------------------------------------------------------------------
(* Failures. *)

(* doc('') of a user without a name and update of a deleted document throw;
   any other write may be refused.  The bloc keeps its Loading state.      *)
Throws(t) ==
  LET r == task[t]
      certain == \/ r.pc = "deregister" /\ r.old = NoName
                 \/ r.pc = "update" /\ r.by \notin users IN
  /\ r.pc \in Writing
  /\ certain \/ faults < MaxFaults
  /\ faults' = IF certain THEN faults ELSE faults + 1
  /\ disturbed' = disturbed \cup (IF r.by \in users THEN Lost(r) ELSE {})
  /\ left' = left \cup (IF r.by \in users THEN Unused(r) ELSE {})
  /\ Return(t)
  /\ UNCHANGED <<firestore, signup, settings, profile, changes, saves>>

(* The app is killed, or installed again (initScreen is gone): handlers and
   listeners are lost, and a sign-up starts over.                          *)
Restart(u, again) ==
  LET mine == {t \in Tasks : task[t].by = u} IN
  /\ faults < MaxFaults
  /\ page[u] # "gone"
  /\ faults' = faults + 1
  /\ task' = [t \in Tasks |-> IF t \in mine THEN NoTask ELSE task[t]]
  /\ page' = [page EXCEPT ![u] = IF page[u] = "profile" \/ again THEN "welcome" ELSE @]
  /\ onboarding' = [onboarding EXCEPT ![u] = "Loading"]
  /\ echoes' = [echoes EXCEPT ![u] = 0]
  /\ fresh' = [fresh EXCEPT ![u] = {}]
  /\ settings' = [settings EXCEPT ![u] = "Loaded"]
  /\ disturbed' = disturbed \cup UNION {Lost(task[t]) : t \in mine}
  /\ left' = left \cup UNION {Unused(task[t]) : t \in mine}
  /\ UNCHANGED <<firestore, obUser, profile, changes, saves>>

-----------------------------------------------------------------------------
Step(t) ==
  \/ uploadImage(t)
  \/ uploadImageFails(t)
  \/ checkUsernameAvailability(t)
  \/ GiveUp(t)
  \/ \E m \in Names : UpdateUser(t, m)
  \/ \E m \in Names : UpdateUsername(t, m)
  \/ deregisterUsername(t)
  \/ registerUsername(t)
  \/ updateUser(t)
  \/ Linger(t)
  \/ deleteUserData(t)

Press(t, u) ==
  \/ UpdateUserProfilePicture(t, u)
  \/ \E n \in Names : PressSetUsername(t, u, n)
  \/ \E n \in Names : PressUpdateUsername(t, u, n)
  \/ UpdateName(t, u)
  \/ DeleteAccount(t, u)

Next ==
  \/ \E t \in Tasks : Step(t) \/ Throws(t)
  \/ \E t \in Tasks, u \in Users : Press(t, u)
  \/ \E t \in Tasks, u \in Users, k \in 1..MaxPictures : EchoSnapshot(t, u, k)
  \/ \E u \in Users : StartOnboarding(u)
  \/ \E u \in Users : SignIn(u)
  \/ \E u \in Users : FinishOnboarding(u)
  \/ \E u \in Users : ProfileSnapshot(u)
  \/ \E u \in Users, again \in BOOLEAN : Restart(u, again)

Spec == Init /\ [][Next]_vars

-----------------------------------------------------------------------------
(* Properties. *)

(* A user is found under the name in their document: invites to it reach
   them.  While the user's own change runs, the name may be gone.  It holds
   through crashes, refused writes, failed uploads, the listener's echoes,
   renames in the sign-up, signing up again and profiles out of date, for
   every name not in disturbed: no two handlers overlapped that write it or
   its user's document, nobody registered it while another user held the
   answer that it is free, set it unchecked over somebody's, deregistered it
   as somebody else or saved it from a profile after losing it, and no change
   away from it was cut off after its deregistration.                      *)
NameLeadsToOwner ==
  \A u \in users :
    LET n == doc[u].userName IN
    n \in Names \ disturbed =>
      \/ usernames[n] = u
      \/ \E t \in Tasks : /\ task[t].by = u /\ task[t].old = n
                          /\ task[t].pc \in {"register", "update"}

(* A name that is registered is in use, and nobody is refused it for nothing:
   the change in the settings frees the name it replaces, and no other step
   leaves one behind, apart from the ways in left: a second name chosen in
   the sign-up or another sign-up (neither deregisters), a profile that is
   out of date, a change cut off between registration and update.          *)
NameIsInUse ==
  \A n \in Names \ (disturbed \cup left) :
    usernames[n] \in users =>
      \/ doc[usernames[n]].userName = n
      \/ \E t \in Tasks : /\ task[t].by = usernames[n] /\ task[t].name = n
                          /\ task[t].pc = "update"

(* Two users do not have the same name, unless it is in disturbed.  A name
   left behind stays taken, also by a deleted account, so that crashes and
   renames in the sign-up never let a second user have it.                 *)
UndisturbedUnique ==
  \A u, v \in users :
    doc[u].userName = doc[v].userName /\ doc[u].userName \in Names \ disturbed => u = v

(* No two users have the same name. *)
NamesAreUnique ==
  \A u, v \in users :
    doc[u].userName = doc[v].userName /\ doc[u].userName # NoName => u = v

-----------------------------------------------------------------------------
(* The inductive invariant behind the properties above. *)

(* Uploads keep within MaxPictures, a handler that registers has a name, and
   one of the sign-up has no old name.                                     *)
TasksOK ==
  /\ \A t \in Tasks : task[t].pc = "upload" => echoes[task[t].by] < MaxPictures
  /\ \A s, t \in Tasks :
       task[s].pc = "upload" /\ task[t].pc = "upload" /\ task[s].by = task[t].by => s = t
  /\ \A t \in Tasks : task[t].pc \in {"deregister", "register"} => task[t].name \in Names
  /\ \A t \in Tasks : task[t].pc = "deregister" => task[t].flow = "settings"
  /\ \A t \in Tasks : task[t].flow = "onboarding" => task[t].old = NoName

(* What the page of an account says of its document and of its handlers. *)
PagesOK ==
  /\ \A u \in Users : page[u] \in {"profile", "home"} => u \in users
  /\ \A u \in Users : page[u] = "welcome" =>
       /\ fresh[u] = {}
       /\ \A t \in Tasks : task[t].by # u
       /\ u \in users \/ \A n \in Names : usernames[n] # u
  /\ \A t \in Tasks : task[t].pc = "delete" => page[task[t].by] = "gone"

(* Two handlers that write the same name, or the same document, disturb all
   the names they write.                                                   *)
ChangesApart ==
  \A s, t \in Tasks :
    /\ s # t /\ task[s].pc \in Writing /\ task[t].pc \in Writing
    /\ task[s].by = task[t].by \/ NamesOf(task[s]) \cap NamesOf(task[t]) # {}
    => NamesOf(task[s]) \subseteq disturbed

(* What the handlers know of usernames/{n}: an answer still holds, the new
   name is nobody else's until it is registered, nor the old one until it is
   given up.                                                               *)
NamesHeld ==
  \A t \in Tasks :
    LET r == task[t] IN
    /\ r.name \in Names \ disturbed =>
         /\ r.pc = "answer" /\ r.free => usernames[r.name] \in {None, r.by}
         /\ r.pc \in {"deregister", "register"} => usernames[r.name] \in {None, r.by}
         /\ r.pc = "update" => usernames[r.name] = r.by
    /\ r.old \in Names \ disturbed =>
         /\ r.pc = "deregister" => usernames[r.old] \in {None, r.by}
         /\ r.pc = "register" => usernames[r.old] = None
         /\ r.pc = "update" /\ r.old # r.name => usernames[r.old] = None

(* What the handlers know of the document they are about to write. *)
NamesLeft ==
  \A t \in Tasks :
    LET r == task[t] IN
    /\ r.pc \in Writing /\ r.by \in users
    /\ doc[r.by].userName \in Names \ (disturbed \cup left)
    => doc[r.by].userName \in {r.old, r.name}

UsernamesInv ==
  /\ TypeOK /\ TasksOK /\ PagesOK
  /\ ChangesApart /\ NamesHeld /\ NamesLeft
  /\ NameLeadsToOwner /\ NameIsInUse
=============================================================================
