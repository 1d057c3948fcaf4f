--------------------------- MODULE UsernamesProofs ---------------------------
(***************************************************************************)
(* Theorems about Usernames, for any number of users, names and concurrent *)
(* handlers.                                                               *)
(***************************************************************************)
EXTENDS Usernames, TLAPS

(* What the slots hold after one of them is written. *)
LEMMA Slots ==
  ASSUME TypeOK, NEW t \in Tasks, NEW r \in Task, task' = [task EXCEPT ![t] = r]
  PROVE  /\ task' \in [Tasks -> Task]
         /\ task'[t] = r
         /\ \A s \in Tasks : s # t => task'[s] = task[s]
  BY DEF TypeOK

LEMMA SuspendSlots ==
  ASSUME TypeOK, NEW t \in Tasks, NEW pc \in {"check", "upload", "delete", "register", "update"},
         NEW flow \in {"onboarding", "settings"}, NEW u \in Users,
         NEW old \in Names \cup {NoName}, NEW name \in Names \cup {NoName},
         \E picture \in BOOLEAN : Suspend(t, pc, flow, u, old, name, picture)
  PROVE  /\ task[t].pc = "idle"
         /\ task' \in [Tasks -> Task]
         /\ \A s \in Tasks : s # t => task'[s] = task[s]
         /\ task'[t].pc = pc /\ task'[t].flow = flow /\ task'[t].by = u
         /\ task'[t].old = old /\ task'[t].name = name
  <1>0. PICK picture \in BOOLEAN : Suspend(t, pc, flow, u, old, name, picture)
    OBVIOUS
  <1> DEFINE r == [pc |-> pc, flow |-> flow, by |-> u, old |-> old, name |-> name,
                   picture |-> picture, free |-> FALSE]
  <1>1. r \in Task /\ r.pc = pc /\ r.flow = flow /\ r.by = u /\ r.old = old /\ r.name = name
    BY DEF Task, Writing
  <1>2. task[t].pc = "idle" /\ task' = [task EXCEPT ![t] = r]
    BY <1>0 DEF Suspend
  <1> HIDE DEF r
  <1> QED
    BY <1>1, <1>2, Slots

LEMMA GotoSlots ==
  ASSUME TypeOK, NEW t \in Tasks, NEW pc \in {"linger"} \cup Writing, Goto(t, pc)
  PROVE  /\ task' \in [Tasks -> Task]
         /\ \A s \in Tasks : s # t => task'[s] = task[s]
         /\ task'[t].pc = pc /\ task'[t].flow = task[t].flow /\ task'[t].by = task[t].by
         /\ task'[t].old = task[t].old /\ task'[t].name = task[t].name
  <1> DEFINE q == task[t]
             r == [pc |-> pc, flow |-> q.flow, by |-> q.by, old |-> q.old, name |-> q.name,
                   picture |-> q.picture, free |-> q.free]
  <1>1. q \in Task
    BY DEF TypeOK
  <1>2. task' = [task EXCEPT ![t] = r]
    BY DEF Goto
  <1> HIDE DEF q
  <1>3. /\ r \in Task /\ r.pc = pc /\ r.flow = q.flow /\ r.by = q.by
        /\ r.old = q.old /\ r.name = q.name
    BY <1>1 DEF Task, Writing
  <1> HIDE DEF r
  <1>4. /\ task' \in [Tasks -> Task] /\ task'[t] = r
        /\ \A s \in Tasks : s # t => task'[s] = task[s]
    BY <1>2, <1>3, Slots
  <1> QED
    BY <1>3, <1>4 DEF q

LEMMA ReturnSlots ==
  ASSUME TypeOK, NEW t \in Tasks, Return(t)
  PROVE  /\ task' \in [Tasks -> Task]
         /\ task'[t] = NoTask
         /\ \A s \in Tasks : s # t => task'[s] = task[s]
  <1>1. NoTask \in Task
    BY DEF NoTask, Task
  <1> QED
    BY <1>1, Slots DEF Return

LEMMA NoTaskIdle ==
  /\ NoTask \in Task /\ NoTask.pc = "idle" /\ NoTask.by = None /\ NoTask.old = NoName
  /\ NoTask.name = NoName /\ NoTask.flow = "settings"
  BY DEF NoTask, Task

(* A handler that starts writing disturbs its names and those of every handler
   it meets.                                                               *)
LEMMA MeetsDisturbs ==
  ASSUME NEW u, NEW S, NEW s \in Tasks, task[s].pc \in Writing,
         task[s].by = u \/ NamesOf(task[s]) \cap S # {}
  PROVE  S \subseteq Meets(u, S) /\ NamesOf(task[s]) \subseteq Meets(u, S)
  <1>1. s \in Met(u, S)
    BY DEF Met
  <1> QED
    BY <1>1 DEF Meets

LEMMA NamesOfType ==
  ASSUME NEW r \in Task
  PROVE  NamesOf(r) \subseteq Names /\ Lost(r) \subseteq Names /\ Unused(r) \subseteq Names
  BY DEF NamesOf, Lost, Unused, Task

LEMMA MeetsType ==
  ASSUME TypeOK, NEW u, NEW S \in SUBSET Names
  PROVE  Meets(u, S) \subseteq Names
  <1>1. \A t \in Met(u, S) : NamesOf(task[t]) \subseteq Names
    BY NamesOfType DEF TypeOK, Met
  <1> QED
    BY <1>1 DEF Meets

(* The part of the invariant that is about what names lead to. *)
Registry == ChangesApart /\ NamesHeld /\ NamesLeft /\ NameLeadsToOwner /\ NameIsInUse

(* A step that neither writes usernames or a name in a document nor starts a
   change, and records what every change it cuts off loses and leaves.     *)
LEMMA QuietStep ==
  ASSUME TypeOK, Registry,
         usernames' = usernames, users' \subseteq users,
         \A u \in Users : doc'[u].userName = doc[u].userName,
         disturbed \subseteq disturbed', left \subseteq left',
         \A s \in Tasks :
           \/ task'[s] = task[s]
           \/ /\ \/ task'[s].pc \notin Writing \cup {"answer"}
                 \/ /\ task'[s].pc = "answer"
                    /\ task'[s].free => usernames[task'[s].name] = None
              /\ \/ task[s].pc \notin Writing
                 \/ task[s].by \notin users'
                 \/ Lost(task[s]) \subseteq disturbed' /\ Unused(task[s]) \subseteq left'
  PROVE  Registry'
  <1> USE DEF Registry
  <1>1. ChangesApart'
    <2> SUFFICES ASSUME NEW s \in Tasks, NEW t \in Tasks, s # t,
                        task'[s].pc \in Writing, task'[t].pc \in Writing,
                        task'[s].by = task'[t].by \/ NamesOf(task'[s]) \cap NamesOf(task'[t]) # {}
                 PROVE  NamesOf(task'[s]) \subseteq disturbed'
      BY DEF ChangesApart, NamesOf
    <2>1. task'[s] = task[s] /\ task'[t] = task[t]
      BY DEF Writing
    <2> QED
      BY <2>1 DEF ChangesApart
  <1>2. NamesHeld'
    BY DEF NamesHeld, Writing
  <1>3. NamesLeft'
    BY DEF NamesLeft, Writing, TypeOK, Task
  <1>4. NameLeadsToOwner'
    <2> SUFFICES ASSUME NEW u \in users', doc'[u].userName \in Names \ disturbed',
                        usernames'[doc'[u].userName] # u
                 PROVE  \E t \in Tasks : /\ task'[t].by = u /\ task'[t].old = doc'[u].userName
                                         /\ task'[t].pc \in {"register", "update"}
      BY DEF NameLeadsToOwner
    <2>1. u \in users /\ u \in Users /\ doc'[u].userName = doc[u].userName
      BY DEF TypeOK
    <2>2. PICK t \in Tasks : /\ task[t].by = u /\ task[t].old = doc[u].userName
                             /\ task[t].pc \in {"register", "update"}
      BY <2>1 DEF NameLeadsToOwner
    <2>3. doc[u].userName \in Lost(task[t])
      BY <2>1, <2>2, UsernamesAssumption DEF Lost
    <2> QED
      BY <2>1, <2>2, <2>3 DEF Writing
  <1>5. NameIsInUse'
    <2> SUFFICES ASSUME NEW n \in Names \ (disturbed' \cup left'), usernames'[n] \in users',
                        doc'[usernames'[n]].userName # n
                 PROVE  \E t \in Tasks : /\ task'[t].by = usernames'[n] /\ task'[t].name = n
                                         /\ task'[t].pc = "update"
      BY DEF NameIsInUse
    <2>1. usernames[n] \in users /\ usernames[n] \in Users
      BY DEF TypeOK
    <2>2. PICK t \in Tasks : /\ task[t].by = usernames[n] /\ task[t].name = n
                             /\ task[t].pc = "update"
      BY <2>1 DEF NameIsInUse
    <2>3. n \in Unused(task[t])
      BY <2>1, <2>2, UsernamesAssumption DEF Unused
    <2> QED
      BY <2>1, <2>2, <2>3 DEF Writing
  <1> QED
    BY <1>1, <1>2, <1>3, <1>4, <1>5

(* A user whose name is undisturbed when a handler of theirs starts to write
   it is registered under that name.                                       *)
LEMMA OwnName ==
  ASSUME TypeOK, Registry, NEW u \in users, NEW S, Meets(u, S) \subseteq disturbed',
         disturbed \subseteq disturbed',
         doc[u].userName \in S, doc[u].userName \in Names \ disturbed'
  PROVE  usernames[doc[u].userName] = u
  <1> SUFFICES ASSUME usernames[doc[u].userName] # u PROVE FALSE
    OBVIOUS
  <1>1. PICK s \in Tasks : task[s].by = u /\ task[s].pc \in {"register", "update"}
    BY DEF Registry, NameLeadsToOwner
  <1>2. S \subseteq Meets(u, S)
    BY <1>1, MeetsDisturbs DEF Writing
  <1> QED
    BY <1>2

(* A step that starts a change in slot t. *)
LEMMA StartStep ==
  ASSUME TypeOK, Registry, NEW t \in Tasks,
         usernames' = usernames, users' = users, doc' = doc,
         task[t].pc \notin Writing, task'[t].pc \in Writing,
         \A s \in Tasks : s # t => task'[s] = task[s],
         disturbed \subseteq disturbed', left \subseteq left',
         Meets(task'[t].by, {task'[t].old, task'[t].name} \ {NoName}) \subseteq disturbed',
         task'[t].name \in Names \ disturbed' =>
           /\ task'[t].pc # "update" => usernames[task'[t].name] \in {None, task'[t].by}
           /\ task'[t].pc = "update" => usernames[task'[t].name] = task'[t].by,
         task'[t].old \in Names \ disturbed' =>
           task'[t].pc = "deregister" /\ usernames[task'[t].old] \in {None, task'[t].by},
         task'[t].by \in users /\ doc[task'[t].by].userName \in Names \ (disturbed' \cup left') =>
           doc[task'[t].by].userName \in {task'[t].old, task'[t].name}
  PROVE  Registry'
  <1> USE DEF Registry
  <1>1. ChangesApart'
    <2> SUFFICES ASSUME NEW s \in Tasks, NEW q \in Tasks, s # q,
                        task'[s].pc \in Writing, task'[q].pc \in Writing,
                        task'[s].by = task'[q].by \/ NamesOf(task'[s]) \cap NamesOf(task'[q]) # {}
                 PROVE  NamesOf(task'[s]) \subseteq disturbed'
      BY DEF ChangesApart, NamesOf
    <2> DEFINE S == {task'[t].old, task'[t].name} \ {NoName}
    <2>1. NamesOf(task'[t]) = S
      BY DEF NamesOf
    <2>2. CASE s = t
      <3>1. task'[q] = task[q]
        BY <2>2
      <3>2. S \subseteq Meets(task'[t].by, S)
        BY <2>1, <2>2, <3>1, MeetsDisturbs
      <3> QED
        BY <2>1, <2>2, <3>2
    <2>3. CASE q = t
      <3>1. task'[s] = task[s]
        BY <2>3
      <3>2. NamesOf(task[s]) \subseteq Meets(task'[t].by, S)
        BY <2>1, <2>3, <3>1, MeetsDisturbs
      <3> QED
        BY <3>1, <3>2
    <2>4. CASE s # t /\ q # t
      BY <2>4 DEF ChangesApart
    <2> QED
      BY <2>2, <2>3, <2>4
  <1>2. NamesHeld'
    BY DEF NamesHeld, Writing
  <1>3. NamesLeft'
    BY DEF NamesLeft, Writing
  <1>4. NameLeadsToOwner'
    BY DEF NameLeadsToOwner, Writing
  <1>5. NameIsInUse'
    BY DEF NameIsInUse, Writing
  <1> QED
    BY <1>1, <1>2, <1>3, <1>4, <1>5

(* Two changes in progress that share a name have disturbed it. *)
LEMMA SharedName ==
  ASSUME ChangesApart, NEW s \in Tasks, NEW t \in Tasks, s # t,
         task[s].pc \in Writing, task[t].pc \in Writing,
         NEW n \in Names, n \in {task[s].old, task[s].name},
         n \in {task[t].old, task[t].name} \/ task[s].by = task[t].by
  PROVE  n \in disturbed
  <1>1. n \in NamesOf(task[s])
    BY UsernamesAssumption DEF NamesOf
  <1>2. n \in {task[t].old, task[t].name} => n \in NamesOf(task[t])
    BY UsernamesAssumption DEF NamesOf
  <1> QED
    BY <1>1, <1>2 DEF ChangesApart

(* A step that only moves the change in slot t on, to another write. *)
LEMMA ApartStep ==
  ASSUME ChangesApart, NEW t \in Tasks, task[t].pc \in Writing, task'[t].pc \in Writing,
         \A s \in Tasks : s # t => task'[s] = task[s],
         task'[t].by = task[t].by, task'[t].old = task[t].old, task'[t].name = task[t].name,
         disturbed \subseteq disturbed'
  PROVE  ChangesApart'
  <1>1. NamesOf(task'[t]) = NamesOf(task[t])
    BY DEF NamesOf
  <1> QED
    BY <1>1 DEF ChangesApart

LEMMA DeregisterStep ==
  ASSUME TypeOK, TasksOK, Registry, NEW t \in Tasks, deregisterUsername(t)
  PROVE  Registry'
  <1> DEFINE r == task[t]
  <1> USE DEF Registry
  <1>0. /\ "register" \in {"linger"} \cup Writing /\ Goto(t, "register")
        /\ r \in Task /\ r.pc = "deregister" /\ r.old \in Names /\ r.by \in Users
        /\ usernames' = [usernames EXCEPT ![r.old] = None]
        /\ users' = users /\ doc' = doc /\ disturbed' = disturbed /\ left' = left
    BY DEF deregisterUsername, history, Writing, TypeOK, Task
  <1>1. /\ \A s \in Tasks : s # t => task'[s] = task[s]
        /\ task'[t].pc = "register" /\ task'[t].by = r.by /\ task'[t].flow = r.flow
        /\ task'[t].old = r.old /\ task'[t].name = r.name
    BY <1>0, GotoSlots
  <1>2. \A n \in Names : usernames'[n] = IF n = r.old THEN None ELSE usernames[n]
    BY <1>0 DEF TypeOK
  <1>3. None \notin Users /\ NoName \notin Names
    BY UsernamesAssumption
  <1>4. ASSUME NEW s \in Tasks, s # t, task[s].pc \in Writing,
               r.old \in {task[s].old, task[s].name}
        PROVE  r.old \in disturbed
    <2>1. r.old \in {task[t].old, task[t].name} /\ task[t].pc \in Writing
      BY <1>0 DEF Writing
    <2> QED
      BY <1>0, <1>4, <2>1, SharedName
  <1> HIDE DEF r
  <1>5. ChangesApart'
    BY <1>0, <1>1, ApartStep DEF Writing, r
  <1>6. NamesHeld'
    BY <1>0, <1>1, <1>2, <1>3, <1>4 DEF NamesHeld, Writing, r
  <1>7. NamesLeft'
    BY <1>0, <1>1, <1>3 DEF NamesLeft, Writing, r
  <1>8. NameLeadsToOwner'
    <2> SUFFICES ASSUME NEW u \in users, doc[u].userName \in Names \ disturbed,
                        usernames'[doc[u].userName] # u
                 PROVE  \E s \in Tasks : /\ task'[s].by = u /\ task'[s].old = doc[u].userName
                                         /\ task'[s].pc \in {"register", "update"}
      BY <1>0 DEF NameLeadsToOwner
    <2>1. CASE \E s \in Tasks : /\ task[s].by = u /\ task[s].old = doc[u].userName
                                /\ task[s].pc \in {"register", "update"}
      BY <1>0, <1>1, <2>1 DEF r
    <2>2. CASE usernames[doc[u].userName] = u
      <3>1. doc[u].userName = r.old
        BY <1>2, <2>2
      <3>2. usernames[r.old] \in {None, r.by}
        BY <1>0, <3>1 DEF NamesHeld, r
      <3> QED
        BY <1>1, <1>3, <2>2, <3>1, <3>2 DEF TypeOK
    <2> QED
      BY <2>1, <2>2 DEF NameLeadsToOwner
  <1>9. NameIsInUse'
    BY <1>0, <1>1, <1>2, <1>3 DEF NameIsInUse, TypeOK, r
  <1> QED
    BY <1>5, <1>6, <1>7, <1>8, <1>9

LEMMA RegisterStep ==
  ASSUME TypeOK, TasksOK, Registry, NEW t \in Tasks, registerUsername(t)
  PROVE  Registry'
  <1> DEFINE r == task[t]
  <1> USE DEF Registry
  <1>0. /\ "update" \in {"linger"} \cup Writing /\ Goto(t, "update")
        /\ r \in Task /\ r.pc = "register" /\ r.name \in Names /\ r.by \in Users
        /\ usernames' = [usernames EXCEPT ![r.name] = r.by]
        /\ users' = users /\ doc' = doc /\ disturbed' = disturbed \cup Outdates(t)
        /\ left' = left
    BY DEF registerUsername, Writing, TypeOK, TasksOK
  <1>1. /\ \A s \in Tasks : s # t => task'[s] = task[s]
        /\ task'[t].pc = "update" /\ task'[t].by = r.by /\ task'[t].flow = r.flow
        /\ task'[t].old = r.old /\ task'[t].name = r.name
    BY <1>0, GotoSlots
  <1>2. \A n \in Names : usernames'[n] = IF n = r.name THEN r.by ELSE usernames[n]
    BY <1>0 DEF TypeOK
  <1>3. None \notin Users /\ NoName \notin Names
    BY UsernamesAssumption
  <1>4. ASSUME NEW s \in Tasks, s # t, task[s].pc \in Writing,
               r.name \in {task[s].old, task[s].name}
        PROVE  r.name \in disturbed
    <2>1. r.name \in {task[t].old, task[t].name} /\ task[t].pc \in Writing
      BY <1>0 DEF Writing
    <2> QED
      BY <1>0, <1>4, <2>1, SharedName
  <1>5. \A s \in Tasks :
          task[s].pc = "answer" /\ task[s].free /\ task[s].name = r.name /\ task[s].by # r.by
            => r.name \in disturbed'
    BY <1>0 DEF Outdates
  <1> HIDE DEF r
  <1>6. ChangesApart'
    BY <1>0, <1>1, ApartStep DEF Writing, r
  <1>7. NamesHeld'
    BY <1>0, <1>1, <1>2, <1>3, <1>4, <1>5 DEF NamesHeld, Writing, r
  <1>8. NamesLeft'
    BY <1>0, <1>1, <1>3 DEF NamesLeft, Writing, r
  <1>9. NameLeadsToOwner'
    <2> SUFFICES ASSUME NEW u \in users, doc[u].userName \in Names \ disturbed',
                        usernames'[doc[u].userName] # u
                 PROVE  \E s \in Tasks : /\ task'[s].by = u /\ task'[s].old = doc[u].userName
                                         /\ task'[s].pc \in {"register", "update"}
      BY <1>0 DEF NameLeadsToOwner
    <2>1. CASE \E s \in Tasks : /\ task[s].by = u /\ task[s].old = doc[u].userName
                                /\ task[s].pc \in {"register", "update"}
      BY <1>0, <1>1, <2>1 DEF r
    <2>2. CASE usernames[doc[u].userName] = u
      <3>1. doc[u].userName = r.name
        BY <1>2, <2>2
      <3>2. usernames[r.name] \in {None, r.by}
        BY <1>0, <3>1 DEF NamesHeld, r
      <3> QED
        BY <1>2, <1>3, <2>2, <3>1, <3>2 DEF TypeOK
    <2> QED
      BY <1>0, <2>1, <2>2 DEF NameLeadsToOwner
  <1>10. NameIsInUse'
    <2> SUFFICES ASSUME NEW n \in Names \ (disturbed' \cup left), usernames'[n] \in users,
                        doc[usernames'[n]].userName # n
                 PROVE  \E s \in Tasks : /\ task'[s].by = usernames'[n] /\ task'[s].name = n
                                         /\ task'[s].pc = "update"
      BY <1>0 DEF NameIsInUse
    <2>1. CASE n = r.name
      BY <1>1, <1>2, <2>1
    <2>2. CASE n # r.name
      <3>1. usernames'[n] = usernames[n] /\ n \notin disturbed
        BY <1>0, <1>2, <2>2
      <3>2. PICK s \in Tasks : /\ task[s].by = usernames[n] /\ task[s].name = n
                               /\ task[s].pc = "update"
        BY <3>1 DEF NameIsInUse
      <3> QED
        BY <1>0, <1>1, <3>1, <3>2 DEF r
    <2> QED
      BY <2>1, <2>2
  <1> QED
    BY <1>6, <1>7, <1>8, <1>9, <1>10

(* The document of the change in slot t, once written. *)
LEMMA UpdateSlots ==
  ASSUME TypeOK, NEW t \in Tasks, updateUser(t)
  PROVE  /\ task' \in [Tasks -> Task]
         /\ \A s \in Tasks : s # t => task'[s] = task[s]
         /\ task'[t].pc \in {"idle", "linger"} /\ task'[t].by \in {None, task[t].by}
         /\ task'[t].pc = "linger" => task'[t].by = task[t].by
         /\ task'[t].flow = "onboarding" => task'[t].old = task[t].old /\ task[t].flow = "onboarding"
         /\ doc' \in [Users -> User]
         /\ \A u \in Users : u # task[t].by => doc'[u] = doc[u]
         /\ doc'[task[t].by].userName = task[t].name
         /\ task[t].pc = "update" /\ task[t].by \in users /\ task[t].by \in Users
  <1> DEFINE q == task[t]
             me == [userName |-> q.name, picture |-> q.picture]
  <1>1. q \in Task /\ q.pc = "update" /\ q.by \in users /\ q.by \in Users
    BY DEF TypeOK, updateUser
  <1>2. doc' = [doc EXCEPT ![q.by] = me]
    BY DEF updateUser, WriteDoc
  <1>3. Return(t) \/ Goto(t, "linger")
    BY DEF updateUser
  <1> HIDE DEF q
  <1>4. me \in User /\ me.userName = q.name
    BY <1>1 DEF Task, User
  <1> HIDE DEF me
  <1>5. /\ doc' \in [Users -> User] /\ doc'[q.by].userName = q.name
        /\ \A u \in Users : u # q.by => doc'[u] = doc[u]
    BY <1>1, <1>2, <1>4 DEF TypeOK
  <1>6. CASE Return(t)
    BY <1>1, <1>5, <1>6, ReturnSlots, NoTaskIdle DEF q
  <1>7. CASE Goto(t, "linger")
    <2>1. "linger" \in {"linger"} \cup Writing
      OBVIOUS
    <2> QED
      BY <1>1, <1>5, <1>7, <2>1, GotoSlots DEF q
  <1> QED
    BY <1>3, <1>6, <1>7

LEMMA UpdateStep ==
  ASSUME TypeOK, TasksOK, Registry, NEW t \in Tasks, updateUser(t)
  PROVE  Registry'
  <1> DEFINE r == task[t]
  <1> USE DEF Registry
  <1>0. /\ r.pc = "update" /\ r.by \in users /\ r.by \in Users /\ r \in Task
        /\ usernames' = usernames /\ users' = users /\ disturbed' = disturbed /\ left' = left
    BY UpdateSlots DEF updateUser, history, TypeOK
  <1>1. /\ \A s \in Tasks : s # t => task'[s] = task[s]
        /\ task'[t].pc \in {"idle", "linger"}
        /\ \A u \in Users : u # r.by => doc'[u] = doc[u]
        /\ doc'[r.by].userName = r.name
    BY UpdateSlots
  <1>2. None \notin Users /\ NoName \notin Names
    BY UsernamesAssumption
  <1>3. ASSUME NEW s \in Tasks, s # t, task[s].pc \in Writing, task[s].by = r.by,
               NEW n \in Names, n \in {task[s].old, task[s].name, r.old, r.name}
        PROVE  n \in disturbed
    <2>1. task[t].pc \in Writing
      BY <1>0 DEF Writing
    <2>2. CASE n \in {task[s].old, task[s].name}
      BY <1>0, <1>3, <2>1, <2>2, SharedName
    <2>3. CASE n \in {r.old, r.name}
      BY <1>0, <1>3, <2>1, <2>3, SharedName
    <2> QED
      BY <1>3, <2>2, <2>3
  <1> HIDE DEF r
  <1>4. ChangesApart'
    BY <1>0, <1>1 DEF ChangesApart, Writing
  <1>5. NamesHeld'
    BY <1>0, <1>1 DEF NamesHeld, Writing, r
  <1>6. NamesLeft'
    <2> SUFFICES ASSUME NEW s \in Tasks, s # t, task[s].pc \in Writing, task[s].by \in users,
                        doc'[task[s].by].userName \in Names \ (disturbed \cup left)
                 PROVE  doc'[task[s].by].userName \in {task[s].old, task[s].name}
      BY <1>0, <1>1 DEF NamesLeft, Writing
    <2>1. task[s].by # r.by
      BY <1>1, <1>3
    <2>2. doc'[task[s].by] = doc[task[s].by]
      BY <1>1, <2>1 DEF TypeOK
    <2> QED
      BY <2>2 DEF NamesLeft
  <1>7. NameLeadsToOwner'
    <2> SUFFICES ASSUME NEW u \in users, doc'[u].userName \in Names \ disturbed,
                        usernames[doc'[u].userName] # u
                 PROVE  \E s \in Tasks : /\ task'[s].by = u /\ task'[s].old = doc'[u].userName
                                         /\ task'[s].pc \in {"register", "update"}
      BY <1>0 DEF NameLeadsToOwner
    <2>1. u # r.by
      BY <1>0, <1>1 DEF NamesHeld, r
    <2>2. doc'[u] = doc[u]
      BY <1>1, <2>1 DEF TypeOK
    <2>3. PICK s \in Tasks : /\ task[s].by = u /\ task[s].old = doc[u].userName
                             /\ task[s].pc \in {"register", "update"}
      BY <2>2 DEF NameLeadsToOwner
    <2> QED
      BY <1>1, <2>1, <2>2, <2>3 DEF r
  <1>8. NameIsInUse'
    <2> SUFFICES ASSUME NEW n \in Names \ (disturbed \cup left), usernames[n] \in users,
                        doc'[usernames[n]].userName # n
                 PROVE  \E s \in Tasks : /\ task'[s].by = usernames[n] /\ task'[s].name = n
                                         /\ task'[s].pc = "update"
      BY <1>0 DEF NameIsInUse
    <2>1. CASE usernames[n] = r.by
      <3>1. r.name # n
        BY <1>1, <2>1
      <3>2. doc[r.by].userName # n
        <4> SUFFICES ASSUME doc[r.by].userName = n PROVE FALSE
          OBVIOUS
        <4>1. r.old = n
          BY <1>0, <3>1 DEF NamesLeft, Writing, r
        <4>2. usernames[n] = None
          BY <1>0, <3>1, <4>1 DEF NamesHeld, r
        <4> QED
          BY <1>0, <1>2, <2>1, <4>2
      <3>3. PICK s \in Tasks : task[s].by = r.by /\ task[s].name = n /\ task[s].pc = "update"
        BY <2>1, <3>2 DEF NameIsInUse
      <3> QED
        BY <1>3, <3>1, <3>3 DEF Writing, r
    <2>2. CASE usernames[n] # r.by
      <3>1. doc'[usernames[n]] = doc[usernames[n]]
        BY <1>1, <2>2 DEF TypeOK
      <3>2. PICK s \in Tasks : /\ task[s].by = usernames[n] /\ task[s].name = n
                               /\ task[s].pc = "update"
        BY <3>1 DEF NameIsInUse
      <3> QED
        BY <1>1, <2>2, <3>2 DEF r
    <2> QED
      BY <2>1, <2>2
  <1> QED
    BY <1>4, <1>5, <1>6, <1>7, <1>8

LEMMA OnboardingStep ==
  ASSUME TypeOK, PagesOK, Registry, NEW u \in Users, StartOnboarding(u)
  PROVE  Registry'
  <1> USE DEF Registry
  <1>0. NewUser \in User /\ NewUser.userName = NoName
    BY DEF NewUser, User
  <1>1. /\ page[u] = "welcome" /\ users' = users \cup {u} /\ doc' = [doc EXCEPT ![u] = NewUser]
        /\ left' = left \cup ({doc[u].userName} \ {NoName}) /\ disturbed' = disturbed
        /\ usernames' = usernames /\ task' = task
    BY DEF StartOnboarding
  <1>2. /\ \A v \in Users : v # u => doc'[v] = doc[v]
        /\ doc'[u].userName = NoName
    BY <1>0, <1>1 DEF TypeOK
  <1>3. /\ \A t \in Tasks : task[t].by # u
        /\ u \in users \/ \A n \in Names : usernames[n] # u
    BY <1>1 DEF PagesOK
  <1>4. NoName \notin Names
    BY UsernamesAssumption
  <1>5. ChangesApart'
    BY <1>1 DEF ChangesApart, NamesOf
  <1>6. NamesHeld'
    BY <1>1 DEF NamesHeld
  <1>7. NamesLeft'
    BY <1>1, <1>2, <1>3 DEF NamesLeft, TypeOK
  <1>8. NameLeadsToOwner'
    BY <1>1, <1>2, <1>4 DEF NameLeadsToOwner, TypeOK
  <1>9. NameIsInUse'
    <2> SUFFICES ASSUME NEW n \in Names \ (disturbed' \cup left'), usernames[n] \in users \cup {u},
                        doc'[usernames[n]].userName # n
                 PROVE  \E t \in Tasks : /\ task[t].by = usernames[n] /\ task[t].name = n
                                         /\ task[t].pc = "update"
      BY <1>1 DEF NameIsInUse
    <2>1. CASE usernames[n] = u
      BY <1>1, <1>3, <1>4, <2>1 DEF NameIsInUse
    <2>2. CASE usernames[n] # u
      BY <1>1, <1>2, <2>2 DEF NameIsInUse, TypeOK
    <2> QED
      BY <2>1, <2>2
  <1> QED
    BY <1>5, <1>6, <1>7, <1>8, <1>9

LEMMA CheckSlots ==
  ASSUME TypeOK, NEW t \in Tasks, checkUsernameAvailability(t)
  PROVE  /\ task' \in [Tasks -> Task]
         /\ \A s \in Tasks : s # t => task'[s] = task[s]
         /\ task[t].pc = "check" /\ task'[t].pc = "answer" /\ task'[t].flow = task[t].flow
         /\ task'[t].by = task[t].by /\ task'[t].old = task[t].old
         /\ task'[t].name = task[t].name /\ task'[t].name \in Names
         /\ task'[t].free => usernames[task'[t].name] = None
  <1> DEFINE q == task[t]
             f == usernames[task[t].name] = None
             pc == "answer"
  <1>1. q \in Task /\ q.pc = "check" /\ q.by \in Users /\ q.name \in Names
    BY DEF TypeOK, checkUsernameAvailability
  <1>2. f \in BOOLEAN /\ pc \in {"check", "answer", "upload", "delete"} \cup Writing
    OBVIOUS
  <1>3. /\ q.flow \in {"onboarding", "settings"} /\ q.old \in Names \cup {NoName}
        /\ q.name \in Names \cup {NoName} /\ q.picture \in BOOLEAN
    BY <1>1 DEF Task
  <1> DEFINE r == [pc |-> pc, flow |-> q.flow, by |-> q.by, old |-> q.old, name |-> q.name,
                   picture |-> q.picture, free |-> f]
  <1>4. task' = [task EXCEPT ![t] = r]
    BY DEF checkUsernameAvailability
  <1> HIDE DEF q, f, pc
  <1>5. /\ r \in Task /\ r.pc = pc /\ r.flow = q.flow /\ r.by = q.by /\ r.old = q.old
        /\ r.name = q.name /\ r.free = f
    BY <1>1, <1>2, <1>3 DEF Task
  <1> HIDE DEF r
  <1>6. /\ task' \in [Tasks -> Task] /\ task'[t] = r
        /\ \A s \in Tasks : s # t => task'[s] = task[s]
    BY <1>4, <1>5, Slots
  <1> QED
    BY <1>1, <1>5, <1>6 DEF q, f, pc

LEMMA UpdateUserSlots ==
  ASSUME TypeOK, NEW t \in Tasks, NEW m \in Names, UpdateUser(t, m)
  PROVE  /\ task' \in [Tasks -> Task]
         /\ \A s \in Tasks : s # t => task'[s] = task[s]
         /\ task[t].pc = "answer" /\ task[t].free /\ task[t].name \in Names /\ task[t].by \in Users
         /\ task'[t].pc = "register" /\ task'[t].flow = "onboarding"
         /\ task'[t].by = task[t].by /\ task'[t].old = NoName /\ task'[t].name = m
  <1> DEFINE q == task[t]
             f == TRUE
             pc == "register"
             flow == "onboarding"
             old == NoName
  <1>1. q \in Task /\ q.pc = "answer" /\ q.free /\ q.by \in Users /\ q.name \in Names
    BY DEF TypeOK, UpdateUser
  <1>2. /\ f \in BOOLEAN /\ pc \in {"check", "answer", "upload", "delete"} \cup Writing
        /\ flow \in {"onboarding", "settings"} /\ old \in Names \cup {NoName}
        /\ m \in Names \cup {NoName}
    BY DEF Writing
  <1>3. q.picture \in BOOLEAN
    BY <1>1 DEF Task
  <1> DEFINE r == [pc |-> pc, flow |-> flow, by |-> q.by, old |-> old, name |-> m,
                   picture |-> q.picture, free |-> f]
  <1>4. task' = [task EXCEPT ![t] = r]
    BY DEF UpdateUser
  <1> HIDE DEF q, f, pc, flow, old
  <1>5. r \in Task /\ r.pc = pc /\ r.flow = flow /\ r.by = q.by /\ r.old = old /\ r.name = m
    BY <1>1, <1>2, <1>3 DEF Task
  <1> HIDE DEF r
  <1>6. /\ task' \in [Tasks -> Task] /\ task'[t] = r
        /\ \A s \in Tasks : s # t => task'[s] = task[s]
    BY <1>4, <1>5, Slots
  <1> QED
    BY <1>1, <1>5, <1>6 DEF q, pc, flow, old

LEMMA UpdateUsernameSlots ==
  ASSUME TypeOK, NEW t \in Tasks, NEW m \in Names, UpdateUsername(t, m)
  PROVE  /\ task' \in [Tasks -> Task]
         /\ \A s \in Tasks : s # t => task'[s] = task[s]
         /\ task[t].pc = "answer" /\ task[t].free /\ task[t].name \in Names /\ task[t].by \in Users
         /\ task'[t].pc = "deregister" /\ task'[t].flow = "settings"
         /\ task'[t].by = task[t].by /\ task'[t].old = profile[task[t].by].userName
         /\ task'[t].name = m /\ task'[t].old \in Names \cup {NoName}
  <1> DEFINE q == task[t]
             f == TRUE
             pc == "deregister"
             flow == "settings"
             me == profile[q.by]
  <1>1. q \in Task /\ q.pc = "answer" /\ q.free /\ q.by \in Users /\ q.name \in Names
    BY DEF TypeOK, UpdateUsername
  <1>2. /\ f \in BOOLEAN /\ pc \in {"check", "answer", "upload", "delete"} \cup Writing
        /\ flow \in {"onboarding", "settings"} /\ m \in Names \cup {NoName}
    BY DEF Writing
  <1>3. me.userName \in Names \cup {NoName} /\ me.picture \in BOOLEAN
    BY <1>1 DEF TypeOK, User
  <1> DEFINE r == [pc |-> pc, flow |-> flow, by |-> q.by, old |-> me.userName, name |-> m,
                   picture |-> me.picture, free |-> f]
  <1>4. task' = [task EXCEPT ![t] = r]
    BY DEF UpdateUsername
  <1> HIDE DEF q, f, pc, flow, me
  <1>5. r \in Task /\ r.pc = pc /\ r.flow = flow /\ r.by = q.by /\ r.old = me.userName /\ r.name = m
    BY <1>1, <1>2, <1>3 DEF Task
  <1> HIDE DEF r
  <1>6. /\ task' \in [Tasks -> Task] /\ task'[t] = r
        /\ \A s \in Tasks : s # t => task'[s] = task[s]
    BY <1>4, <1>5, Slots
  <1> QED
    BY <1>1, <1>3, <1>5, <1>6 DEF q, pc, flow, me

(* One step of the specification keeps the invariant: one case per action. *)
LEMMA NextUsernames ==
  ASSUME UsernamesInv, Next
  PROVE  UsernamesInv'
  <1> USE UsernamesAssumption
  <1>0. TypeOK /\ TasksOK /\ PagesOK /\ Registry
    BY DEF UsernamesInv, Registry
  <1> DEFINE Goal == TypeOK' /\ TasksOK' /\ PagesOK' /\ Registry'
  <1> USE DEF firestore, signup, bounds, history
  <1>1. ASSUME NEW t \in Tasks, NEW u \in Users, UpdateUserProfilePicture(t, u)
        PROVE  Goal
    <2>1. /\ \E picture \in BOOLEAN :
               Suspend(t, "upload", "onboarding", u, NoName, NoName, picture)
          /\ "upload" \in {"check", "upload", "delete", "register", "update"}
          /\ "onboarding" \in {"onboarding", "settings"}
          /\ NoName \in Names \cup {NoName} /\ NoName \in Names \cup {NoName}
      <3>1. FALSE \in BOOLEAN
        OBVIOUS
      <3> QED
        BY <1>0, <1>1, <3>1 DEF UpdateUserProfilePicture, Writing, TypeOK, User
    <2>2. /\ task[t].pc = "idle" /\ task' \in [Tasks -> Task]
          /\ \A s \in Tasks : s # t => task'[s] = task[s]
          /\ task'[t].pc = "upload" /\ task'[t].flow = "onboarding" /\ task'[t].by = u
          /\ task'[t].old = NoName /\ task'[t].name = NoName
      BY <1>0, <2>1, SuspendSlots
    <2>3. TypeOK'
      BY <1>0, <1>1, <2>1, <2>2 DEF TypeOK, UpdateUserProfilePicture
    <2>4. TasksOK'
      BY <1>0, <1>1, <2>1, <2>2 DEF TasksOK, TypeOK, UpdateUserProfilePicture
    <2>5. PagesOK'
      BY <1>0, <1>1, <2>1, <2>2 DEF PagesOK, TypeOK, UpdateUserProfilePicture
    <2>6. Registry'
      BY <1>0, <1>1, <2>1, <2>2, QuietStep DEF UpdateUserProfilePicture, TypeOK, Writing
    <2> QED
      BY <2>3, <2>4, <2>5, <2>6
  <1>2. ASSUME NEW t \in Tasks, uploadImage(t)
        PROVE  Goal
    <2>1. /\ task' \in [Tasks -> Task] /\ task'[t] = NoTask
          /\ \A s \in Tasks : s # t => task'[s] = task[s]
      BY <1>0, <1>2, ReturnSlots DEF uploadImage
    <2>2. /\ task[t].by \in Users /\ doc' \in [Users -> User]
          /\ \A u \in Users : doc'[u].userName = doc[u].userName
      BY <1>0, <1>2 DEF uploadImage, TypeOK, User
    <2>3. NoTask.pc = "idle" /\ NoTask.by = None /\ NoTask.flow = "settings"
      BY NoTaskIdle
    <2>4. /\ task[t].pc = "upload" /\ echoes[task[t].by] < MaxPictures
          /\ echoes[task[t].by] \in 0..MaxPictures
          /\ \A s \in Tasks : s # t /\ task[s].pc = "upload" => task[s].by # task[t].by
      BY <1>0, <1>2, <2>2 DEF uploadImage, TasksOK, TypeOK
    <2>5. /\ echoes' \in [Users -> 0..MaxPictures]
          /\ \A u \in Users : u # task[t].by => echoes'[u] = echoes[u]
      BY <1>0, <1>2, <2>2, <2>4 DEF uploadImage, TypeOK
    <2>6. /\ fresh' \in [Users -> SUBSET (1..MaxPictures)]
          /\ \A u \in Users : u # task[t].by => fresh'[u] = fresh[u]
      BY <1>0, <1>2, <2>2, <2>4 DEF uploadImage, TypeOK
    <2>7. /\ usernames' = usernames /\ users' = users /\ page' = page /\ onboarding' = onboarding
          /\ obUser' = obUser /\ settings' = settings /\ profile' = profile
          /\ disturbed' = disturbed /\ left' = left
          /\ changes' = changes /\ saves' = saves /\ faults' = faults
      BY <1>2 DEF uploadImage
    <2>8. TypeOK'
      <3>1. \A s \in Tasks : /\ task'[s].pc # "idle" => task'[s].by \in Users
                             /\ task'[s].pc \in {"check", "answer"} => task'[s].name \in Names
        BY <1>0, <2>1, <2>3 DEF TypeOK
      <3> QED
        BY <1>0, <2>1, <2>2, <2>5, <2>6, <2>7, <3>1 DEF TypeOK
    <2>9. TasksOK'
      <3>1. \A s \in Tasks : task[s].pc # "idle" => task[s].by \in Users
        BY <1>0 DEF TypeOK
      <3> QED
        BY <1>0, <2>1, <2>2, <2>3, <2>4, <2>5, <3>1 DEF TasksOK
    <2>10. PagesOK'
      BY <1>0, <2>1, <2>2, <2>3, <2>6, <2>7 DEF PagesOK
    <2>11. Registry'
      BY <1>0, <2>1, <2>2, <2>3, <2>4, <2>7, QuietStep DEF Writing
    <2> QED
      BY <2>8, <2>9, <2>10, <2>11
  <1>3. ASSUME NEW t \in Tasks, NEW u \in Users, NEW n \in Names, PressSetUsername(t, u, n)
        PROVE  Goal
    <2>1. /\ \E picture \in BOOLEAN :
               Suspend(t, "check", "onboarding", u, NoName, n, picture)
          /\ "check" \in {"check", "upload", "delete", "register", "update"}
          /\ "onboarding" \in {"onboarding", "settings"}
          /\ NoName \in Names \cup {NoName} /\ n \in Names \cup {NoName}
      <3>1. TRUE \in BOOLEAN
        OBVIOUS
      <3> QED
        BY <1>0, <1>3, <3>1 DEF PressSetUsername, Writing, TypeOK, User
    <2>2. /\ task[t].pc = "idle" /\ task' \in [Tasks -> Task]
          /\ \A s \in Tasks : s # t => task'[s] = task[s]
          /\ task'[t].pc = "check" /\ task'[t].flow = "onboarding" /\ task'[t].by = u
          /\ task'[t].old = NoName /\ task'[t].name = n
      BY <1>0, <2>1, SuspendSlots
    <2>3. TypeOK'
      BY <1>0, <1>3, <2>1, <2>2 DEF TypeOK, PressSetUsername
    <2>4. TasksOK'
      BY <1>0, <1>3, <2>1, <2>2 DEF TasksOK, TypeOK, PressSetUsername
    <2>5. PagesOK'
      BY <1>0, <1>3, <2>1, <2>2 DEF PagesOK, TypeOK, PressSetUsername
    <2>6. Registry'
      BY <1>0, <1>3, <2>1, <2>2, QuietStep DEF PressSetUsername, TypeOK, Writing
    <2> QED
      BY <2>3, <2>4, <2>5, <2>6
  <1>4. ASSUME NEW t \in Tasks, NEW u \in Users, NEW n \in Names, PressUpdateUsername(t, u, n)
        PROVE  Goal
    <2>1. /\ \E picture \in BOOLEAN :
               Suspend(t, "check", "settings", u, NoName, n, picture)
          /\ "check" \in {"check", "upload", "delete", "register", "update"}
          /\ "settings" \in {"onboarding", "settings"}
          /\ NoName \in Names \cup {NoName} /\ n \in Names \cup {NoName}
      <3>1. FALSE \in BOOLEAN
        OBVIOUS
      <3> QED
        BY <1>0, <1>4, <3>1 DEF PressUpdateUsername, Writing, TypeOK, User
    <2>2. /\ task[t].pc = "idle" /\ task' \in [Tasks -> Task]
          /\ \A s \in Tasks : s # t => task'[s] = task[s]
          /\ task'[t].pc = "check" /\ task'[t].flow = "settings" /\ task'[t].by = u
          /\ task'[t].old = NoName /\ task'[t].name = n
      BY <1>0, <2>1, SuspendSlots
    <2>3. TypeOK'
      BY <1>0, <1>4, <2>1, <2>2 DEF TypeOK, PressUpdateUsername
    <2>4. TasksOK'
      BY <1>0, <1>4, <2>1, <2>2 DEF TasksOK, TypeOK, PressUpdateUsername
    <2>5. PagesOK'
      BY <1>0, <1>4, <2>1, <2>2 DEF PagesOK, TypeOK, PressUpdateUsername
    <2>6. Registry'
      BY <1>0, <1>4, <2>1, <2>2, QuietStep DEF PressUpdateUsername, TypeOK, Writing
    <2> QED
      BY <2>3, <2>4, <2>5, <2>6
  <1>5. ASSUME NEW t \in Tasks, checkUsernameAvailability(t)
        PROVE  Goal
    <2>1. /\ task' \in [Tasks -> Task]
          /\ \A s \in Tasks : s # t => task'[s] = task[s]
          /\ task[t].pc = "check" /\ task'[t].pc = "answer" /\ task'[t].flow = task[t].flow
          /\ task'[t].by = task[t].by /\ task'[t].old = task[t].old
          /\ task'[t].name = task[t].name /\ task'[t].name \in Names
          /\ task'[t].free => usernames[task'[t].name] = None
      BY <1>0, <1>5, CheckSlots
    <2>2. TypeOK'
      BY <1>0, <1>5, <2>1 DEF TypeOK, checkUsernameAvailability
    <2>3. TasksOK'
      BY <1>0, <1>5, <2>1 DEF TasksOK, TypeOK, checkUsernameAvailability
    <2>4. PagesOK'
      BY <1>0, <1>5, <2>1 DEF PagesOK, TypeOK, checkUsernameAvailability
    <2>5. Registry'
      BY <1>0, <1>5, <2>1, QuietStep DEF checkUsernameAvailability, TypeOK, Writing
    <2> QED
      BY <2>2, <2>3, <2>4, <2>5
  <1>6. ASSUME NEW t \in Tasks, GiveUp(t)
        PROVE  Goal
    <2>1. /\ task' \in [Tasks -> Task] /\ task'[t] = NoTask
          /\ \A s \in Tasks : s # t => task'[s] = task[s]
      BY <1>0, <1>6, ReturnSlots DEF GiveUp
    <2>2. /\ NoTask.pc = "idle" /\ NoTask.by = None /\ NoTask.flow = "settings"
          /\ NoTask.old = NoName
      BY NoTaskIdle
    <2>3. TypeOK'
      BY <1>0, <1>6, <2>1, <2>2 DEF TypeOK, GiveUp
    <2>4. TasksOK'
      BY <1>0, <1>6, <2>1, <2>2 DEF TasksOK, TypeOK, GiveUp
    <2>5. PagesOK'
      BY <1>0, <1>6, <2>1, <2>2 DEF PagesOK, TypeOK, GiveUp
    <2>6. Registry'
      BY <1>0, <1>6, <2>1, <2>2, QuietStep DEF GiveUp, TypeOK, Writing
    <2> QED
      BY <2>3, <2>4, <2>5, <2>6
  <1>7. ASSUME NEW t \in Tasks, NEW m \in Names, UpdateUser(t, m)
        PROVE  Goal
    <2>1. /\ task' \in [Tasks -> Task]
          /\ \A s \in Tasks : s # t => task'[s] = task[s]
          /\ task[t].pc = "answer" /\ task[t].free /\ task[t].name \in Names /\ task[t].by \in Users
          /\ task'[t].pc = "register" /\ task'[t].flow = "onboarding"
          /\ task'[t].by = task[t].by /\ task'[t].old = NoName /\ task'[t].name = m
      BY <1>0, <1>7, UpdateUserSlots
    <2>2. /\ disturbed' = disturbed \cup Meets(task[t].by, {m}) \cup Takes(task[t].by, m, task[t].name)
          /\ left' = left \cup Leaves(task[t].by, NoName, m)
      BY <1>7 DEF UpdateUser
    <2>3. disturbed' \subseteq Names /\ left' \subseteq Names
      <3>1. Meets(task[t].by, {m}) \subseteq Names /\ Takes(task[t].by, m, task[t].name) \subseteq Names
        BY <1>0, MeetsType DEF Takes
      <3>2. /\ doc[task[t].by].userName \in Names \cup {NoName}
            /\ disturbed \subseteq Names /\ left \subseteq Names
        BY <1>0, <2>1 DEF TypeOK, User
      <3> QED
        BY <2>2, <3>1, <3>2 DEF Leaves
    <2>4. TypeOK'
      BY <1>0, <1>7, <2>1, <2>3 DEF TypeOK, UpdateUser
    <2>5. TasksOK'
      BY <1>0, <1>7, <2>1 DEF TasksOK, TypeOK, UpdateUser
    <2>6. PagesOK'
      BY <1>0, <1>7, <2>1 DEF PagesOK, TypeOK, UpdateUser
    <2>7. Registry'
      <3>0. {task'[t].old, task'[t].name} \ {NoName} = {m} /\ NoName \notin Names
        BY <2>1
      <3>1. Meets(task'[t].by, {task'[t].old, task'[t].name} \ {NoName}) \subseteq disturbed'
        BY <2>1, <2>2, <3>0
      <3>2. m \in Names \ disturbed' => usernames[m] \in {None, task[t].by}
        BY <1>0, <2>1, <2>2 DEF Takes, Registry, NamesHeld
      <3>3. doc[task[t].by].userName \in Names \ (disturbed' \cup left') => doc[task[t].by].userName = m
        BY <2>2, <3>0 DEF Leaves
      <3>4. /\ usernames' = usernames /\ users' = users /\ doc' = doc
            /\ task[t].pc \notin Writing /\ task'[t].pc \in Writing
            /\ disturbed \subseteq disturbed' /\ left \subseteq left'
        BY <1>7, <2>1, <2>2 DEF UpdateUser, Writing
      <3> QED
        BY <1>0, <2>1, <3>0, <3>1, <3>2, <3>3, <3>4, StartStep
    <2> QED
      BY <2>4, <2>5, <2>6, <2>7
  <1>8. ASSUME NEW t \in Tasks, NEW m \in Names, UpdateUsername(t, m)
        PROVE  Goal
    <2>1. /\ task' \in [Tasks -> Task]
          /\ \A s \in Tasks : s # t => task'[s] = task[s]
          /\ task[t].pc = "answer" /\ task[t].free /\ task[t].name \in Names /\ task[t].by \in Users
          /\ task'[t].pc = "deregister" /\ task'[t].flow = "settings"
          /\ task'[t].by = task[t].by /\ task'[t].old = profile[task[t].by].userName
          /\ task'[t].name = m /\ task'[t].old \in Names \cup {NoName}
      BY <1>0, <1>8, UpdateUsernameSlots
    <2>2. /\ disturbed' = disturbed \cup Meets(task[t].by, {task'[t].old, m} \ {NoName})
                            \cup Takes(task[t].by, m, task[t].name) \cup Frees(task[t].by, task'[t].old)
          /\ left' = left \cup Leaves(task[t].by, task'[t].old, m)
      BY <1>8, <2>1 DEF UpdateUsername
    <2>3. disturbed' \subseteq Names /\ left' \subseteq Names
      <3>1. /\ Meets(task[t].by, {task'[t].old, m} \ {NoName}) \subseteq Names
            /\ Takes(task[t].by, m, task[t].name) \subseteq Names
            /\ Frees(task[t].by, task'[t].old) \subseteq Names
        BY <1>0, <2>1, MeetsType DEF Takes, Frees
      <3>2. /\ doc[task[t].by].userName \in Names \cup {NoName}
            /\ disturbed \subseteq Names /\ left \subseteq Names
        BY <1>0, <2>1 DEF TypeOK, User
      <3> QED
        BY <2>2, <3>1, <3>2 DEF Leaves
    <2>4. TypeOK'
      BY <1>0, <1>8, <2>1, <2>3 DEF TypeOK, UpdateUsername
    <2>5. TasksOK'
      BY <1>0, <1>8, <2>1 DEF TasksOK, TypeOK, UpdateUsername
    <2>6. PagesOK'
      BY <1>0, <1>8, <2>1 DEF PagesOK, TypeOK, UpdateUsername
    <2>7. Registry'
      <3> DEFINE u == task[t].by
      <3>1. Meets(task'[t].by, {task'[t].old, task'[t].name} \ {NoName}) \subseteq disturbed'
        BY <2>1, <2>2
      <3>2. m \in Names \ disturbed' => usernames[m] \in {None, u}
        BY <1>0, <2>1, <2>2 DEF Takes, Registry, NamesHeld
      <3>3. task'[t].old \in Names \ disturbed' => usernames[task'[t].old] \in {None, u}
        BY <2>2 DEF Frees
      <3>4. doc[u].userName \in Names \ (disturbed' \cup left') => doc[u].userName \in {task'[t].old, m}
        BY <2>2 DEF Leaves
      <3>5. /\ usernames' = usernames /\ users' = users /\ doc' = doc
            /\ task[t].pc \notin Writing /\ task'[t].pc \in Writing
            /\ disturbed \subseteq disturbed' /\ left \subseteq left'
        BY <1>8, <2>1, <2>2 DEF UpdateUsername, Writing
      <3> QED
        BY <1>0, <2>1, <3>1, <3>2, <3>3, <3>4, <3>5, StartStep
    <2> QED
      BY <2>4, <2>5, <2>6, <2>7
  <1>9. ASSUME NEW t \in Tasks, NEW u \in Users, UpdateName(t, u)
        PROVE  Goal
    <2>1. /\ \E picture \in BOOLEAN :
               Suspend(t, "update", "settings", u, NoName, profile[u].userName, picture)
          /\ "update" \in {"check", "upload", "delete", "register", "update"}
          /\ "settings" \in {"onboarding", "settings"}
          /\ NoName \in Names \cup {NoName} /\ profile[u].userName \in Names \cup {NoName}
      <3>1. profile[u].picture \in BOOLEAN
        BY <1>0 DEF TypeOK, User
      <3> QED
        BY <1>0, <1>9, <3>1 DEF UpdateName, Writing, TypeOK, User
    <2>2. /\ task[t].pc = "idle" /\ task' \in [Tasks -> Task]
          /\ \A s \in Tasks : s # t => task'[s] = task[s]
          /\ task'[t].pc = "update" /\ task'[t].flow = "settings" /\ task'[t].by = u
          /\ task'[t].old = NoName /\ task'[t].name = profile[u].userName
      BY <1>0, <2>1, SuspendSlots
    <2>3. u \in users /\ doc[u].userName \in Names \cup {NoName}
      BY <1>0, <1>9 DEF UpdateName, PagesOK, TypeOK, User
    <2>4. /\ Meets(u, {profile[u].userName} \ {NoName}) \subseteq disturbed'
          /\ disturbed \subseteq disturbed' /\ left \subseteq left'
          /\ profile[u].userName \in Names \ disturbed' => usernames[profile[u].userName] = u
          /\ doc[u].userName \in Names \ (disturbed' \cup left') => doc[u].userName = profile[u].userName
      BY <1>9 DEF UpdateName, Leaves
    <2>5. disturbed' \subseteq Names /\ left' \subseteq Names
      <3>1. Meets(u, {profile[u].userName} \ {NoName}) \subseteq Names
        BY <1>0, <2>1, MeetsType
      <3> QED
        BY <1>0, <1>9, <2>1, <2>3, <3>1 DEF UpdateName, Leaves, TypeOK
    <2>6. /\ settings' \in [Users -> {"Loaded", "Loading", "Updated"}] /\ saves' \in 0..MaxSaves
      BY <1>0, <1>9 DEF UpdateName, TypeOK
    <2>7. UNCHANGED <<firestore, signup, profile, changes, faults>>
      BY <1>9 DEF UpdateName
    <2>8. TypeOK'
      BY <1>0, <2>2, <2>5, <2>6, <2>7 DEF TypeOK
    <2>9. TasksOK'
      BY <1>0, <1>9, <2>1, <2>2, <2>3, <2>4, <2>5, <2>6, <2>7 DEF TasksOK, TypeOK, UpdateName
    <2>10. PagesOK'
      BY <1>0, <1>9, <2>1, <2>2, <2>3, <2>4, <2>5, <2>6, <2>7 DEF PagesOK, TypeOK, UpdateName
    <2>11. Registry'
      <3>1. {task'[t].old, task'[t].name} \ {NoName} = {profile[u].userName} \ {NoName}
        BY <2>2
      <3>2. Meets(task'[t].by, {task'[t].old, task'[t].name} \ {NoName}) \subseteq disturbed'
        BY <2>2, <2>4, <3>1
      <3>3. /\ usernames' = usernames /\ users' = users /\ doc' = doc
            /\ task[t].pc \notin Writing /\ task'[t].pc \in Writing /\ NoName \notin Names
        BY <2>2, <2>7 DEF Writing
      <3> QED
        BY <1>0, <2>2, <2>4, <3>2, <3>3, StartStep
    <2> QED
      BY <2>8, <2>9, <2>10, <2>11
  <1>10. ASSUME NEW t \in Tasks, deregisterUsername(t)
        PROVE  Goal
    <2>1. /\ "register" \in {"linger"} \cup Writing /\ Goto(t, "register")
          /\ task[t].pc = "deregister" /\ task[t].old \in Names /\ task[t] \in Task
      BY <1>0, <1>10 DEF deregisterUsername, Writing, TypeOK, Task
    <2>2. /\ task' \in [Tasks -> Task]
          /\ \A s \in Tasks : s # t => task'[s] = task[s]
          /\ task'[t].pc = "register" /\ task'[t].flow = task[t].flow /\ task'[t].by = task[t].by
          /\ task'[t].old = task[t].old /\ task'[t].name = task[t].name
      BY <1>0, <2>1, GotoSlots
    <2>3. /\ usernames' \in [Names -> Users \cup {None}]
          /\ \A n \in Names : usernames'[n] \in {None, usernames[n]}
      BY <1>0, <1>10, <2>1 DEF deregisterUsername, TypeOK
    <2>4. TypeOK'
      BY <1>0, <1>10, <2>1, <2>2, <2>3 DEF TypeOK, deregisterUsername
    <2>5. TasksOK'
      BY <1>0, <1>10, <2>1, <2>2, <2>3 DEF TasksOK, TypeOK, deregisterUsername
    <2>6. PagesOK'
      BY <1>0, <1>10, <2>1, <2>2, <2>3 DEF PagesOK, TypeOK, deregisterUsername
    <2>7. Registry'
      BY <1>0, <1>10, DeregisterStep
    <2> QED
      BY <2>4, <2>5, <2>6, <2>7
  <1>11. ASSUME NEW t \in Tasks, registerUsername(t)
        PROVE  Goal
    <2>1. /\ "update" \in {"linger"} \cup Writing /\ Goto(t, "update")
          /\ task[t].pc = "register" /\ task[t].name \in Names /\ task[t].by \in Users
      BY <1>0, <1>11 DEF registerUsername, Writing, TypeOK, TasksOK
    <2>2. /\ task' \in [Tasks -> Task]
          /\ \A s \in Tasks : s # t => task'[s] = task[s]
          /\ task'[t].pc = "update" /\ task'[t].flow = task[t].flow /\ task'[t].by = task[t].by
          /\ task'[t].old = task[t].old /\ task'[t].name = task[t].name
      BY <1>0, <2>1, GotoSlots
    <2>3. /\ usernames' \in [Names -> Users \cup {None}] /\ disturbed' \subseteq Names
          /\ \A n \in Names : usernames'[n] \in {task[t].by, usernames[n]}
      BY <1>0, <1>11, <2>1 DEF registerUsername, TypeOK, Outdates
    <2>4. TypeOK'
      BY <1>0, <1>11, <2>1, <2>2, <2>3 DEF TypeOK, registerUsername
    <2>5. TasksOK'
      BY <1>0, <1>11, <2>1, <2>2, <2>3 DEF TasksOK, TypeOK, registerUsername
    <2>6. PagesOK'
      BY <1>0, <1>11, <2>1, <2>2, <2>3 DEF PagesOK, TypeOK, registerUsername
    <2>7. Registry'
      BY <1>0, <1>11, RegisterStep
    <2> QED
      BY <2>4, <2>5, <2>6, <2>7
  <1>12. ASSUME NEW t \in Tasks, updateUser(t)
        PROVE  Goal
    <2>1. /\ task' \in [Tasks -> Task]
          /\ \A s \in Tasks : s # t => task'[s] = task[s]
          /\ task'[t].pc \in {"idle", "linger"} /\ task'[t].by \in {None, task[t].by}
          /\ task'[t].pc = "linger" => task'[t].by = task[t].by
          /\ task'[t].flow = "onboarding" => task'[t].old = task[t].old /\ task[t].flow = "onboarding"
          /\ doc' \in [Users -> User]
          /\ task[t].by \in users /\ task[t].by \in Users
      BY <1>0, <1>12, UpdateSlots
    <2>2. /\ onboarding' \in [Users -> {"Loading", "Loaded"}]
          /\ settings' \in [Users -> {"Loaded", "Loading", "Updated"}]
      BY <1>0, <1>12, <2>1 DEF updateUser, TypeOK
    <2>3. /\ fresh' \in [Users -> SUBSET (1..MaxPictures)]
          /\ \A u \in Users : u # task[t].by => fresh'[u] = fresh[u]
      <3>1. \/ fresh' = fresh
            \/ fresh' = [fresh EXCEPT ![task[t].by] = 1..echoes[task[t].by]]
        BY <1>12 DEF updateUser, WriteDoc
      <3>2. 1..echoes[task[t].by] \in SUBSET (1..MaxPictures)
        BY <1>0, <2>1 DEF TypeOK
      <3> QED
        BY <1>0, <2>1, <3>1, <3>2 DEF TypeOK
    <2>4. obUser' \in [Users -> User]
      <3> DEFINE me == [userName |-> task[t].name, picture |-> task[t].picture]
      <3>1. me \in User
        BY <1>0 DEF TypeOK, Task, User
      <3>2. obUser' = obUser \/ obUser' = [obUser EXCEPT ![task[t].by] = me]
        BY <1>12 DEF updateUser
      <3> HIDE DEF me
      <3> QED
        BY <1>0, <2>1, <3>1, <3>2 DEF TypeOK
    <2>5. /\ usernames' = usernames /\ users' = users /\ page' = page /\ echoes' = echoes
          /\ profile' = profile /\ disturbed' = disturbed /\ left' = left
          /\ changes' = changes /\ saves' = saves /\ faults' = faults
      BY <1>12 DEF updateUser
    <2>6. TypeOK'
      BY <1>0, <2>1, <2>2, <2>3, <2>4, <2>5 DEF TypeOK
    <2>7. TasksOK'
      BY <1>0, <2>1, <2>5 DEF TasksOK
    <2>8. PagesOK'
      BY <1>0, <2>1, <2>3, <2>5 DEF PagesOK, TypeOK
    <2>9. Registry'
      BY <1>0, <1>12, UpdateStep
    <2> QED
      BY <2>6, <2>7, <2>8, <2>9
  <1>13. ASSUME NEW t \in Tasks, Linger(t)
        PROVE  Goal
    <2>1. /\ task' \in [Tasks -> Task] /\ task'[t] = NoTask
          /\ \A s \in Tasks : s # t => task'[s] = task[s]
      BY <1>0, <1>13, ReturnSlots DEF Linger
    <2>2. /\ NoTask.pc = "idle" /\ NoTask.by = None /\ NoTask.flow = "settings"
          /\ NoTask.old = NoName
      BY NoTaskIdle
    <2>3. TypeOK'
      BY <1>0, <1>13, <2>1, <2>2 DEF TypeOK, Linger
    <2>4. TasksOK'
      BY <1>0, <1>13, <2>1, <2>2 DEF TasksOK, TypeOK, Linger
    <2>5. PagesOK'
      BY <1>0, <1>13, <2>1, <2>2 DEF PagesOK, TypeOK, Linger
    <2>6. Registry'
      BY <1>0, <1>13, <2>1, <2>2, QuietStep DEF Linger, TypeOK, Writing
    <2> QED
      BY <2>3, <2>4, <2>5, <2>6
  <1>14. ASSUME NEW t \in Tasks, deleteUserData(t)
        PROVE  Goal
    <2>1. /\ task' \in [Tasks -> Task] /\ task'[t] = NoTask
          /\ \A s \in Tasks : s # t => task'[s] = task[s]
      BY <1>0, <1>14, ReturnSlots DEF deleteUserData
    <2>2. /\ NoTask.pc = "idle" /\ NoTask.by = None /\ NoTask.flow = "settings"
          /\ NoTask.old = NoName
      BY NoTaskIdle
    <2>3. task[t].by \in Users
      BY <1>0, <1>14 DEF deleteUserData, TypeOK
    <2>4. TypeOK'
      BY <1>0, <1>14, <2>1, <2>2, <2>3 DEF TypeOK, deleteUserData
    <2>5. TasksOK'
      BY <1>0, <1>14, <2>1, <2>2, <2>3 DEF TasksOK, TypeOK, deleteUserData
    <2>6. PagesOK'
      BY <1>0, <1>14, <2>1, <2>2, <2>3 DEF PagesOK, TypeOK, deleteUserData
    <2>7. Registry'
      BY <1>0, <1>14, <2>1, <2>2, <2>3, QuietStep DEF deleteUserData, TypeOK, Writing
    <2> QED
      BY <2>4, <2>5, <2>6, <2>7
  <1>15. ASSUME NEW t \in Tasks, Throws(t)
        PROVE  Goal
    <2>1. /\ task' \in [Tasks -> Task] /\ task'[t] = NoTask
          /\ \A s \in Tasks : s # t => task'[s] = task[s]
      BY <1>0, <1>15, ReturnSlots DEF Throws
    <2>2. /\ NoTask.pc = "idle" /\ NoTask.by = None /\ NoTask.flow = "settings"
          /\ NoTask.old = NoName
      BY NoTaskIdle
    <2>3. /\ disturbed \subseteq disturbed' /\ disturbed' \subseteq Names
          /\ left \subseteq left' /\ left' \subseteq Names
          /\ task[t].by \in users =>
               Lost(task[t]) \subseteq disturbed' /\ Unused(task[t]) \subseteq left'
      BY <1>0, <1>15, NamesOfType DEF Throws, TypeOK
    <2>4. TypeOK'
      BY <1>0, <1>15, <2>1, <2>2, <2>3 DEF TypeOK, Throws, Writing
    <2>5. TasksOK'
      BY <1>0, <1>15, <2>1, <2>2, <2>3 DEF TasksOK, TypeOK, Throws, Writing
    <2>6. PagesOK'
      BY <1>0, <1>15, <2>1, <2>2, <2>3 DEF PagesOK, TypeOK, Throws, Writing
    <2>7. Registry'
      BY <1>0, <1>15, <2>1, <2>2, <2>3, QuietStep DEF Throws, TypeOK, Writing
    <2> QED
      BY <2>4, <2>5, <2>6, <2>7
  <1>16. ASSUME NEW t \in Tasks, NEW u \in Users, NEW k \in 1..MaxPictures, EchoSnapshot(t, u, k)
        PROVE  Goal
    <2>1. u \in users /\ doc[u].userName \in Names \cup {NoName} /\ doc[u].picture \in BOOLEAN
      BY <1>0, <1>16 DEF EchoSnapshot, TypeOK, User
    <2>2. \E pc \in {"register", "update"} :
            /\ pc = IF doc[u].userName # NoName THEN "register" ELSE "update"
            /\ Suspend(t, pc, "onboarding", u, NoName, doc[u].userName, doc[u].picture)
      BY <1>16 DEF EchoSnapshot
    <2>3. /\ task[t].pc = "idle" /\ task' \in [Tasks -> Task]
          /\ \A s \in Tasks : s # t => task'[s] = task[s]
          /\ task'[t].pc = IF doc[u].userName # NoName THEN "register" ELSE "update"
          /\ task'[t].flow = "onboarding" /\ task'[t].by = u
          /\ task'[t].old = NoName /\ task'[t].name = doc[u].userName
      <3>1. PICK pc \in {"register", "update"} :
              /\ pc = IF doc[u].userName # NoName THEN "register" ELSE "update"
              /\ Suspend(t, pc, "onboarding", u, NoName, doc[u].userName, doc[u].picture)
        BY <2>2
      <3>2. /\ pc \in {"check", "upload", "delete", "register", "update"}
            /\ "onboarding" \in {"onboarding", "settings"} /\ NoName \in Names \cup {NoName}
        BY DEF Writing
      <3> QED
        BY <1>0, <2>1, <3>1, <3>2, SuspendSlots
    <2>4. /\ Meets(u, {doc[u].userName} \ {NoName}) \subseteq disturbed' /\ disturbed \subseteq disturbed'
          /\ disturbed' \subseteq Names
      BY <1>0, <1>16, <2>1, MeetsType DEF EchoSnapshot, TypeOK
    <2>5. TypeOK'
      BY <1>0, <1>16, <2>1, <2>2, <2>3, <2>4 DEF TypeOK, EchoSnapshot
    <2>6. TasksOK'
      BY <1>0, <1>16, <2>1, <2>2, <2>3, <2>4 DEF TasksOK, TypeOK, EchoSnapshot
    <2>7. PagesOK'
      BY <1>0, <1>16, <2>1, <2>2, <2>3, <2>4 DEF PagesOK, TypeOK, EchoSnapshot
    <2>8. Registry'
      <3>1. doc[u].userName \in Names \ disturbed' => usernames[doc[u].userName] = u
        BY <1>0, <2>1, <2>4, OwnName
      <3>2. {task'[t].old, task'[t].name} \ {NoName} = {doc[u].userName} \ {NoName}
        BY <2>3
      <3>3. Meets(task'[t].by, {task'[t].old, task'[t].name} \ {NoName}) \subseteq disturbed'
        BY <2>3, <2>4, <3>2
      <3>4. /\ usernames' = usernames /\ users' = users /\ doc' = doc
            /\ task[t].pc \notin Writing /\ task'[t].pc \in Writing /\ NoName \notin Names
            /\ left \subseteq left'
        BY <1>16, <2>3 DEF EchoSnapshot, Writing
      <3> QED
        BY <1>0, <2>1, <2>3, <2>4, <3>1, <3>3, <3>4, StartStep
    <2> QED
      BY <2>5, <2>6, <2>7, <2>8
  <1>17. ASSUME NEW t \in Tasks, NEW u \in Users, DeleteAccount(t, u)
        PROVE  Goal
    <2>1. /\ \E picture \in BOOLEAN :
               Suspend(t, "delete", "settings", u, NoName, NoName, picture)
          /\ "delete" \in {"check", "upload", "delete", "register", "update"}
          /\ "settings" \in {"onboarding", "settings"}
          /\ NoName \in Names \cup {NoName} /\ NoName \in Names \cup {NoName}
      <3>1. FALSE \in BOOLEAN
        OBVIOUS
      <3> QED
        BY <1>0, <1>17, <3>1 DEF DeleteAccount, Writing, TypeOK, User
    <2>2. /\ task[t].pc = "idle" /\ task' \in [Tasks -> Task]
          /\ \A s \in Tasks : s # t => task'[s] = task[s]
          /\ task'[t].pc = "delete" /\ task'[t].flow = "settings" /\ task'[t].by = u
          /\ task'[t].old = NoName /\ task'[t].name = NoName
      BY <1>0, <2>1, SuspendSlots
    <2>3. TypeOK'
      BY <1>0, <1>17, <2>1, <2>2 DEF TypeOK, DeleteAccount
    <2>4. TasksOK'
      BY <1>0, <1>17, <2>1, <2>2 DEF TasksOK, TypeOK, DeleteAccount
    <2>5. PagesOK'
      BY <1>0, <1>17, <2>1, <2>2 DEF PagesOK, TypeOK, DeleteAccount
    <2>6. Registry'
      BY <1>0, <1>17, <2>1, <2>2, QuietStep DEF DeleteAccount, TypeOK, Writing
    <2> QED
      BY <2>3, <2>4, <2>5, <2>6
  <1>18. ASSUME NEW u \in Users, StartOnboarding(u)
        PROVE  Goal
    <2>1. NewUser \in User /\ doc[u].userName \in Names \cup {NoName}
      BY <1>0 DEF NewUser, User, TypeOK
    <2>2. TypeOK'
      BY <1>0, <1>18, <2>1 DEF TypeOK, StartOnboarding
    <2>3. TasksOK'
      BY <1>0, <1>18, <2>1 DEF TasksOK, TypeOK, StartOnboarding
    <2>4. PagesOK'
      BY <1>0, <1>18, <2>1 DEF PagesOK, TypeOK, StartOnboarding
    <2>5. Registry'
      BY <1>0, <1>18, OnboardingStep
    <2> QED
      BY <2>2, <2>3, <2>4, <2>5
  <1>19. ASSUME NEW u \in Users, SignIn(u)
        PROVE  Goal
    <2>1. TypeOK'
      BY <1>0, <1>19 DEF TypeOK, SignIn
    <2>2. TasksOK'
      BY <1>0, <1>19 DEF TasksOK, TypeOK, SignIn
    <2>3. PagesOK'
      BY <1>0, <1>19 DEF PagesOK, TypeOK, SignIn
    <2>4. Registry'
      BY <1>0, <1>19, QuietStep DEF SignIn, TypeOK, Writing
    <2> QED
      BY <2>1, <2>2, <2>3, <2>4
  <1>20. ASSUME NEW u \in Users, FinishOnboarding(u)
        PROVE  Goal
    <2>1. TypeOK'
      BY <1>0, <1>20 DEF TypeOK, FinishOnboarding
    <2>2. TasksOK'
      BY <1>0, <1>20 DEF TasksOK, TypeOK, FinishOnboarding
    <2>3. PagesOK'
      BY <1>0, <1>20 DEF PagesOK, TypeOK, FinishOnboarding
    <2>4. Registry'
      BY <1>0, <1>20, QuietStep DEF FinishOnboarding, TypeOK, Writing
    <2> QED
      BY <2>1, <2>2, <2>3, <2>4
  <1>21. ASSUME NEW u \in Users, ProfileSnapshot(u)
        PROVE  Goal
    <2>1. TypeOK'
      BY <1>0, <1>21 DEF TypeOK, ProfileSnapshot
    <2>2. TasksOK'
      BY <1>0, <1>21 DEF TasksOK, TypeOK, ProfileSnapshot
    <2>3. PagesOK'
      BY <1>0, <1>21 DEF PagesOK, TypeOK, ProfileSnapshot
    <2>4. Registry'
      BY <1>0, <1>21, QuietStep DEF ProfileSnapshot, TypeOK, Writing
    <2> QED
      BY <2>1, <2>2, <2>3, <2>4
  <1>22. ASSUME NEW u \in Users, NEW again \in BOOLEAN, Restart(u, again)
        PROVE  Goal
    <2>1. /\ task' \in [Tasks -> Task]
          /\ \A t \in Tasks : task'[t] = IF task[t].by = u THEN NoTask ELSE task[t]
      BY <1>0, <1>22, NoTaskIdle DEF Restart, TypeOK
    <2>2. /\ NoTask.pc = "idle" /\ NoTask.by = None /\ NoTask.flow = "settings"
          /\ NoTask.old = NoName
      BY NoTaskIdle
    <2>3. \A t \in Tasks : Lost(task[t]) \subseteq Names /\ Unused(task[t]) \subseteq Names
      BY <1>0, NamesOfType DEF TypeOK
    <2>4. /\ disturbed \subseteq disturbed' /\ disturbed' \subseteq Names
          /\ left \subseteq left' /\ left' \subseteq Names
          /\ \A t \in Tasks : task[t].by = u =>
               Lost(task[t]) \subseteq disturbed' /\ Unused(task[t]) \subseteq left'
      BY <1>0, <1>22, <2>3 DEF Restart, TypeOK
    <2>5. TypeOK'
      BY <1>0, <1>22, <2>1, <2>2, <2>3, <2>4 DEF TypeOK, Restart
    <2>6. TasksOK'
      BY <1>0, <1>22, <2>1, <2>2, <2>3, <2>4 DEF TasksOK, TypeOK, Restart
    <2>7. PagesOK'
      BY <1>0, <1>22, <2>1, <2>2, <2>3, <2>4 DEF PagesOK, TypeOK, Restart
    <2>8. Registry'
      BY <1>0, <1>22, <2>1, <2>2, <2>3, <2>4, QuietStep DEF Restart, TypeOK, Writing
    <2> QED
      BY <2>5, <2>6, <2>7, <2>8
  <1>23. ASSUME NEW t \in Tasks, uploadImageFails(t)
        PROVE  Goal
    <2>1. /\ task' \in [Tasks -> Task] /\ task'[t] = NoTask
          /\ \A s \in Tasks : s # t => task'[s] = task[s]
      BY <1>0, <1>23, ReturnSlots DEF uploadImageFails
    <2>2. NoTask.pc = "idle" /\ NoTask.by = None /\ NoTask.flow = "settings"
      BY NoTaskIdle
    <2>3. /\ task[t].pc = "upload" /\ task[t].by \in Users /\ echoes[task[t].by] < MaxPictures
          /\ echoes[task[t].by] \in 0..MaxPictures
          /\ \A s \in Tasks : s # t /\ task[s].pc = "upload" => task[s].by # task[t].by
      BY <1>0, <1>23 DEF uploadImageFails, TasksOK, TypeOK
    <2>4. /\ echoes' \in [Users -> 0..MaxPictures]
          /\ \A u \in Users : u # task[t].by => echoes'[u] = echoes[u]
      BY <1>0, <1>23, <2>3 DEF uploadImageFails, TypeOK
    <2>5. /\ fresh' \in [Users -> SUBSET (1..MaxPictures)]
          /\ \A u \in Users : u # task[t].by => fresh'[u] = fresh[u]
      BY <1>0, <1>23, <2>3 DEF uploadImageFails, TypeOK
    <2>6. faults' \in 0..MaxFaults
      BY <1>0, <1>23 DEF uploadImageFails, TypeOK
    <2>7. /\ usernames' = usernames /\ users' = users /\ doc' = doc /\ page' = page
          /\ onboarding' = onboarding /\ obUser' = obUser /\ settings' = settings
          /\ profile' = profile /\ disturbed' = disturbed /\ left' = left
          /\ changes' = changes /\ saves' = saves
      BY <1>23 DEF uploadImageFails
    <2>8. TypeOK'
      BY <1>0, <2>1, <2>2, <2>4, <2>5, <2>6, <2>7 DEF TypeOK
    <2>9. TasksOK'
      <3>1. \A s \in Tasks : task[s].pc # "idle" => task[s].by \in Users
        BY <1>0 DEF TypeOK
      <3> QED
        BY <1>0, <2>1, <2>2, <2>3, <2>4, <3>1 DEF TasksOK
    <2>10. PagesOK'
      BY <1>0, <2>1, <2>2, <2>3, <2>5, <2>7 DEF PagesOK
    <2>11. Registry'
      BY <1>0, <2>1, <2>2, <2>3, <2>7, QuietStep DEF Writing
    <2> QED
      BY <2>8, <2>9, <2>10, <2>11
  <1>24. Goal
    BY <1>1, <1>2, <1>3, <1>4, <1>5, <1>6, <1>7, <1>8, <1>9, <1>10, <1>11, <1>12,
       <1>13, <1>14, <1>15, <1>16, <1>17, <1>18, <1>19, <1>20, <1>21, <1>22, <1>23
       DEF Next, Step, Press
  <1> QED
    BY <1>24 DEF UsernamesInv, Registry

LEMMA InitUsernames == Init => UsernamesInv
  <1> SUFFICES ASSUME Init PROVE UsernamesInv
    OBVIOUS
  <1> USE UsernamesAssumption
  <1>1. /\ NewUser \in User /\ NewUser.userName = NoName
        /\ 0 \in 0..MaxPictures /\ changes \in 0..MaxChanges /\ saves \in 0..MaxSaves
        /\ faults \in 0..MaxFaults
    BY DEF Init, NewUser, User
  <1>2. \A t \in Tasks : task[t] = NoTask
    BY DEF Init
  <1>3. task \in [Tasks -> Task]
    BY NoTaskIdle DEF Init
  <1>4. TypeOK
    BY <1>1, <1>2, <1>3, NoTaskIdle DEF Init, TypeOK
  <1>5. TasksOK /\ PagesOK
    BY <1>2, NoTaskIdle DEF Init, TasksOK, PagesOK
  <1>6. ChangesApart /\ NamesHeld /\ NamesLeft
    BY <1>2, NoTaskIdle DEF ChangesApart, NamesHeld, NamesLeft, Writing
  <1>7. NameLeadsToOwner /\ NameIsInUse
    BY DEF Init, NameLeadsToOwner, NameIsInUse
  <1> QED
    BY <1>4, <1>5, <1>6, <1>7 DEF UsernamesInv

LEMMA UsernamesInvariant == Spec => []UsernamesInv
  <1>1. UsernamesInv /\ UNCHANGED vars => UsernamesInv'
    <2> SUFFICES ASSUME UsernamesInv, UNCHANGED vars PROVE UsernamesInv'
      OBVIOUS
    <2> USE DEF vars, firestore, signup, bounds, history
    <2>1. TypeOK' /\ TasksOK' /\ PagesOK'
      BY DEF UsernamesInv, TypeOK, TasksOK, PagesOK
    <2>2. ChangesApart' /\ NamesHeld' /\ NamesLeft' /\ NameLeadsToOwner' /\ NameIsInUse'
      BY DEF UsernamesInv, ChangesApart, NamesHeld, NamesLeft, NameLeadsToOwner, NameIsInUse,
             NamesOf
    <2> QED
      BY <2>1, <2>2 DEF UsernamesInv
  <1> QED
    BY <1>1, InitUsernames, NextUsernames, PTL DEF Spec

(* The documents, the registry of names and the suspended handlers keep their
   types, and every bound is respected.                                    *)
THEOREM UsernamesTypeCorrect == Spec => []TypeOK
  BY UsernamesInvariant, PTL DEF UsernamesInv

(* A name leads to the account whose document has it, through crashes, refused
   writes and every order of the awaited writes of registerUsername,
   deregisterUsername and updateUser, unless the name is in disturbed: two
   changes overlapped, an answer of the check went stale, or one of the four
   accidents Takes, Frees, Lost and UpdateName record happened to it.      *)
THEOREM NamesLeadToOwners == Spec => []NameLeadsToOwner
  BY UsernamesInvariant, PTL DEF UsernamesInv

(* A registered name is the one in its owner's document: deregisterUsername
   frees the one it replaces.  Names in disturbed are excepted, and the names
   in left, which the sign-up, an out of date profile or a crash before the
   update leave behind.                                                    *)
THEOREM NamesAreInUse == Spec => []NameIsInUse
  BY UsernamesInvariant, PTL DEF UsernamesInv

(* checkUsernameAvailability keeps names apart, through crashes, refused writes
   and names left behind, for as long as a name is not in disturbed.       *)
THEOREM UndisturbedNamesAreUnique == Spec => []UndisturbedUnique
  <1>1. UsernamesInv => UndisturbedUnique
    <2> SUFFICES ASSUME UsernamesInv, NEW u \in users, NEW v \in users,
                        doc[u].userName = doc[v].userName,
                        doc[u].userName \in Names \ disturbed, u # v
                 PROVE  FALSE
      BY DEF UndisturbedUnique
    <2> DEFINE n == doc[u].userName
               Leaving(t, w) == /\ task[t].by = w /\ task[t].old = n
                                /\ task[t].pc \in {"register", "update"}
    <2>0. TypeOK /\ ChangesApart /\ NamesHeld /\ None \notin Users
      BY UsernamesAssumption DEF UsernamesInv
    <2>1. /\ usernames[n] = u \/ \E t \in Tasks : Leaving(t, u)
          /\ usernames[n] = v \/ \E t \in Tasks : Leaving(t, v)
      BY DEF UsernamesInv, NameLeadsToOwner
    <2>2. \A t \in Tasks, w \in {u, v} : Leaving(t, w) => usernames[n] \in {None, w}
      BY <2>0 DEF NamesHeld
    <2>3. \A s, t \in Tasks : ~(Leaving(s, u) /\ Leaving(t, v))
      <3> SUFFICES ASSUME NEW s \in Tasks, NEW t \in Tasks, Leaving(s, u), Leaving(t, v)
                   PROVE  FALSE
        OBVIOUS
      <3>1. /\ s # t /\ n \in {task[s].old, task[s].name} /\ n \in {task[t].old, task[t].name}
            /\ task[s].pc \in Writing /\ task[t].pc \in Writing
        BY DEF Writing
      <3> QED
        BY <2>0, <3>1, SharedName
    <2> QED
      BY <2>0, <2>1, <2>2, <2>3 DEF TypeOK
  <1> QED
    BY <1>1, UsernamesInvariant, PTL
=============================================================================
