---------------------------- MODULE SessionProofs ----------------------------
(***************************************************************************)
(* Theorems about Session, for any number of accounts and of concurrent    *)
(* handlers.                                                               *)
(***************************************************************************)
EXTENDS Session, TLAPS

(* What the slots hold after one of them is written. *)
LEMMA Slots ==
  ASSUME TypeOK, NEW t \in Tasks, NEW r \in Task, task' = [task EXCEPT ![t] = r]
  PROVE  /\ task' \in [Tasks -> Task]
         /\ \A s \in Tasks : task'[s] = IF s = t THEN r ELSE task[s]
  BY DEF TypeOK

LEMMA AwaitSlots ==
  ASSUME TypeOK, NEW t \in Tasks, NEW at \in Changing \cup Buying,
         NEW who \in Accounts \cup {None, Anonymous}, Await(t, at, who)
  PROVE  /\ task' \in [Tasks -> Task]
         /\ \A s \in Tasks : s # t => task'[s] = task[s]
         /\ task'[t].at = at /\ task'[t].who = who
  <1> DEFINE r == [at |-> at, who |-> who]
  <1>1. r \in Task /\ r.at = at /\ r.who = who
    BY DEF Task
  <1>2. task' = [task EXCEPT ![t] = r]
    BY DEF Await
  <1> HIDE DEF r
  <1> QED
    BY <1>1, <1>2, Slots

LEMMA EndSlots ==
  ASSUME TypeOK, NEW t \in Tasks, End(t)
  PROVE  /\ task' \in [Tasks -> Task]
         /\ \A s \in Tasks : s # t => task'[s] = task[s]
         /\ task'[t].at = "idle"
  <1>1. NoTask \in Task /\ NoTask.at = "idle"
    BY DEF NoTask, Task
  <1> QED
    BY <1>1, Slots DEF End

LEMMA InitSession == Init => SessionInv
  <1> SUFFICES ASSUME Init PROVE SessionInv
    OBVIOUS
  <1> DEFINE r == [at |-> "isAnonymous", who |-> None]
  <1>1. r \in Task /\ r.at = "isAnonymous" /\ r.who = None
    BY DEF Task, Changing
  <1>2. NoTask \in Task /\ NoTask.at = "idle"
    BY DEF NoTask, Task
  <1>3. 1 \in Tasks /\ logins \in 0..MaxLogins /\ extras \in 0..MaxExtras
        /\ signIns \in 0..MaxLogins /\ signIns <= logins
    BY SessionAssumption DEF Init, Tasks
  <1>4. task = [t \in Tasks |-> IF t = 1 THEN r ELSE NoTask]
    BY DEF Init
  <1> HIDE DEF r
  <1>5. task \in [Tasks -> Task] /\ \A t \in Tasks : task[t] = IF t = 1 THEN r ELSE NoTask
    BY <1>1, <1>2, <1>4
  <1>6. TypeOK
    BY <1>3, <1>5 DEF Init, TypeOK
  <1>7. TasksOK
    BY <1>1, <1>2, <1>5 DEF TasksOK, Changing
  <1>8. OneChange
    BY <1>1, <1>2, <1>5 DEF Init, OneChange, Changing
  <1>9. UnderWay
    BY <1>1, <1>3, <1>5 DEF Init, UnderWay, Changing
  <1> QED
    BY <1>3, <1>6, <1>7, <1>8, <1>9 DEF Init, SessionInv

(* A sign-in: the account is awaited, and changes of others have been noted. *)
LEMMA SignsInSession ==
  ASSUME SessionInv, NEW a \in Accounts, SignsIn(a), UNCHANGED <<users, task>>
  PROVE  /\ authUser' \in Accounts /\ authUser' \in listening'
         /\ listening \subseteq listening'
         /\ due' \subseteq listening' /\ listening' \subseteq Accounts
         /\ crossed' \in BOOLEAN
         /\ Awaited'
         /\ ~crossed' => OneChange'
  <1>1. TypeOK
    BY DEF SessionInv
  <1>2. /\ authUser' \in Accounts /\ authUser' \in listening'
        /\ listening \subseteq listening'
        /\ due' \subseteq listening' /\ listening' \subseteq Accounts
    BY <1>1 DEF SignsIn, ListenTo, TypeOK
  <1>3. crossed' \in BOOLEAN
    BY Zenon DEF SignsIn
  <1>4. Awaited'
    BY <1>1, SessionAssumption DEF SignsIn, ListenTo, Awaited, TypeOK
  <1>5. ASSUME ~crossed' PROVE OneChange'
    <2>1. ~crossed /\ \A t \in Tasks : task[t].at \in Changing => task[t].who \in {None, a}
      BY <1>5, Zenon DEF SignsIn
    <2>2. OneChange
      BY <2>1 DEF SessionInv
    <2>3. authUser' = a
      BY DEF SignsIn
    <2> QED
      BY <1>4, <2>1, <2>2, <2>3 DEF OneChange
  <1> QED
    BY <1>2, <1>3, <1>4, <1>5

LEMMA NextSession ==
  ASSUME SessionInv, [Next]_vars
  PROVE  SessionInv'
  <1> USE SessionAssumption
  <1> USE DEF SessionInv, TypeOK, TasksOK, OneChange, Awaited, UnderWay, Agreed, Known,
              external, shop, nav, bounds, history
  <1>1. ASSUME NEW t \in Tasks, NEW a \in Accounts, AuthUserChanged(t, a)
        PROVE  SessionInv'
    <2>1. Await(t, "isAnonymous", a) /\ "isAnonymous" \in Changing \cup Buying
          /\ a \in Accounts \cup {None, Anonymous}
      BY <1>1 DEF AuthUserChanged, StartChange, Changing, Buying, Task
    <2>2. /\ task' \in [Tasks -> Task]
          /\ \A s \in Tasks : s # t => task'[s] = task[s]
          /\ task'[t].at = "isAnonymous" /\ task'[t].who = a
      BY <2>1, AwaitSlots
    <2>3. TypeOK'
      <3>1. crossed' \in BOOLEAN /\ failed' \in BOOLEAN
        BY <1>1, Zenon DEF AuthUserChanged, StartChange
      <3>2. due' \subseteq listening' /\ listening' \subseteq Accounts
        BY <1>1 DEF AuthUserChanged
      <3> QED
        BY <1>1, <2>2, <3>1, <3>2 DEF AuthUserChanged
    <2>4. TasksOK'
      BY <1>1, <2>2 DEF AuthUserChanged, StartChange, Changing
    <2>5. /\ authUser' \in listening' \cup {None}
          /\ signUp' \in listening' \cup {None, "stuck"} /\ signIns' <= logins'
      BY <1>1, <2>2 DEF AuthUserChanged, StartChange, Changing
    <2>6. ~crossed' => OneChange'
      BY <1>1, <2>2 DEF AuthUserChanged, StartChange, Changing
    <2>7. ~crossed' /\ ~failed' => Awaited' \/ UnderWay' \/ Agreed'
      BY <1>1, <2>2 DEF AuthUserChanged, StartChange, Changing
    <2> QED
      BY <2>3, <2>4, <2>5, <2>6, <2>7 DEF SessionInv
  <1>2. ASSUME NEW t \in Tasks, isUserAnonymous(t)
        PROVE  SessionInv'
    <2>1. CASE task[t].who # None
      <3>1. Await(t, "logIn", task[t].who) /\ "logIn" \in Changing \cup Buying
            /\ task[t].who \in Accounts \cup {None, Anonymous}
        BY <1>2, <2>1 DEF isUserAnonymous, Changing, Buying, Task
      <3>2. /\ task' \in [Tasks -> Task]
            /\ \A s \in Tasks : s # t => task'[s] = task[s]
            /\ task'[t].at = "logIn" /\ task'[t].who = task[t].who
        BY <3>1, AwaitSlots
      <3> QED
        BY <1>2, <2>1, <3>2 DEF isUserAnonymous, Changing
    <2>2. CASE task[t].who = None /\ revCat # Anonymous
      <3>1. Await(t, "logOut", task[t].who) /\ "logOut" \in Changing \cup Buying
            /\ task[t].who \in Accounts \cup {None, Anonymous}
        BY <1>2, <2>2 DEF isUserAnonymous, Changing, Buying, Task
      <3>2. /\ task' \in [Tasks -> Task]
            /\ \A s \in Tasks : s # t => task'[s] = task[s]
            /\ task'[t].at = "logOut" /\ task'[t].who = task[t].who
        BY <3>1, AwaitSlots
      <3> QED
        BY <1>2, <2>2, <3>2 DEF isUserAnonymous, Changing
    <2>3. CASE task[t].who = None /\ revCat = Anonymous
      <3>1. Await(t, "emit", task[t].who) /\ "emit" \in Changing \cup Buying
            /\ task[t].who \in Accounts \cup {None, Anonymous}
        BY <1>2, <2>3 DEF isUserAnonymous, Changing, Buying, Task
      <3>2. /\ task' \in [Tasks -> Task]
            /\ \A s \in Tasks : s # t => task'[s] = task[s]
            /\ task'[t].at = "emit" /\ task'[t].who = task[t].who
        BY <3>1, AwaitSlots
      <3> QED
        BY <1>2, <2>3, <3>2 DEF isUserAnonymous, Changing
    <2> QED
      BY <1>2, <2>1, <2>2, <2>3 DEF isUserAnonymous
  <1>3. ASSUME NEW t \in Tasks, loginToRevCat(t)
        PROVE  SessionInv'
    <2>1. Await(t, "emit", task[t].who) /\ "emit" \in Changing \cup Buying
          /\ task[t].who \in Accounts \cup {None, Anonymous}
      BY <1>3 DEF loginToRevCat, Changing, Buying, Task
    <2>2. /\ task' \in [Tasks -> Task]
          /\ \A s \in Tasks : s # t => task'[s] = task[s]
          /\ task'[t].at = "emit" /\ task'[t].who = task[t].who
      BY <2>1, AwaitSlots
    <2> QED
      BY <1>3, <2>2 DEF loginToRevCat, Changing
  <1>4. ASSUME NEW t \in Tasks, logoutOfRevCat(t)
        PROVE  SessionInv'
    <2>1. Await(t, "emit", None) /\ "emit" \in Changing \cup Buying
          /\ None \in Accounts \cup {None, Anonymous}
      BY <1>4 DEF logoutOfRevCat, Changing, Buying, Task
    <2>2. /\ task' \in [Tasks -> Task]
          /\ \A s \in Tasks : s # t => task'[s] = task[s]
          /\ task'[t].at = "emit" /\ task'[t].who = None
      BY <2>1, AwaitSlots
    <2> QED
      BY <1>4, <2>2 DEF logoutOfRevCat, Changing
  <1>5. ASSUME NEW t \in Tasks, EmitAuthState(t)
        PROVE  SessionInv'
    <2>1. CASE task[t].who # None /\ purchases # "absent"
      <3>1. Await(t, "getCustomerInfo", None) /\ "getCustomerInfo" \in Changing \cup Buying
            /\ None \in Accounts \cup {None, Anonymous}
        BY <1>5, <2>1 DEF EmitAuthState, StartLoad, Changing, Buying, Task
      <3>2. /\ task' \in [Tasks -> Task]
            /\ \A s \in Tasks : s # t => task'[s] = task[s]
            /\ task'[t].at = "getCustomerInfo" /\ task'[t].who = None
        BY <3>1, AwaitSlots
      <3> QED
        BY <1>5, <2>1, <3>2 DEF EmitAuthState, StartLoad, Changing
    <2>2. CASE ~(task[t].who # None /\ purchases # "absent")
      <3>1. End(t)
        BY <1>5, <2>2 DEF EmitAuthState
      <3>2. /\ task' \in [Tasks -> Task]
            /\ \A s \in Tasks : s # t => task'[s] = task[s]
            /\ task'[t].at = "idle"
        BY <3>1, EndSlots
      <3> QED
        BY <1>5, <2>2, <3>2 DEF EmitAuthState, Changing
    <2> QED
      BY <1>5, <2>1, <2>2 DEF EmitAuthState
  <1>6. ASSUME NEW t \in Tasks, getCustomerInfo(t)
        PROVE  SessionInv'
    <2>1. Await(t, "getOfferings", revCat) /\ "getOfferings" \in Changing \cup Buying
          /\ revCat \in Accounts \cup {None, Anonymous}
      BY <1>6 DEF getCustomerInfo, Changing, Buying, Task
    <2>2. /\ task' \in [Tasks -> Task]
          /\ \A s \in Tasks : s # t => task'[s] = task[s]
          /\ task'[t].at = "getOfferings" /\ task'[t].who = revCat
      BY <2>1, AwaitSlots
    <2> QED
      BY <1>6, <2>2 DEF getCustomerInfo, Changing
  <1>7. ASSUME NEW t \in Tasks, EmitPurchasesLoaded(t)
        PROVE  SessionInv'
    <2>1. End(t)
      BY <1>7 DEF EmitPurchasesLoaded
    <2>2. /\ task' \in [Tasks -> Task]
          /\ \A s \in Tasks : s # t => task'[s] = task[s]
          /\ task'[t].at = "idle"
      BY <2>1, EndSlots
    <2>3. TypeOK'
      <3>1. subscriber' \in Accounts \cup {None, Anonymous} /\ subscriber' # None
        BY <1>7 DEF EmitPurchasesLoaded, Task
      <3> QED
        BY <1>7, <2>2, <3>1 DEF EmitPurchasesLoaded
    <2>4. TasksOK'
      BY <1>7, <2>2 DEF EmitPurchasesLoaded, Changing
    <2>5. /\ authUser' \in listening' \cup {None}
          /\ signUp' \in listening' \cup {None, "stuck"} /\ signIns' <= logins'
      BY <1>7, <2>2 DEF EmitPurchasesLoaded, Changing
    <2>6. ~crossed' => OneChange'
      BY <1>7, <2>2 DEF EmitPurchasesLoaded, Changing
    <2>7. ~crossed' /\ ~failed' => Awaited' \/ UnderWay' \/ Agreed'
      BY <1>7, <2>2 DEF EmitPurchasesLoaded, Changing
    <2> QED
      BY <2>3, <2>4, <2>5, <2>6, <2>7 DEF SessionInv
  <1>8. ASSUME NEW t \in Tasks, makePurchase(t)
        PROVE  SessionInv'
    <2>1. Await(t, "linger", None) /\ "linger" \in Changing \cup Buying
          /\ None \in Accounts \cup {None, Anonymous}
      BY <1>8 DEF makePurchase, Changing, Buying, Task
    <2>2. /\ task' \in [Tasks -> Task]
          /\ \A s \in Tasks : s # t => task'[s] = task[s]
          /\ task'[t].at = "linger" /\ task'[t].who = None
      BY <2>1, AwaitSlots
    <2> QED
      BY <1>8, <2>2 DEF makePurchase, Changing
  <1>9. ASSUME NEW t \in Tasks, Reload(t)
        PROVE  SessionInv'
    <2>1. Await(t, "getCustomerInfo", None) /\ "getCustomerInfo" \in Changing \cup Buying
          /\ None \in Accounts \cup {None, Anonymous}
      BY <1>9 DEF Reload, StartLoad, Changing, Buying, Task
    <2>2. /\ task' \in [Tasks -> Task]
          /\ \A s \in Tasks : s # t => task'[s] = task[s]
          /\ task'[t].at = "getCustomerInfo" /\ task'[t].who = None
      BY <2>1, AwaitSlots
    <2> QED
      BY <1>9, <2>2 DEF Reload, StartLoad, Changing
  <1>10. ASSUME NEW t \in Tasks, logout(t)
        PROVE  SessionInv'
    <2>1. Await(t, "isAnonymous", None) /\ "isAnonymous" \in Changing \cup Buying
          /\ None \in Accounts \cup {None, Anonymous}
      BY <1>10 DEF logout, StartChange, Changing, Buying, Task
    <2>2. /\ task' \in [Tasks -> Task]
          /\ \A s \in Tasks : s # t => task'[s] = task[s]
          /\ task'[t].at = "isAnonymous" /\ task'[t].who = None
      BY <2>1, AwaitSlots
    <2>3. TypeOK'
      <3>1. crossed' \in BOOLEAN /\ failed' \in BOOLEAN
        BY <1>10, Zenon DEF logout, StartChange
      <3> QED
        BY <1>10, <2>2, <3>1 DEF logout
    <2>4. TasksOK'
      BY <1>10, <2>2 DEF logout, StartChange, Changing
    <2>5. /\ authUser' \in listening' \cup {None}
          /\ signUp' \in listening' \cup {None, "stuck"} /\ signIns' <= logins'
      BY <1>10, <2>2 DEF logout, StartChange, Changing
    <2>6. ~crossed' => OneChange'
      BY <1>10, <2>2 DEF logout, StartChange, Changing
    <2>7. ~crossed' /\ ~failed' => Awaited' \/ UnderWay' \/ Agreed'
      BY <1>10, <2>2 DEF logout, StartChange, Changing
    <2> QED
      BY <2>3, <2>4, <2>5, <2>6, <2>7 DEF SessionInv
  <1>11. ASSUME NEW t \in Tasks, LoadPurchases(t)
        PROVE  SessionInv'
    <2>1. Await(t, "getCustomerInfo", None) /\ "getCustomerInfo" \in Changing \cup Buying
          /\ None \in Accounts \cup {None, Anonymous}
      BY <1>11 DEF LoadPurchases, StartLoad, Free, Changing, Buying, Task
    <2>2. /\ task' \in [Tasks -> Task]
          /\ \A s \in Tasks : s # t => task'[s] = task[s]
          /\ task'[t].at = "getCustomerInfo" /\ task'[t].who = None
      BY <2>1, AwaitSlots
    <2> QED
      BY <1>11, <2>2 DEF LoadPurchases, StartLoad, Free, Changing
  <1>12. ASSUME NEW t \in Tasks, AddPurchase(t)
        PROVE  SessionInv'
    <2>1. Await(t, "purchase", None) /\ "purchase" \in Changing \cup Buying
          /\ None \in Accounts \cup {None, Anonymous}
      BY <1>12 DEF AddPurchase, Buy, Free, Changing, Buying, Task
    <2>2. /\ task' \in [Tasks -> Task]
          /\ \A s \in Tasks : s # t => task'[s] = task[s]
          /\ task'[t].at = "purchase" /\ task'[t].who = None
      BY <2>1, AwaitSlots
    <2> QED
      BY <1>12, <2>2 DEF AddPurchase, Buy, Free, Changing
  <1>13. ASSUME NEW t \in Tasks, RestorePurchases(t)
        PROVE  SessionInv'
    <2>1. Await(t, "restore", None) /\ "restore" \in Changing \cup Buying
          /\ None \in Accounts \cup {None, Anonymous}
      BY <1>13 DEF RestorePurchases, Buy, Free, Changing, Buying, Task
    <2>2. /\ task' \in [Tasks -> Task]
          /\ \A s \in Tasks : s # t => task'[s] = task[s]
          /\ task'[t].at = "restore" /\ task'[t].who = None
      BY <2>1, AwaitSlots
    <2> QED
      BY <1>13, <2>2 DEF RestorePurchases, Buy, Free, Changing
  <1>14. ASSUME NEW t \in Tasks, RevCatFails(t)
        PROVE  SessionInv'
    <2>1. CASE task[t].at = "isAnonymous" /\ task[t].who = None
      <3>1. Await(t, "emit", task[t].who) /\ "emit" \in Changing \cup Buying
            /\ task[t].who \in Accounts \cup {None, Anonymous}
        BY <1>14, <2>1 DEF RevCatFails, Changing, Buying, Task
      <3>2. /\ task' \in [Tasks -> Task]
            /\ \A s \in Tasks : s # t => task'[s] = task[s]
            /\ task'[t].at = "emit" /\ task'[t].who = task[t].who
        BY <3>1, AwaitSlots
      <3> QED
        BY <1>14, <2>1, <3>2 DEF RevCatFails, Changing
    <2>2. CASE task[t].at = "isAnonymous" /\ task[t].who # None
      <3>1. Await(t, "logIn", task[t].who) /\ "logIn" \in Changing \cup Buying
            /\ task[t].who \in Accounts \cup {None, Anonymous}
        BY <1>14, <2>2 DEF RevCatFails, Changing, Buying, Task
      <3>2. /\ task' \in [Tasks -> Task]
            /\ \A s \in Tasks : s # t => task'[s] = task[s]
            /\ task'[t].at = "logIn" /\ task'[t].who = task[t].who
        BY <3>1, AwaitSlots
      <3> QED
        BY <1>14, <2>2, <3>2 DEF RevCatFails, Changing
    <2>3. CASE task[t].at # "isAnonymous"
      <3>1. End(t)
        BY <1>14, <2>3 DEF RevCatFails
      <3>2. /\ task' \in [Tasks -> Task]
            /\ \A s \in Tasks : s # t => task'[s] = task[s]
            /\ task'[t].at = "idle"
        BY <3>1, EndSlots
      <3> QED
        BY <1>14, <2>3, <3>2 DEF RevCatFails, Changing
    <2> QED
      BY <1>14, <2>1, <2>2, <2>3 DEF RevCatFails
  <1>15. ASSUME NEW t \in Tasks, getCustomerInfoFails(t)
        PROVE  SessionInv'
    <2>1. End(t)
      BY <1>15 DEF getCustomerInfoFails
    <2>2. /\ task' \in [Tasks -> Task]
          /\ \A s \in Tasks : s # t => task'[s] = task[s]
          /\ task'[t].at = "idle"
      BY <2>1, EndSlots
    <2> QED
      BY <1>15, <2>2 DEF getCustomerInfoFails, Changing
  <1>16. ASSUME logInWithGoogle
        PROVE  SessionInv'
    <2> QED
      BY <1>16 DEF logInWithGoogle, Changing
  <1>17. ASSUME NEW a \in Accounts, signInWithGoogle(a)
        PROVE  SessionInv'
    <2>1. SignsIn(a) /\ UNCHANGED <<users, task>>
      BY <1>17 DEF signInWithGoogle
    <2>2. /\ authUser' \in Accounts /\ authUser' \in listening'
          /\ listening \subseteq listening'
          /\ due' \subseteq listening' /\ listening' \subseteq Accounts
          /\ crossed' \in BOOLEAN
          /\ Awaited'
          /\ ~crossed' => OneChange'
      BY <2>1, SignsInSession
    <2>3. TypeOK'
      BY <1>17, <2>2 DEF signInWithGoogle
    <2>4. TasksOK'
      BY <1>17 DEF signInWithGoogle
    <2>5. /\ signUp' \in listening' \cup {None, "stuck"}
          /\ signIns' <= logins'
      BY <1>17, <2>2 DEF signInWithGoogle
    <2> QED
      BY <2>2, <2>3, <2>4, <2>5
  <1>18. ASSUME signInWithGoogleFails \/ signInWithGoogleNull
        PROVE  SessionInv'
    <2> QED
      BY <1>18 DEF signInWithGoogleFails, signInWithGoogleNull, SignsNobodyIn, Changing
  <1>19. ASSUME NEW a \in Accounts, signUpWithGoogle(a)
        PROVE  SessionInv'
    <2>1. SignsIn(a) /\ UNCHANGED <<users, task>>
      BY <1>19 DEF signUpWithGoogle
    <2>2. /\ authUser' \in Accounts /\ authUser' \in listening'
          /\ listening \subseteq listening'
          /\ due' \subseteq listening' /\ listening' \subseteq Accounts
          /\ crossed' \in BOOLEAN
          /\ Awaited'
          /\ ~crossed' => OneChange'
      BY <2>1, SignsInSession
    <2>3. TypeOK'
      BY <1>19, <2>2 DEF signUpWithGoogle
    <2>4. TasksOK'
      BY <1>19 DEF signUpWithGoogle
    <2>5. /\ signUp' \in listening' \cup {None, "stuck"}
          /\ signIns' <= logins'
      BY <1>19, <2>2 DEF signUpWithGoogle, SignsIn
    <2> QED
      BY <2>2, <2>3, <2>4, <2>5
  <1>20. ASSUME StartOnboarding
        PROVE  SessionInv'
    <2> QED
      BY <1>20 DEF StartOnboarding, Changing
  <1>21. ASSUME FinishOnboarding
        PROVE  SessionInv'
    <2> QED
      BY <1>21 DEF FinishOnboarding, Changing
  <1>22. ASSUME NEW a \in Accounts, DocumentChanges(a)
        PROVE  SessionInv'
    <2> QED
      BY <1>22 DEF DocumentChanges, Changing
  <1>23. ASSUME Redirect
        PROVE  SessionInv'
    <2> QED
      BY <1>23 DEF Redirect, Changing
  <1>24. ASSUME PressSignUp \/ Back
        PROVE  SessionInv'
    <2> QED
      BY <1>24 DEF PressSignUp, Back, Changing
  <1>25. ASSUME signUpWithGoogleFails
        PROVE  SessionInv'
    <2> QED
      BY <1>25 DEF signUpWithGoogleFails, Changing
  <1>26. CASE UNCHANGED vars
    BY <1>26 DEF vars
  <1> QED
    BY <1>1, <1>2, <1>3, <1>4, <1>5, <1>6, <1>7, <1>8, <1>9, <1>10, <1>11, <1>12,
       <1>13, <1>14, <1>15, <1>16, <1>17, <1>18, <1>19, <1>20, <1>21, <1>22, <1>23,
       <1>24, <1>25, <1>26 DEF Next, Resume, Press

(* Every state is well-typed; PurchasesLoaded always has somebody's answer. *)
THEOREM SessionTypeCorrect == Spec => []TypeOK
  <1>1. SessionInv => TypeOK
    BY DEF SessionInv
  <1> QED
    BY <1>1, InitSession, NextSession, PTL DEF Spec

(* When the changes have been handled, Firebase, AuthBloc and RevenueCat mean
   the same account, unless changes of two accounts met or a call failed.  *)
THEOREM SessionsAgree == Spec => []SessionAgrees
  <1>1. SessionInv => SessionAgrees
    BY DEF SessionInv, SessionAgrees, Settled, Unchanging, Awaited, UnderWay,
           Agreed, Known, TypeOK
  <1> QED
    BY <1>1, InitSession, NextSession, PTL DEF Spec

-----------------------------------------------------------------------------
(* Whose subscription the pages go by. *)

(* A step that neither touches the handlers nor what they work on. *)
LEMMA Elsewhere ==
  ASSUME SubscriberInv, failed => failed', crossed => crossed',
         UNCHANGED <<revCat, auth, purchases, subscriber, task, outdated>>
  PROVE  SubscriberInv'
  BY DEF SubscriberInv, EmitsKnown, OwnAnswers, Unchanging

(* What is known when a load starts and no other answer is out of date. *)
LEMMA LoadStarts ==
  ASSUME NEW t \in Tasks, StartLoad(t), ~outdated'
  PROVE  \A s \in Tasks : s # t /\ task[s].at = "getOfferings" => task[s].who = revCat
  BY DEF StartLoad

(* The third part of the invariant when a load starts in a state in which
   RevenueCat knows the account AuthBloc has by then.                      *)
LEMMA LoadIsOwn ==
  ASSUME SessionInv, NEW t \in Tasks, StartLoad(t), revCat' = revCat, auth' = revCat
  PROVE  ~outdated' => OwnAnswers'
  <1> SUFFICES ASSUME ~outdated' PROVE OwnAnswers'
    OBVIOUS
  <1>1. TypeOK
    BY DEF SessionInv
  <1>2. /\ Await(t, "getCustomerInfo", None) /\ "getCustomerInfo" \in Changing \cup Buying
        /\ None \in Accounts \cup {None, Anonymous}
    BY DEF StartLoad, Changing, Buying
  <1>3. /\ \A s \in Tasks : s # t => task'[s] = task[s]
        /\ task'[t].at = "getCustomerInfo"
    BY <1>1, <1>2, AwaitSlots
  <1>4. \A s \in Tasks : s # t /\ task[s].at = "getOfferings" => task[s].who = revCat
    BY LoadStarts
  <1>5. purchases' = "Loading"
    BY DEF StartLoad
  <1> QED
    BY <1>3, <1>4, <1>5 DEF OwnAnswers

LEMMA InitSubscriber == Init => SubscriberInv
  <1> SUFFICES ASSUME Init PROVE SubscriberInv
    OBVIOUS
  <1> DEFINE r == [at |-> "isAnonymous", who |-> None]
  <1>1. r.at = "isAnonymous" /\ NoTask.at = "idle"
    BY DEF NoTask
  <1>2. task = [t \in Tasks |-> IF t = 1 THEN r ELSE NoTask] /\ 1 \in Tasks
    BY SessionAssumption DEF Init, Tasks
  <1> HIDE DEF r
  <1>3. task[1].at = "isAnonymous" /\ \A t \in Tasks : task[t].at \in {"isAnonymous", "idle"}
    BY <1>1, <1>2
  <1>4. ~Unchanging
    BY <1>2, <1>3 DEF Unchanging, Changing
  <1>5. EmitsKnown /\ \A t \in Tasks : task[t].at \notin Buying
    BY <1>3 DEF EmitsKnown, Buying
  <1> QED
    BY <1>4, <1>5 DEF SubscriberInv

LEMMA NextSubscriber ==
  ASSUME SessionInv, SubscriberInv, [Next]_vars
  PROVE  SubscriberInv'
  <1> USE DEF external, shop, nav, bounds, history
  <1>0. TypeOK /\ TasksOK /\ (~crossed => OneChange)
    BY DEF SessionInv
  <1>i. None \notin Accounts /\ None \in Accounts \cup {None, Anonymous}
    BY SessionAssumption
  <1>1. ASSUME NEW t \in Tasks, NEW a \in Accounts, AuthUserChanged(t, a)
        PROVE  SubscriberInv'
    <2>1. /\ Await(t, "isAnonymous", a) /\ "isAnonymous" \in Changing \cup Buying
          /\ a \in Accounts \cup {None, Anonymous}
      BY <1>0, <1>i, <1>1 DEF AuthUserChanged, Changing, Buying, Task, TypeOK
    <2>2. /\ \A s \in Tasks : s # t => task'[s] = task[s]
          /\ task'[t].at = "isAnonymous" /\ task'[t].who = a
      BY <1>0, <2>1, AwaitSlots
    <2>3. /\ StartChange(a, authUser) /\ task[t].at = "idle"
          /\ UNCHANGED <<revCat, auth, purchases, subscriber, outdated>>
      BY <1>1 DEF AuthUserChanged, Free
    <2>4. ~crossed' => ~crossed \/ \A s \in Tasks : task[s].at \notin Changing
      BY <2>3, Zenon DEF StartChange
    <2>5. ~crossed' => EmitsKnown'
      BY <2>2, <2>3, <2>4 DEF SubscriberInv, EmitsKnown, Changing
    <2>6. ~Unchanging'
      BY <2>2 DEF Unchanging, Changing
    <2>7. purchases' = "absent" => \A s \in Tasks : task'[s].at \notin Buying
      BY <2>2, <2>3 DEF SubscriberInv, Buying
    <2> QED
      BY <2>5, <2>6, <2>7 DEF SubscriberInv
  <1>2. ASSUME NEW t \in Tasks, logout(t)
        PROVE  SubscriberInv'
    <2>1. /\ Await(t, "isAnonymous", None) /\ "isAnonymous" \in Changing \cup Buying
          /\ None \in Accounts \cup {None, Anonymous}
      BY <1>0, <1>i, <1>2 DEF logout, Changing, Buying, Task, TypeOK
    <2>2. /\ \A s \in Tasks : s # t => task'[s] = task[s]
          /\ task'[t].at = "isAnonymous" /\ task'[t].who = None
      BY <1>0, <2>1, AwaitSlots
    <2>3. /\ StartChange(None, None) /\ task[t].at = "idle"
          /\ UNCHANGED <<revCat, auth, purchases, subscriber, outdated>>
      BY <1>2 DEF logout, Free
    <2>4. ~crossed' => ~crossed \/ \A s \in Tasks : task[s].at \notin Changing
      BY <2>3, Zenon DEF StartChange
    <2>5. ~crossed' => EmitsKnown'
      BY <2>2, <2>3, <2>4 DEF SubscriberInv, EmitsKnown, Changing
    <2>6. ~Unchanging'
      BY <2>2 DEF Unchanging, Changing
    <2>7. purchases' = "absent" => \A s \in Tasks : task'[s].at \notin Buying
      BY <2>2, <2>3 DEF SubscriberInv, Buying
    <2> QED
      BY <2>5, <2>6, <2>7 DEF SubscriberInv
  <1>3. ASSUME NEW t \in Tasks, isUserAnonymous(t)
        PROVE  SubscriberInv'
    <2>1. PICK at \in {"logIn", "logOut", "emit"} :
            Await(t, at, task[t].who) /\ (at = "emit" => task[t].who = None)
      BY <1>3 DEF isUserAnonymous
    <2>2. at \in Changing \cup Buying /\ task[t].who \in Accounts \cup {None, Anonymous}
      BY <1>0 DEF Changing, Task, TypeOK
    <2>3. /\ \A s \in Tasks : s # t => task'[s] = task[s]
          /\ task'[t].at = at /\ task'[t].who = task[t].who
      BY <1>0, <2>1, <2>2, AwaitSlots
    <2>4. UNCHANGED <<revCat, auth, purchases, subscriber, crossed, failed, outdated>>
      BY <1>3 DEF isUserAnonymous
    <2>5. ~crossed' => EmitsKnown'
      BY <2>1, <2>3, <2>4 DEF SubscriberInv, EmitsKnown
    <2>6. ~Unchanging'
      BY <2>3 DEF Unchanging, Changing
    <2>7. purchases' = "absent" => \A s \in Tasks : task'[s].at \notin Buying
      BY <2>3, <2>4 DEF SubscriberInv, Buying
    <2> QED
      BY <2>5, <2>6, <2>7 DEF SubscriberInv
  <1>4. ASSUME NEW t \in Tasks, loginToRevCat(t)
        PROVE  SubscriberInv'
    <2>1. /\ Await(t, "emit", task[t].who) /\ "emit" \in Changing \cup Buying
          /\ task[t].who \in Accounts \cup {None, Anonymous}
      BY <1>0, <1>i, <1>4 DEF loginToRevCat, Changing, Buying, Task, TypeOK
    <2>2. /\ \A s \in Tasks : s # t => task'[s] = task[s]
          /\ task'[t].at = "emit" /\ task'[t].who = task[t].who
      BY <1>0, <2>1, AwaitSlots
    <2>3. /\ task[t].at = "logIn" /\ revCat' = task[t].who
          /\ UNCHANGED <<auth, purchases, subscriber, crossed, failed, outdated>>
      BY <1>4 DEF loginToRevCat
    <2>4. ~crossed => \A s \in Tasks : task[s].at = "emit" => task[s].who = task[t].who
      BY <1>0, <2>3 DEF OneChange, Changing
    <2>5. ~crossed' => EmitsKnown'
      BY <1>0, <2>2, <2>3, <2>4 DEF EmitsKnown, TasksOK
    <2>6. ~Unchanging'
      BY <2>2 DEF Unchanging, Changing
    <2>7. purchases' = "absent" => \A s \in Tasks : task'[s].at \notin Buying
      BY <2>2, <2>3 DEF SubscriberInv, Buying
    <2> QED
      BY <2>5, <2>6, <2>7 DEF SubscriberInv
  <1>5. ASSUME NEW t \in Tasks, logoutOfRevCat(t)
        PROVE  SubscriberInv'
    <2>1. /\ Await(t, "emit", None) /\ "emit" \in Changing \cup Buying
          /\ None \in Accounts \cup {None, Anonymous}
      BY <1>0, <1>i, <1>5 DEF logoutOfRevCat, Changing, Buying, Task, TypeOK
    <2>2. /\ \A s \in Tasks : s # t => task'[s] = task[s]
          /\ task'[t].at = "emit" /\ task'[t].who = None
      BY <1>0, <2>1, AwaitSlots
    <2>3. /\ task[t].at = "logOut" /\ revCat' = Anonymous
          /\ UNCHANGED <<auth, purchases, subscriber, crossed, failed, outdated>>
      BY <1>5 DEF logoutOfRevCat
    <2>4. ~crossed => \A s \in Tasks : task[s].at = "emit" => task[s].who = task[t].who
      BY <1>0, <2>3 DEF OneChange, Changing
    <2>5. ~crossed' => EmitsKnown'
      BY <1>0, <2>2, <2>3, <2>4 DEF EmitsKnown, TasksOK
    <2>6. ~Unchanging'
      BY <2>2 DEF Unchanging, Changing
    <2>7. purchases' = "absent" => \A s \in Tasks : task'[s].at \notin Buying
      BY <2>2, <2>3 DEF SubscriberInv, Buying
    <2> QED
      BY <2>5, <2>6, <2>7 DEF SubscriberInv
  <1>6. ASSUME NEW t \in Tasks, RevCatFails(t)
        PROVE  SubscriberInv'
    <2>1. /\ UNCHANGED <<revCat, auth, purchases, subscriber, crossed, outdated>>
          /\ failed' = TRUE
      BY <1>6 DEF RevCatFails
    <2>2. /\ \A s \in Tasks : s # t => task'[s] = task[s]
          /\ task'[t].at \in {"idle", "logIn", "emit"}
          /\ task'[t].at = "emit" => task'[t].who = None
      <3>1. CASE task[t].at = "isAnonymous"
        <4>1. PICK at \in {"logIn", "emit"} :
                Await(t, at, task[t].who) /\ (at = "emit" => task[t].who = None)
          BY <1>6, <3>1 DEF RevCatFails
        <4>2. at \in Changing \cup Buying /\ task[t].who \in Accounts \cup {None, Anonymous}
          BY <1>0 DEF Changing, Task, TypeOK
        <4> QED
          BY <1>0, <4>1, <4>2, AwaitSlots
      <3>2. CASE task[t].at # "isAnonymous"
        <4>1. End(t)
          BY <1>6, <3>2 DEF RevCatFails
        <4> QED
          BY <1>0, <4>1, EndSlots
      <3> QED
        BY <3>1, <3>2
    <2>3. ~crossed' => EmitsKnown'
      BY <2>1, <2>2 DEF SubscriberInv, EmitsKnown
    <2>4. purchases' = "absent" => \A s \in Tasks : task'[s].at \notin Buying
      BY <2>1, <2>2 DEF SubscriberInv, Buying
    <2> QED
      BY <2>1, <2>3, <2>4 DEF SubscriberInv
  <1>7. ASSUME NEW t \in Tasks, EmitAuthState(t)
        PROVE  SubscriberInv'
    <2>1. /\ task[t].at = "emit" /\ auth' = task[t].who
          /\ UNCHANGED <<revCat, subscriber, crossed, failed>>
      BY <1>7 DEF EmitAuthState
    <2>2. ~crossed /\ auth' \in Accounts => revCat = auth'
      BY <1>i, <2>1 DEF SubscriberInv, EmitsKnown
    <2>3. CASE task[t].who # None /\ purchases # "absent"
      <3>1. StartLoad(t)
        BY <1>7, <2>3 DEF EmitAuthState
      <3>2. /\ Await(t, "getCustomerInfo", None) /\ purchases' = "Loading"
            /\ "getCustomerInfo" \in Changing \cup Buying
        BY <3>1 DEF StartLoad, Changing, Buying
      <3>3. /\ \A s \in Tasks : s # t => task'[s] = task[s]
            /\ task'[t].at = "getCustomerInfo"
        BY <1>0, <1>i, <3>2, AwaitSlots
      <3>4. ~crossed' => EmitsKnown'
        BY <2>1, <3>3 DEF SubscriberInv, EmitsKnown
      <3>5. ~crossed /\ auth' \in Accounts => (~outdated' => OwnAnswers')
        BY <2>1, <2>2, <3>1, LoadIsOwn
      <3> QED
        BY <2>1, <2>2, <3>2, <3>4, <3>5 DEF SubscriberInv
    <2>4. CASE ~(task[t].who # None /\ purchases # "absent")
      <3>1. End(t) /\ UNCHANGED <<purchases, outdated>>
        BY <1>7, <2>4 DEF EmitAuthState
      <3>2. /\ \A s \in Tasks : s # t => task'[s] = task[s]
            /\ task'[t].at = "idle"
        BY <1>0, <3>1, EndSlots
      <3>3. ~crossed' => EmitsKnown'
        BY <2>1, <3>2 DEF SubscriberInv, EmitsKnown
      <3>4. purchases' = "absent" => \A s \in Tasks : task'[s].at \notin Buying
        BY <3>1, <3>2 DEF SubscriberInv, Buying
      <3>5. auth' \in Accounts => purchases' = "absent"
        BY <1>i, <2>1, <2>4, <3>1
      <3>6. purchases' = "absent" => OwnAnswers'
        BY <3>4 DEF OwnAnswers, Buying
      <3> QED
        BY <2>1, <2>2, <3>3, <3>4, <3>5, <3>6 DEF SubscriberInv
    <2> QED
      BY <2>3, <2>4
  <1>8. ASSUME NEW t \in Tasks, getCustomerInfo(t)
        PROVE  SubscriberInv'
    <2>1. /\ Await(t, "getOfferings", revCat) /\ "getOfferings" \in Changing \cup Buying
          /\ revCat \in Accounts \cup {None, Anonymous}
      BY <1>0, <1>i, <1>8 DEF getCustomerInfo, Changing, Buying, Task, TypeOK
    <2>2. /\ \A s \in Tasks : s # t => task'[s] = task[s]
          /\ task'[t].at = "getOfferings" /\ task'[t].who = revCat
      BY <1>0, <2>1, AwaitSlots
    <2>3. /\ task[t].at = "getCustomerInfo"
          /\ UNCHANGED <<revCat, auth, purchases, subscriber, crossed, failed, outdated>>
      BY <1>8 DEF getCustomerInfo
    <2>4. purchases' # "absent"
      BY <2>3 DEF SubscriberInv, Buying
    <2>5. ~crossed' => EmitsKnown'
      BY <2>2, <2>3 DEF SubscriberInv, EmitsKnown
    <2>6. Unchanging' => Unchanging
      BY <2>2, <2>3 DEF Unchanging, Changing
    <2>7. OwnAnswers /\ revCat = auth => OwnAnswers'
      BY <2>2, <2>3 DEF OwnAnswers
    <2> QED
      BY <2>3, <2>4, <2>5, <2>6, <2>7 DEF SubscriberInv
  <1>9. ASSUME NEW t \in Tasks, getCustomerInfoFails(t)
        PROVE  SubscriberInv'
    <2>1. End(t)
      BY <1>9 DEF getCustomerInfoFails
    <2>2. /\ \A s \in Tasks : s # t => task'[s] = task[s]
          /\ task'[t].at = "idle"
      BY <1>0, <2>1, EndSlots
    <2>3. UNCHANGED <<revCat, purchases, crossed>> /\ failed' = TRUE
      BY <1>9 DEF getCustomerInfoFails
    <2>4. ~crossed' => EmitsKnown'
      BY <2>2, <2>3 DEF SubscriberInv, EmitsKnown
    <2>5. purchases' = "absent" => \A s \in Tasks : task'[s].at \notin Buying
      BY <2>2, <2>3 DEF SubscriberInv, Buying
    <2> QED
      BY <2>3, <2>4, <2>5 DEF SubscriberInv
  <1>10. ASSUME NEW t \in Tasks, EmitPurchasesLoaded(t)
        PROVE  SubscriberInv'
    <2>1. End(t)
      BY <1>10 DEF EmitPurchasesLoaded
    <2>2. /\ \A s \in Tasks : s # t => task'[s] = task[s]
          /\ task'[t].at = "idle"
      BY <1>0, <2>1, EndSlots
    <2>3. /\ task[t].at = "getOfferings" /\ purchases' = "Loaded" /\ subscriber' = task[t].who
          /\ UNCHANGED <<revCat, auth, crossed, failed, outdated>>
      BY <1>10 DEF EmitPurchasesLoaded
    <2>4. ~crossed' => EmitsKnown'
      BY <2>2, <2>3 DEF SubscriberInv, EmitsKnown
    <2>5. Unchanging' => Unchanging
      BY <2>2, <2>3 DEF Unchanging, Changing
    <2>6. OwnAnswers => OwnAnswers'
      BY <2>2, <2>3 DEF OwnAnswers
    <2> QED
      BY <2>3, <2>4, <2>5, <2>6 DEF SubscriberInv
  <1>11. ASSUME NEW t \in Tasks, AddPurchase(t)
        PROVE  SubscriberInv'
    <2>1. /\ Await(t, "purchase", None) /\ "purchase" \in Changing \cup Buying
          /\ None \in Accounts \cup {None, Anonymous}
      BY <1>0, <1>i, <1>11 DEF AddPurchase, Buy, Free, Changing, Buying, Task, TypeOK
    <2>2. /\ \A s \in Tasks : s # t => task'[s] = task[s]
          /\ task'[t].at = "purchase" /\ task'[t].who = None
      BY <1>0, <2>1, AwaitSlots
    <2>3. /\ task[t].at = "idle"
          /\ purchases' = "Loading"
          /\ UNCHANGED <<revCat, auth, crossed, failed, outdated>>
      BY <1>11 DEF AddPurchase, Buy, Free
    <2>4. ~crossed' => EmitsKnown'
      BY <2>2, <2>3 DEF SubscriberInv, EmitsKnown
    <2>5. Unchanging' => Unchanging
      BY <2>2, <2>3 DEF Unchanging, Changing
    <2>6. OwnAnswers => OwnAnswers'
      BY <2>2, <2>3 DEF OwnAnswers
    <2> QED
      BY <2>3, <2>4, <2>5, <2>6 DEF SubscriberInv
  <1>12. ASSUME NEW t \in Tasks, RestorePurchases(t)
        PROVE  SubscriberInv'
    <2>1. /\ Await(t, "restore", None) /\ "restore" \in Changing \cup Buying
          /\ None \in Accounts \cup {None, Anonymous}
      BY <1>0, <1>i, <1>12 DEF RestorePurchases, Buy, Free, Changing, Buying, Task, TypeOK
    <2>2. /\ \A s \in Tasks : s # t => task'[s] = task[s]
          /\ task'[t].at = "restore" /\ task'[t].who = None
      BY <1>0, <2>1, AwaitSlots
    <2>3. /\ task[t].at = "idle"
          /\ purchases' = "Loading"
          /\ UNCHANGED <<revCat, auth, crossed, failed, outdated>>
      BY <1>12 DEF RestorePurchases, Buy, Free
    <2>4. ~crossed' => EmitsKnown'
      BY <2>2, <2>3 DEF SubscriberInv, EmitsKnown
    <2>5. Unchanging' => Unchanging
      BY <2>2, <2>3 DEF Unchanging, Changing
    <2>6. OwnAnswers => OwnAnswers'
      BY <2>2, <2>3 DEF OwnAnswers
    <2> QED
      BY <2>3, <2>4, <2>5, <2>6 DEF SubscriberInv
  <1>13. ASSUME NEW t \in Tasks, makePurchase(t)
        PROVE  SubscriberInv'
    <2>1. /\ Await(t, "linger", None) /\ "linger" \in Changing \cup Buying
          /\ None \in Accounts \cup {None, Anonymous}
      BY <1>0, <1>i, <1>13 DEF makePurchase, Changing, Buying, Task, TypeOK
    <2>2. /\ \A s \in Tasks : s # t => task'[s] = task[s]
          /\ task'[t].at = "linger" /\ task'[t].who = None
      BY <1>0, <2>1, AwaitSlots
    <2>3. /\ task[t].at = "purchase"
          /\ purchases' \in {"Updated", "Failed"}
          /\ UNCHANGED <<revCat, auth, crossed, failed, outdated>>
      BY <1>13 DEF makePurchase
    <2>4. ~crossed' => EmitsKnown'
      BY <2>2, <2>3 DEF SubscriberInv, EmitsKnown
    <2>5. Unchanging' => Unchanging
      BY <2>2, <2>3 DEF Unchanging, Changing
    <2>6. OwnAnswers => OwnAnswers'
      BY <2>2, <2>3 DEF OwnAnswers
    <2> QED
      BY <2>3, <2>4, <2>5, <2>6 DEF SubscriberInv
  <1>14. ASSUME NEW t \in Tasks, LoadPurchases(t)
        PROVE  SubscriberInv'
    <2>1. /\ StartLoad(t) /\ task[t].at \in {"idle", "linger", "restore"}
          /\ UNCHANGED <<revCat, auth, crossed, failed>>
      BY <1>14 DEF LoadPurchases, Free
    <2>2. /\ Await(t, "getCustomerInfo", None) /\ purchases' = "Loading"
          /\ "getCustomerInfo" \in Changing \cup Buying
      BY <2>1 DEF StartLoad, Changing, Buying
    <2>3. /\ \A s \in Tasks : s # t => task'[s] = task[s]
          /\ task'[t].at = "getCustomerInfo"
      BY <1>0, <1>i, <2>2, AwaitSlots
    <2>4. ~crossed' => EmitsKnown'
      BY <2>1, <2>3 DEF SubscriberInv, EmitsKnown
    <2>5. Unchanging' => Unchanging
      BY <2>1, <2>3 DEF Unchanging, Changing
    <2>6. auth = revCat => (~outdated' => OwnAnswers')
      BY <2>1, LoadIsOwn
    <2> QED
      BY <2>1, <2>2, <2>4, <2>5, <2>6 DEF SubscriberInv
  <1>15. ASSUME NEW t \in Tasks, Reload(t)
        PROVE  SubscriberInv'
    <2>1. /\ StartLoad(t) /\ task[t].at \in {"idle", "linger", "restore"}
          /\ UNCHANGED <<revCat, auth, crossed, failed>>
      BY <1>15 DEF Reload
    <2>2. /\ Await(t, "getCustomerInfo", None) /\ purchases' = "Loading"
          /\ "getCustomerInfo" \in Changing \cup Buying
      BY <2>1 DEF StartLoad, Changing, Buying
    <2>3. /\ \A s \in Tasks : s # t => task'[s] = task[s]
          /\ task'[t].at = "getCustomerInfo"
      BY <1>0, <1>i, <2>2, AwaitSlots
    <2>4. ~crossed' => EmitsKnown'
      BY <2>1, <2>3 DEF SubscriberInv, EmitsKnown
    <2>5. Unchanging' => Unchanging
      BY <2>1, <2>3 DEF Unchanging, Changing
    <2>6. auth = revCat => (~outdated' => OwnAnswers')
      BY <2>1, LoadIsOwn
    <2> QED
      BY <2>1, <2>2, <2>4, <2>5, <2>6 DEF SubscriberInv
  <1>16. ASSUME \/ logInWithGoogle \/ StartOnboarding \/ FinishOnboarding \/ Redirect
               \/ signInWithGoogleFails \/ signInWithGoogleNull \/ signUpWithGoogleFails
               \/ PressSignUp \/ Back
               \/ \E a \in Accounts : DocumentChanges(a)
        PROVE  SubscriberInv'
    <2>1. UNCHANGED <<revCat, auth, purchases, subscriber, task, crossed, failed, outdated>>
      BY <1>16 DEF logInWithGoogle, StartOnboarding, FinishOnboarding, Redirect,
         signInWithGoogleFails, signInWithGoogleNull, SignsNobodyIn, signUpWithGoogleFails,
         PressSignUp, Back, DocumentChanges
    <2> QED
      BY <2>1, Elsewhere
  <1>18. ASSUME NEW a \in Accounts, signInWithGoogle(a) \/ signUpWithGoogle(a)
        PROVE  SubscriberInv'
    <2>1. /\ UNCHANGED <<revCat, auth, purchases, subscriber, task, failed, outdated>>
          /\ SignsIn(a)
      BY <1>18 DEF signInWithGoogle, signUpWithGoogle
    <2>2. crossed => crossed'
      BY <2>1, Zenon DEF SignsIn
    <2> QED
      BY <2>1, <2>2, Elsewhere
  <1>17. CASE UNCHANGED vars
    <2>1. UNCHANGED <<revCat, auth, purchases, subscriber, task, crossed, failed, outdated>>
      BY <1>17 DEF vars
    <2> QED
      BY <2>1, Elsewhere
  <1> QED
    BY <1>1, <1>2, <1>3, <1>4, <1>5, <1>6, <1>7, <1>8, <1>9, <1>10, <1>11,
       <1>12, <1>13, <1>14, <1>15, <1>16, <1>17, <1>18 DEF Next, Resume, Press

(* Whenever no change is under way, the subscription the pages go by is that
   of the account signed in, for any number of accounts, of concurrent loads
   and of purchases, unless changes of two accounts met, a call failed or an
   answer about another account was on its way when the last load started. *)
THEOREM SubscriptionsAreOwn == Spec => []SubscriptionIsOwn
  <1>1. SubscriberInv => SubscriptionIsOwn
    BY DEF SubscriberInv, OwnAnswers, SubscriptionIsOwn
  <1>2. SessionInv /\ SubscriberInv /\ [Next]_vars => SessionInv' /\ SubscriberInv'
    BY NextSession, NextSubscriber
  <1> QED
    BY <1>1, <1>2, InitSession, InitSubscriber, PTL DEF Spec
=============================================================================
