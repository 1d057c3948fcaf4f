------------------------------- MODULE Session -------------------------------
(***************************************************************************)
(* Session: who the app thinks is signed in.  Firebase says so first;      *)
(* AuthBloc (lib/bloc/bloc/auth/bloc/auth_bloc.dart) follows it, tells     *)
(* RevenueCat and refreshes the router; PurchasesBloc follows AuthBloc and *)
(* asks RevenueCat for whoever it knows by then.                           *)
(*                                                                         *)
(* The handlers of two changes run concurrently, and the listener on the   *)
(* document of an account that was signed in is never cancelled: a change  *)
(* of it later signs that account in again, as far as the app can tell.    *)
(***************************************************************************)
EXTENDS Naturals

CONSTANTS
  Accounts,     \* user ids
  MaxTasks,     \* bound: suspended handlers
  MaxLogins,    \* bound: presses of a login or sign-up button
  MaxExtras,    \* bound: later versions of user documents, AddPurchase and
                \* RestorePurchases events, failing calls, sign-up pages
                \* pushed over the login page, all together
  None,         \* nobody
  Anonymous     \* RevenueCat's anonymous user

ASSUME SessionAssumption ==
  /\ MaxTasks \in Nat \ {0} /\ MaxLogins \in Nat /\ MaxExtras \in Nat
  /\ None \notin Accounts /\ Anonymous \notin Accounts /\ None # Anonymous
  /\ "stuck" \notin Accounts

(* Slots for suspended handlers. *)
Tasks == 1..MaxTasks

(* What a handler awaits: AuthUserChanged first, then those of PurchasesBloc. *)
Changing == {"isAnonymous", "logIn", "logOut", "emit"}
Buying == {"getCustomerInfo", "getOfferings", "purchase", "restore", "linger"}

Task == [at : {"idle"} \cup Changing \cup Buying,
         who : Accounts \cup {None, Anonymous}]
NoTask == [at |-> "idle", who |-> None]

VARIABLES
  (* Firebase and RevenueCat *)
  authUser,     \* FirebaseAuth's current user
  users,        \* accounts that have a document
  due,          \* accounts whose document has a snapshot for the app
  listening,    \* accounts whose document the app listens to
  revCat,       \* the user RevenueCat knows
  (* the app *)
  auth,         \* AuthBloc's state: "unknown", None or an account
  purchases,    \* PurchasesBloc's state, "absent" before its first use
  subscriber,   \* whose CustomerInfo PurchasesLoaded has
  login,        \* LoginCubit's status
  signIns,      \* its calls of signInWithGoogle that are under way
  signUp,       \* the account SignUpCubit has signed up, None before, or
                \* "stuck": its call has failed
  page,         \* "signup", "login", "pushed" (sign-up over login) or "home"
  onboarded,    \* initScreen in the preferences
  redirect,     \* loggedIn as read by a redirect that waits, or "none"
  task,
  (* bounds and history *)
  logins, extras,
  crossed,      \* a change met another account's
  failed,       \* a call for the last change failed
  outdated      \* an answer about another account was on its way at a load

external == <<authUser, users, due, listening>>
shop == <<purchases, subscriber>>
nav == <<login, signIns, signUp, page, onboarded>>
bounds == <<logins, extras>>
history == <<crossed, failed, outdated>>
vars == <<external, revCat, auth, shop, nav, redirect, task, bounds, history>>

TypeOK ==
  /\ authUser \in Accounts \cup {None}
  /\ users \subseteq Accounts /\ due \subseteq listening /\ listening \subseteq Accounts
  /\ revCat \in Accounts \cup {Anonymous}
  /\ auth \in Accounts \cup {None, "unknown"}
  /\ purchases \in {"absent", "Loading", "Loaded", "Updated", "Failed"}
  /\ subscriber \in Accounts \cup {None, Anonymous}
  /\ purchases = "Loaded" => subscriber # None
  /\ login \in {"initial", "submitting", "success", "error"}
  /\ signIns \in 0..MaxLogins
  /\ signUp \in Accounts \cup {None, "stuck"}
  /\ page \in {"signup", "login", "pushed", "home"}
  /\ onboarded \in BOOLEAN
  /\ redirect \in {"none", "in", "out"}
  /\ task \in [Tasks -> Task]
  /\ logins \in 0..MaxLogins /\ extras \in 0..MaxExtras
  /\ crossed \in BOOLEAN /\ failed \in BOOLEAN /\ outdated \in BOOLEAN

(* A first start; the accounts in users have signed up before, elsewhere. *)
Init ==
  /\ authUser = None
  /\ users \in SUBSET Accounts
  /\ due = {} /\ listening = {}
  /\ revCat = Anonymous
  /\ auth = "unknown"
  /\ purchases = "absent" /\ subscriber = None
  /\ login = "initial" /\ signIns = 0
  /\ signUp = None
  /\ page = "signup"
  /\ onboarded = FALSE
  /\ redirect = "none"
  /\ task = [t \in Tasks |-> IF t = 1 THEN [at |-> "isAnonymous", who |-> None]
                                       ELSE NoTask]
  /\ logins = 0 /\ extras = 0
  /\ crossed = FALSE /\ failed = FALSE /\ outdated = FALSE

-----------------------------------------------------------------------------
(* Helpers. *)

(* A handler starts in the first slot that is free. *)
Free(t) == task[t].at = "idle" /\ \A s \in 1..(t - 1) : task[s].at # "idle"

Await(t, at, who) == task' = [task EXCEPT ![t] = [at |-> at, who |-> who]]
End(t) == task' = [task EXCEPT ![t] = NoTask]

(* userChanges gives a: the app listens to a's document, for good. *)
ListenTo(a) ==
  /\ listening' = listening \cup {a}
  /\ due' = IF a \in users THEN due \cup {a} ELSE due

(* History: a change to who starts while user is signed in. *)
StartChange(who, user) ==
  /\ crossed' = (\/ who # user
                 \/ \E t \in Tasks : task[t].at \in Changing /\ (task[t].who # who \/ crossed))
  /\ failed' = FALSE

-----------------------------------------------------------------------------
(* Signing in and out. *)

(* Firebase has a new user, and a change of another account may be under way. *)
SignsIn(a) ==
  /\ authUser' = a
  /\ ListenTo(a)
  /\ crossed' = (\/ crossed
                 \/ \E t \in Tasks : task[t].at \in Changing /\ task[t].who \notin {None, a})

(* The button of the login page, and the three answers to its call. *)
logInWithGoogle ==
  /\ logins < MaxLogins
  /\ page = "login" /\ login # "submitting"
  /\ logins' = logins + 1
  /\ login' = "submitting" /\ signIns' = signIns + 1
  /\ UNCHANGED <<external, revCat, auth, shop, signUp, page, onboarded, redirect, task,
                 extras, history>>

signInWithGoogle(a) ==
  /\ signIns > 0
  /\ SignsIn(a)
  /\ login' = "success" /\ signIns' = signIns - 1
  /\ UNCHANGED <<users, revCat, auth, shop, signUp, page, onboarded, redirect, task,
                 bounds, failed, outdated>>

(* A call that signs nobody in leaves this status. *)
SignsNobodyIn(status) ==
  /\ signIns > 0 /\ extras < MaxExtras
  /\ extras' = extras + 1
  /\ login' = status /\ signIns' = signIns - 1
  /\ UNCHANGED <<external, revCat, auth, shop, signUp, page, onboarded, redirect, task,
                 logins, history>>

(* It rethrows and nothing catches it: the call is over, the status as it was. *)
signInWithGoogleFails == SignsNobodyIn(login)

signInWithGoogleNull == SignsNobodyIn("error")

(* The sign-up page: before onboarding, or pushed over the login page. *)
OnSignUp == page \in {"signup", "pushed"}

PressSignUp ==
  /\ page = "login"
  /\ extras < MaxExtras
  /\ extras' = extras + 1
  /\ page' = "pushed"
  /\ UNCHANGED <<external, revCat, auth, shop, login, signIns, signUp, onboarded, redirect,
                 task, logins, history>>

Back ==
  /\ page = "pushed"
  /\ page' = "login"
  /\ UNCHANGED <<external, revCat, auth, shop, login, signIns, signUp, onboarded, redirect,
                 task, bounds, history>>

(* Sign-up: the account, then its document. *)
signUpWithGoogle(a) ==
  /\ logins < MaxLogins
  /\ OnSignUp /\ signUp = None
  /\ logins' = logins + 1
  /\ SignsIn(a)
  /\ signUp' = a
  /\ UNCHANGED <<users, revCat, auth, shop, login, signIns, page, onboarded, redirect, task,
                 extras, failed, outdated>>

(* It swallows what is thrown, and the buttons are gone with the status. *)
signUpWithGoogleFails ==
  /\ logins < MaxLogins /\ extras < MaxExtras
  /\ OnSignUp /\ signUp = None
  /\ logins' = logins + 1 /\ extras' = extras + 1
  /\ signUp' = "stuck"
  /\ UNCHANGED <<external, revCat, auth, shop, login, signIns, page, onboarded, redirect,
                 task, history>>

StartOnboarding ==
  /\ signUp \in Accounts \ users
  /\ users' = users \cup {signUp}
  /\ due' = due \cup {signUp}
  /\ UNCHANGED <<authUser, listening, revCat, auth, shop, nav, redirect, task,
                 bounds, history>>

(* "No thanks.", a purchase, or "Already have an account?": initScreen is set,
   and the page goes to '/' or '/login', through the redirect.             *)
FinishOnboarding ==
  /\ OnSignUp
  /\ signUp \in users \cup {None}
  /\ onboarded' = TRUE
  /\ page' = IF signUp = None THEN "login" ELSE "home"
  /\ redirect' = IF auth \in Accounts THEN "in" ELSE "out"
  /\ UNCHANGED <<external, revCat, auth, shop, login, signIns, signUp, task, bounds, history>>

(* LoginCubit's logout, on the settings page. *)
logout(t) ==
  /\ page = "home" /\ authUser # None
  /\ Free(t)
  /\ authUser' = None
  /\ login' = "initial"
  /\ Await(t, "isAnonymous", None)
  /\ StartChange(None, None)
  /\ UNCHANGED <<users, due, listening, revCat, auth, shop, signIns, signUp, page,
                 onboarded, redirect, bounds, outdated>>

(* A document the app listens to, or will, is written by somebody. *)
DocumentChanges(a) ==
  /\ extras < MaxExtras
  /\ a \in users \cap listening
  /\ extras' = extras + 1
  /\ due' = due \cup {a}
  /\ UNCHANGED <<authUser, users, listening, revCat, auth, shop, nav, redirect, task,
                 logins, history>>

-----------------------------------------------------------------------------
(* AuthBloc. *)

AuthUserChanged(t, a) ==
  /\ a \in due
  /\ Free(t)
  /\ due' = due \ {a}
  /\ Await(t, "isAnonymous", a)
  /\ StartChange(a, authUser)
  /\ UNCHANGED <<authUser, users, listening, revCat, auth, shop, nav, redirect,
                 bounds, outdated>>

(* Mutant: RevenueCat is never told that the user left. *)
StaysKnown(t) ==
  /\ task[t].at = "isAnonymous"
  /\ Await(t, IF task[t].who # None THEN "logIn" ELSE "emit", task[t].who)
  /\ UNCHANGED <<external, revCat, auth, shop, nav, redirect, bounds, history>>

(* Nobody: RevenueCat is told unless it knows nobody, by this answer. *)
isUserAnonymous(t) ==
  /\ task[t].at = "isAnonymous"
  /\ Await(t, IF task[t].who # None THEN "logIn"
              ELSE IF revCat # Anonymous THEN "logOut" ELSE "emit", task[t].who)
  /\ UNCHANGED <<external, revCat, auth, shop, nav, redirect, bounds, history>>

loginToRevCat(t) ==
  /\ task[t].at = "logIn"
  /\ revCat' = task[t].who
  /\ Await(t, "emit", task[t].who)
  /\ UNCHANGED <<external, auth, shop, nav, redirect, bounds, history>>

logoutOfRevCat(t) ==
  /\ task[t].at = "logOut" /\ revCat # Anonymous
  /\ revCat' = Anonymous
  /\ Await(t, "emit", None)
  /\ UNCHANGED <<external, auth, shop, nav, redirect, bounds, history>>

(* RevenueCat refuses: also to log out its anonymous user.  isUserAnonymous
   swallows it and answers null, the others throw out of the handler.      *)
RevCatFails(t) ==
  LET certain == task[t].at = "logOut" /\ revCat = Anonymous IN
  /\ task[t].at \in {"isAnonymous", "logIn", "logOut"}
  /\ certain \/ extras < MaxExtras
  /\ extras' = IF certain THEN extras ELSE extras + 1
  /\ failed' = TRUE
  /\ IF task[t].at = "isAnonymous"
     THEN Await(t, IF task[t].who = None THEN "emit" ELSE "logIn", task[t].who)
     ELSE End(t)
  /\ UNCHANGED <<external, revCat, auth, shop, nav, redirect, logins,
                 crossed, outdated>>

(* PurchasesBloc's LoadPurchases up to its first await, in t's slot. *)
StartLoad(t) ==
  /\ purchases' = "Loading"
  /\ Await(t, "getCustomerInfo", None)
  /\ outdated' = (\E s \in Tasks \ {t} : task[s].at = "getOfferings"
                                           /\ (task[s].who # revCat \/ outdated))

(* Mutant: PurchasesBloc does not listen to AuthBloc. *)
PurchasesDeaf(t) ==
  LET who == task[t].who IN
  /\ task[t].at = "emit"
  /\ auth' = who
  /\ redirect' = IF who # None THEN "in" ELSE "out"
  /\ End(t)
  /\ UNCHANGED <<external, revCat, shop, nav, bounds, history>>

(* Mutant: the router is refreshed before the state is emitted. *)
RefreshFirst(t) ==
  LET who == task[t].who IN
  /\ task[t].at = "emit"
  /\ auth' = who
  /\ redirect' = IF auth \in Accounts THEN "in" ELSE "out"
  /\ IF who # None /\ purchases # "absent" THEN StartLoad(t)
     ELSE End(t) /\ UNCHANGED <<purchases, outdated>>
  /\ UNCHANGED <<external, revCat, subscriber, nav, bounds, crossed, failed>>

(* The state is emitted and the router refreshed; PurchasesBloc hears of it. *)
EmitAuthState(t) ==
  LET who == task[t].who IN
  /\ task[t].at = "emit"
  /\ auth' = who
  /\ redirect' = IF who # None THEN "in" ELSE "out"
  /\ IF who # None /\ purchases # "absent" THEN StartLoad(t)
     ELSE End(t) /\ UNCHANGED <<purchases, outdated>>
  /\ UNCHANGED <<external, revCat, subscriber, nav, bounds, crossed, failed>>

(* The redirect reads the status, waits for the preferences and answers; a
   later refresh takes its place.  A pushed page has the location of the one
   below it, '/login'.                                                     *)
Redirect ==
  /\ redirect # "none"
  /\ redirect' = "none"
  /\ page' = IF page = "signup" THEN page
             ELSE IF ~onboarded THEN "signup"
             ELSE IF redirect = "in" THEN "home"
             ELSE IF page = "home" THEN "login" ELSE page
  /\ UNCHANGED <<external, revCat, auth, shop, login, signIns, signUp, onboarded, task,
                 bounds, history>>

-----------------------------------------------------------------------------
(* PurchasesBloc. *)

(* The first widget that reads the bloc creates it. *)
LoadPurchases(t) ==
  /\ purchases = "absent" /\ page # "login"
  /\ Free(t)
  /\ StartLoad(t)
  /\ UNCHANGED <<external, revCat, auth, subscriber, nav, redirect, bounds, crossed,
                 failed>>

getCustomerInfo(t) ==
  /\ task[t].at = "getCustomerInfo"
  /\ Await(t, "getOfferings", revCat)
  /\ UNCHANGED <<external, revCat, auth, shop, nav, redirect, bounds, history>>

(* Mutant: the null answer is taken for an answer. *)
NullAccepted(t) ==
  /\ task[t].at = "getCustomerInfo"
  /\ extras < MaxExtras
  /\ extras' = extras + 1
  /\ failed' = TRUE
  /\ Await(t, "getOfferings", None)
  /\ UNCHANGED <<external, revCat, auth, shop, nav, redirect, logins, crossed, outdated>>

(* null, which the handler dereferences. *)
getCustomerInfoFails(t) ==
  /\ task[t].at = "getCustomerInfo"
  /\ extras < MaxExtras
  /\ extras' = extras + 1
  /\ failed' = TRUE
  /\ End(t)
  /\ UNCHANGED <<external, revCat, auth, shop, nav, redirect, logins,
                 crossed, outdated>>

EmitPurchasesLoaded(t) ==
  /\ task[t].at = "getOfferings"
  /\ purchases' = "Loaded" /\ subscriber' = task[t].who
  /\ End(t)
  /\ UNCHANGED <<external, revCat, auth, nav, redirect, bounds, history>>

Buy(t, at) ==
  /\ extras < MaxExtras
  /\ purchases # "absent" /\ page # "login"
  /\ Free(t)
  /\ extras' = extras + 1
  /\ purchases' = "Loading"
  /\ Await(t, at, None)
  /\ UNCHANGED <<external, revCat, auth, subscriber, nav, redirect, logins, history>>

AddPurchase(t) == Buy(t, "purchase")
RestorePurchases(t) == Buy(t, "restore")

(* Bought or not, the purchases are loaded again two seconds later. *)
makePurchase(t) ==
  /\ task[t].at = "purchase"
  /\ purchases' \in {"Updated", "Failed"}
  /\ Await(t, "linger", None)
  /\ UNCHANGED <<external, revCat, auth, subscriber, nav, redirect, bounds, history>>

(* After restorePurchases, PurchasesUpdated lasts until the load starts. *)
Reload(t) ==
  /\ task[t].at \in {"linger", "restore"}
  /\ StartLoad(t)
  /\ UNCHANGED <<external, revCat, auth, subscriber, nav, redirect, bounds, crossed,
                 failed>>

-----------------------------------------------------------------------------
Resume(t) ==
  \/ \E a \in Accounts : AuthUserChanged(t, a)
  \/ isUserAnonymous(t)
  \/ loginToRevCat(t)
  \/ logoutOfRevCat(t)
  \/ EmitAuthState(t)
  \/ getCustomerInfo(t)
  \/ EmitPurchasesLoaded(t)
  \/ makePurchase(t)
  \/ Reload(t)

Press(t) ==
  \/ logout(t)
  \/ LoadPurchases(t)
  \/ AddPurchase(t)
  \/ RestorePurchases(t)

Next ==
  \/ \E t \in Tasks : Resume(t) \/ Press(t) \/ RevCatFails(t) \/ getCustomerInfoFails(t)
  \/ logInWithGoogle
  \/ \E a \in Accounts : signInWithGoogle(a)
  \/ signInWithGoogleFails
  \/ signInWithGoogleNull
  \/ PressSignUp
  \/ Back
  \/ \E a \in Accounts : signUpWithGoogle(a)
  \/ signUpWithGoogleFails
  \/ StartOnboarding
  \/ FinishOnboarding
  \/ \E a \in Accounts : DocumentChanges(a)
  \/ Redirect

(* Suspended handlers, snapshots and redirects get their turn, and a login
   gets an answer; nobody has to press anything.                           *)
Fairness ==
  /\ \A t \in Tasks : WF_vars(Resume(t))
  /\ WF_vars(\/ \E a \in Accounts : signInWithGoogle(a)
             \/ signInWithGoogleFails
             \/ signInWithGoogleNull)
  /\ WF_vars(Redirect)

Spec == Init /\ [][Next]_vars /\ Fairness

-----------------------------------------------------------------------------
(* Properties. *)

Unchanging == \A t \in Tasks : task[t].at \notin Changing
Settled == due = {} /\ Unchanging

(* When the changes have been handled, the app and RevenueCat agree with
   Firebase about who is signed in: nobody buys for, or looks into, another
   account.  It holds unless changes of two accounts met or a call failed. *)
SessionAgrees ==
  Settled /\ ~crossed /\ ~failed =>
    IF authUser = None THEN auth = None /\ revCat = Anonymous
    ELSE authUser \in users => auth = authUser /\ revCat = authUser

(* Why.  The account that is signed in still gets a change of its own, *)
Awaited == authUser # None /\ authUser \in due \cup (Accounts \ users)

(* or has one under way that will leave RevenueCat right, *)
Known(who) == IF who = None THEN Anonymous ELSE who

UnderWay ==
  \E t \in Tasks : /\ task[t].at \in Changing /\ task[t].who = authUser
                   /\ task[t].at = "emit" => revCat = Known(authUser)

(* or everybody agrees; and changes that did not meet are all of one account,
   the present one or, before its first change, nobody.                    *)
Agreed == auth = authUser /\ revCat = Known(authUser)

OneChange ==
  /\ \A s, t \in Tasks : task[s].at \in Changing /\ task[t].at \in Changing =>
                          task[s].who = task[t].who
  /\ \A t \in Tasks : task[t].at \in Changing =>
                       task[t].who = authUser \/ (task[t].who = None /\ Awaited)

TasksOK ==
  \A t \in Tasks :
    /\ task[t].at \in Changing => task[t].who \in Accounts \cup {None}
    /\ task[t].at = "logIn" => task[t].who \in Accounts
    /\ task[t].at = "logOut" => task[t].who = None
    /\ task[t].at = "getOfferings" => task[t].who # None

SessionInv ==
  /\ TypeOK
  /\ TasksOK
  /\ authUser \in listening \cup {None} /\ signUp \in listening \cup {None, "stuck"}
  /\ signIns <= logins
  /\ ~crossed => OneChange
  /\ ~crossed /\ ~failed => Awaited \/ UnderWay \/ Agreed

(* The subscription the pages go by is that of the account signed in whenever
   no change is under way, also while purchases are being loaded or made.  It
   holds unless changes of two accounts met, a call failed, or an answer about
   another account was on its way when the last load started.              *)
SubscriptionIsOwn ==
  (/\ Unchanging /\ ~crossed /\ ~failed /\ ~outdated
   /\ auth \in Accounts /\ purchases = "Loaded") => subscriber = auth

(* Why.  RevenueCat knows the account that AuthBloc is about to emit, and the
   one it has emitted when no change is under way; nobody asks for purchases
   before the bloc exists; then all answers on their way are about the account. *)
EmitsKnown ==
  \A t \in Tasks : task[t].at = "emit" /\ task[t].who # None => revCat = task[t].who

OwnAnswers ==
  /\ purchases = "Loaded" => subscriber = auth
  /\ \A t \in Tasks : task[t].at = "getOfferings" => task[t].who = auth

SubscriberInv ==
  /\ purchases = "absent" => \A t \in Tasks : task[t].at \notin Buying
  /\ ~crossed => EmitsKnown
  /\ ~crossed /\ ~failed /\ Unchanging /\ auth \in Accounts =>
       revCat = auth /\ (~outdated => OwnAnswers)

(* A login ends on the home page, unless the account has no document yet, or
   the calls are over and signed nobody in (one that threw leaves the status
   submitting, and the button dead).  Changes of two accounts that met, or a
   call for the change that failed, may keep the app on the login page.    *)
LoginReachesHome ==
  (signIns > 0)
    ~> (\/ page = "home"
        \/ authUser \in Accounts \ users
        \/ signIns = 0 /\ authUser = None
        \/ crossed \/ failed)

(* Signing out ends on the login page, with or without the sign-up page over
   it, under the same two exceptions.                                      *)
LogoutReachesLogin ==
  (authUser = None /\ onboarded)
    ~> (page \in {"login", "pushed"} \/ authUser # None \/ crossed \/ failed)
=============================================================================
