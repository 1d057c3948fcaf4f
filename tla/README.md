# GottaGo: a TLA+ model

GottaGo (package `leggo`) is a Flutter app in which users keep lists of places,
invite friends to them and mark places as visited. All shared state is in
Firestore; the app of every user is a set of blocs whose event handlers are
asynchronous functions. `package:bloc` runs the handlers of one bloc
concurrently unless told otherwise (nothing in `lib/` does), so two handlers
interleave at every `await`, within an app and between apps. There are no
Firestore transactions and no batched writes in the code: a method that has to
change two documents awaits two writes.

This directory holds TLA+ modules of the app's own logic, the TLC configurations
that check them, and TLAPS proofs. `PROJECT.json` maps every definition to the
lines it models and lists the runs, mutants, findings, hazards and theorems.

## Inventory

| Component | State | Operations | Interacts with | What makes it correct | Module |
|---|---|---|---|---|---|
| Place lists (`repository/place_list_repository.dart`) | `place_lists/{l}` with `listOwnerId`, `contributorIds`; `users/{u}.placeListIds` | create, update, remove, add contributor, invite | invites, user documents, profile | both sides of a membership agree; nobody gets a list they did not ask for; a deleted list stays deleted; an owned list is reachable | `SharedLists` |
| Invites (`repository/invite_repository.dart`) | `users/{u}/invites/{i}` of both parties | send, accept, decline, delete | place lists, the inviter's mailbox | an accepted invite leaves the mailbox; a repeated one does no harm | `SharedLists` |
| Home page (`SavedListsBloc`) | the bloc's state, the cards drawn | load, add, remove, update, accept | `ProfileBloc`'s snapshots, place lists | the page does not stay loading; the cards follow the account | `SavedLists` |
| Inbox (`InviteInboxBloc`) | the bloc's state and list, its subscriptions | load, accept, decline, dismiss, delete | the mailbox, calls nobody awaits | the inbox comes back to its list | `Inbox` |
| Places of a list (`EditPlacesBloc`, four writes of `PlaceListRepository`) | `places` and `visited_places` of a list; the bloc's state and `selectedPlaces` | add, delete, mark visited, restore, each for a card or for the selection | page filter (`ListSortCubit`), `SavedPlacesBloc` | no place is lost; only confirmed places are deleted; the page leaves its loading state | `EditPlaces`, `PlaceLedger` |
| List page (`SavedPlacesBloc`) | the bloc's state; `placeStream`, `listOwner`, `_currentPlaceList` | load, load visited, add | `SavedListsBloc`, listeners of earlier loads | the load ends; the page shows the opened list and the filter's places | `ListPage` |
| Usernames (`SettingsBloc`, `OnboardingBloc`, `DatabaseRepository`) | `usernames/{n}`, `users/{u}`; the `User` objects of three blocs | sign up, upload, check, register, deregister, rename, delete account | invites (lookup by name), `ProfileBloc` | a name leads to its user, and is free again when nobody has it | `Usernames` |
| Session (`AuthBloc`, `PurchasesBloc`, `LoginCubit`, `SignUpCubit`, router) | signed-in user, RevenueCat's user, subscription, page | sign up, sign in, sign out, load, buy, restore, redirect | every bloc through listeners | everybody means the account that is signed in; login and logout reach their pages | `Session` |
| Explore (`ExploreBloc`, two pages) | state with its place, ratings, history | ask, rate, look, save | chat and Places APIs | nothing is suggested twice; the details page has its place; asking ends | `Explore` |
| Search (`AutocompleteBloc`, `PlaceBloc`) | last answer | request, answer | Places API | nothing the code promises | none |
| Cubits for the wheel, the viewed place, the slideshow | one value | assign | pages | nothing to check | none |

What is hard here: handlers that read an object, await, and write the whole
object back; two-document updates with a crash or a refused write between them;
snapshot listeners that are never cancelled; fixed delays (500 ms, 600 ms, 1 s,
2 s) used as timeouts; loops over a list other handlers change; states that only
another event ends. `PROJECT.json` has them as `hazards`, at their lines.

## Modules

### SharedLists

The Firestore documents behind shared lists and the app of each user. A
repository method is an action for its first write and a `task` that performs
the later ones, one step each, so that every interleaving of the writes of up to
`|Tasks|` handlers happens.

* `placeListIds`, `place_lists`, `listOwnerId`, `contributorIds`, `invites` are the
  documents. A Firestore `update` of a missing document is refused, a `set`
  creates it.
* `profile`, `screen`, `cards` are what an app has read and may be stale:
  `ProfileBloc`'s `User`, the `PlaceList` objects of pages and dialogs, the
  `Invite` objects of the inbox. `LoadProfile`, `LoadSavedLists`, `LoadInvites`
  and `InviteSnapshot` refresh them at any time; every user action starts from
  them, not from the documents.
* `listeners` are the subscriptions `inviteContributorToList` never cancels;
  `Notify` gives each of them something to do (`fresh`) whenever the user
  document they watch changes, and `sendInvite` is what they do.
* `addContributorToList` waits 500 ms for the user's own document: `UserInTime`
  and `UserTooLate` are the two ways this ends.
* `WriteRefused` is a `FirebaseException` at any later write, `Restart` a killed
  app: its suspended handlers and everything it had read are gone.
* `consented` is history: who created or accepted which list.

Abstracted: a list's name, icon and dates; users' names and pictures (a user is
invited by id, the lookup of the username is part of `inviteContributorToList`); the
loading of all lists is one step; one device per user; account deletion.
`removeContributorFromList` has no caller and is left out.

### EditPlaces

One list's two collections and the devices that edit them.

* `places`, `visited_places`; `filter` is the page's `ListSortCubit`, `shown` the
  places whose cards it shows, `mode` and `selectedPlaces` are `EditPlacesBloc`'s.
* A handler awaiting a write is a `task` with pc `"write"` (the delete) or `"set"`
  (the second write of `markPlaceVisited` and `restoreVisitedPlace`); `"linger"` is the
  two-second delay before `EditPlacesInitial`.
* `MoveNext` is the Dart list iterator: it throws when the list's *length*
  differs from the one it started with, and otherwise takes the element now at
  its index. The batch handlers walk `selectedPlaces` itself.
* `Snapshot` allows the unvisited places under the filter "Visited", because
  `AddPlace` and an edited list dispatch `LoadPlaces` whatever the filter is; the
  card then offers the buttons of the other collection.
* The cards stay as they are after `EditPlacesSubmitted` (`Submit`): the page's listener
  would reload them, but it dereferences `currentPlaceList`, the `placeList` of
  `SavedListsBloc`'s state (`category_page.dart:121`, `201-213`), which no state of that bloc
  sets, and throws. The batch buttons dereference the same null before they add
  their event (`453`, `459`, `491`), so at this commit a batch starts only if the event is
  added otherwise. The module is about the bloc and keeps its batch events: they are
  what the buttons are there for, and their handlers walk a list others change.
* `saved`, `confirmed`, `deleted`, `interrupted` are history variables.

Abstracted: the contents of a place; `EditButton`'s check that the page has some
place; `PlaceAdded`/`PlaceRemoved`, emitted and replaced within one handler;
leaving the page (the writes of its handlers go on without their states).
`FinishEditing` is never dispatched.

### PlaceLedger

What a list promises about its places wherever they are: `Keep` (a place is
added, starts or ends a move), `Delete` (only at rest), `Lose` (one more fault,
and only what it takes out of transit). `EditPlaces` implements it under
`kept <- places \cup visited_places \cup InTransit(Tasks)`,
`transit <- InTransit(Tasks)`.

### SavedLists

One user's account and the home page. `documents`, `placeListIds` are Firestore's,
`changed` says that the user's document has a snapshot to deliver, `profile` is what
`ProfileBloc` had last, `savedLists` the bloc's state, `cards` what the page drew last.
`AddList` and `RemoveList` leave the bloc in `SavedListsLoading`; only
`ProfileSnapshot` starts the load that ends it, and a snapshot follows only if the
document changed. A load reads the ids once and then one document after the other
(`getMyPlaceListsFuture`); a missing one throws. `getPlaceLists` is the stream of the
page: an error draws no lists, an empty account says nothing. `Refused` is a write, or a
get of a load, that Firestore refuses. `vain` records a handler that ended with nothing to
follow.

### Inbox

One mailbox and `InviteInboxBloc`. A `Load` counts the mailbox and subscribes; its
subscription lasts, so several loads append to the bloc's one list. `aliased` says that
the emitted state holds that very list, in which case an appended invite makes an equal
state and nothing is emitted. A count that fails is rethrown and nobody catches it
(`getInviteCountFails`), nor an error of the stream (`getInvitesFails`): the load is over
and its `InviteInboxLoading` stays; `LoadFailed` says that this is the newest load. `call` are repository calls nobody awaits; the reload
comes two seconds later whatever they have done. The constructor's own listener
builds a `LoadInvites` object and does not add it, so it has no action.

### ListPage

`SavedPlacesBloc` with its shared fields. `timers` are the handlers that wait, and
`MayFire` is the order of Dart's timers: one that started earlier and waits no longer
fires first. `StartLoad` is the part of a load before its delay, `EmitLoaded` the part
after it, which takes whatever the fields hold. The listeners of a load go on
(`ListSnapshot`, `OwnerSnapshot`, `DocumentChanges`). `strayed` and `unfiltered` record
loads of another list, or of the unvisited places under the filter "Visited". The reload
after `EditPlacesSubmitted` has no action, because its event is never added (see
`EditPlaces`).

### Usernames

The documents `usernames/{n}` and `users/{u}` and the app of each user. A change of name
is a check, a deregistration, a registration and an update, each a step; the text
field and `ProfileBloc`'s user are read after the check. `EchoSnapshot` is the listener
`UpdateUserProfilePicture` leaves behind: it registers the name of every later version
of the document and writes the document back. `Restart` is a killed or reinstalled app.
`uploadImageFails` is an upload whose failure is swallowed: the listener is installed all
the same.

Two history sets say what the code lets happen to a name, and nothing else is excepted.
`disturbed`, what can part a name from the account whose document has it:

* `Meets`: two handlers overlap that write the name, or the document of the same user;
* `Outdates`: the name is registered while another user holds the answer that it is free;
* `Takes`: the text was changed after the check, to a name somebody else has
  (`settings.dart:343`, `profile_info.dart:131`; no overlap is needed);
* `Frees`: the old name, from a profile that is out of date, is somebody else's by now;
* `Lost`: a change was cut off after it deregistered the name still in the document;
* a profile was saved (`UpdateName`) with a name no longer registered to its user.

`left`, what can leave a name registered to an account that does not use it: `Leaves` (the
sign-up deregisters nothing, `onboarding_bloc.dart:39-43`; the settings deregister what
`ProfileBloc`'s copy says), `Unused` (a change cut off between registration and update), and
signing up again. A crash or a refused write at any other point, an echo that meets no
change, a failed upload and an account deletion excuse nothing. TLC finds a property
violated when any one of these causes is dropped (for `Frees` with four changes).

### Session

Firebase, RevenueCat and the app on one device. `AuthUserChanged` runs as
`isUserAnonymous`, `loginToRevCat` or `logoutOfRevCat`, and `EmitAuthState`, with an
await before each; `PurchasesBloc` hears of an account and asks RevenueCat for whoever
it knows by then. The redirect is two steps: it reads the status, waits for the
preferences, answers. `listening` only grows, as the listeners on user documents do.

A press of the login button is one call (`signIns`), and the call has one of three
answers: an account, null (`LoginStatus.error`) or an exception, which the
repository rethrows and `LoginCubit` does not catch. After the exception the call is
over and the status stays `submitting`, in which a press does nothing (`login_cubit.dart:34`). `PressSignUp` pushes the sign-up
page over the login page. `signUp` is the account `SignUpCubit` has signed up; a sign-up
that fails is swallowed, and its page has no button left (`"stuck"`). Signing up with an
account that has a document already rewrites the document, which is a
`DocumentChanges`. Of go_router the model assumes that a pushed page keeps the
location `/login` of the page below it, on which the redirect decides.

`crossed`, `failed` and `outdated` record the ways two accounts can meet.

### Explore

`ExploreBloc` and its pages: a load awaits three requests (the two at Google are one
step), a save one. The ratings are lists of the bloc the page edits directly. The
model's ChatGPT answers with any place, also one it was asked to leave out. A frame
passes between two presses: a second tap on a button before the page has been drawn
again without it is not modelled.

### The MC modules

The TLC instances: the symmetry sets, where values are interchangeable and the run
has no liveness property. `MC_Session` has liveness properties and drops by hand, of the
two starts with one account signed up, the one that is the mirror image of the other
(`MCSpec`).

## Runs

| Run | Checks | Bounds |
|---|---|---|
| `SL_safety` | `TypeOK`, `NoUninvitedAccess`, `MemberIsContributor`, `OwnedListReachable`, `DeletedStaysDeleted` | 2 users, 1 list, 2 handlers, 1 send, 1 edit or profile write, 1 fault |
| `SL_live` | `AcceptSettles` under `FairSpec` | 2 users, 1 list, 2 handlers, no fault, edit or profile write |
| `SL_v_ids` | violated: `IdsResolve` | |
| `EP_safety` | `TypeOK`, `NoPlaceLost`, `OnlyConfirmedDeletes`, `KeepsLedger` | 1 device, 2 places, 2 handlers, 1 session, selections of 2, 1 fault |
| `EP_live` | `EditSettles` under `FairSpec` | 1 device, 1 place, 2 handlers, 2 sessions, no faults |
| `UN_safety` | `TypeOK`, `NameLeadsToOwner`, `NameIsInUse`, `UndisturbedUnique` | 2 users, 2 names, 2 handlers, 3 changes, 1 other save, 1 picture, 1 fault (crash, reinstallation, refused write or failed upload) |
| `UN_v_taken` | violated: `NamesAreUnique`, by two sign-ups | 2 users, 1 name, 2 handlers, 2 changes, no fault |
| `LI_live` | `TypeOK`, `NotLeftLoading`, `CardsFollowAccount`, `AcceptedListIsShown` | an own and a shared list, 2 handlers, 1 reload, 1 edit, 1 refused write or get |
| `IN_live` | `TypeOK`, `NeverStuck`, `InboxSettles` | 2 invites, one of them sent, 2 calls, 3 loads, each of which may fail |
| `LP_loads` | `TypeOK`, `ShowsOpenedList`, `FilterIsShown`, `PageSettles` | 2 lists, 3 waiting handlers, 5 events, 1 later document |
| `SE_session` | `TypeOK`, `SessionAgrees`, `SubscriptionIsOwn`, `LoginReachesHome`, `LogoutReachesLogin` | 2 accounts, 2 handlers, 2 logins, 1 extra event, failure or pushed sign-up page |
| `EX_explore` | `TypeOK`, `SeenIsExcluded`, `DetailsHaveAPlace`, `ExploreSettles` | 2 places, 2 handlers, 4 requests, 2 saves |

Two handlers are the smallest number that can overlap, and every conflict in
this code is between two of them; two users are the two parties of an invite, and
two accounts the least that can be confused. `LP_loads` has three handlers because
three delays differ. One device suffices in `EditPlaces`, because its bloc runs the
handlers of two cards at once and the documents do not know who writes them. One
list suffices for the membership properties, whose violations are about one list;
`EP_safety` has a second place because a crash may interrupt two moves, and
selections of two because only a batch of two has an await inside its loop. One
fault stands for each place a crash can hit. Five events let a page be opened twice
with a filter and an added place in between. What the bounds cut off is what the
theorems are for. Deadlock is not checked where the bounded system may stop for
good: its presses are used up and nothing is under way.

The exceptions in the properties are part of what they say. Each was found by
TLC and is a behaviour of the code:

* an edit dialog opened before a friend accepted writes the old `contributorIds`
  back (`MemberIsContributor` holds until a list is edited);
* a second editing session started while a batch delete awaits a write refills the
  list it walks, so that a place nobody asked to delete is deleted
  (`OnlyConfirmedDeletes` holds in the first session);
* a profile write with a `User` object read before `createPlaceList` finished drops the
  new list from the account (`OwnedListReachable` holds until a profile is written back or a handler is lost);
* the inviter is told "accepted" although nothing is added when the user's document
  takes longer than 500 ms, and the listener behind an invite sends it again when the
  invited user's document changes (both are in `SharedLists`; neither lets anybody in
  without consent);
* removing the last list leaves its card; removing a list twice, or a list whose owner
  removed it, leaves the home page loading (`Hindered`, `placeListIds = {}`);
* an invite answered while a load waits for its document leaves the inbox loading
  (`overtaken`), and so does a count or a stream that fails (`LoadFailed`); the second
  invite of a load is not drawn;
* two users get one name, a user is not found under theirs, or a name stays taken by
  nobody, in the ways listed under `Usernames` (`disturbed`, `left`);
* a place added, or a list edited, under the filter "Visited" shows the unvisited places
  under that heading (`unfiltered`); a load started for another list, from Explore or
  after an edit, is shown on the page that is open (`strayed`);
* changes of a session that overlap leave RevenueCat, the app and Firebase with
  different accounts until the next change (`crossed`), as do failing calls to RevenueCat
  (`failed`); a login whose call threw or gave null is over with nobody signed in
  (`signIns = 0 /\ authUser = None`), and after an exception its page stays "submitting";
* a failed save takes the card, and the place of an open details page, away
  (`saveFailed`).

`violation` runs are disagreements between the code and what its comments or texts
say; `findings` in `PROJECT.json` quotes both sides.

**Fairness.** Weak fairness of each suspended handler, of timers, and of the streams a
page listens to: an acknowledged write, an answered request or an elapsed timer
resumes its handler, Firestore acknowledges writes and delivers snapshots once the
device is online, and the event loop does not starve a ready callback. Requests may
be answered by a failure: a login's call gets one of its three answers, and no fairness
asks for the good one or brings back a call that is over. Nothing is assumed of users, of other users' writes, of
faults, or (in `Inbox` and `ListPage`) of calls and documents nobody awaits.

**Mutants.** Each property of a passing run has one in `PROJECT.json`: a version
of a modelled method with a bug it could plausibly have, defined just before the
method. TLC finds the property violated when the mutant takes its place.

## Proofs

For every value of the constants, `SharedListsProofs`, `EditPlacesProofs`,
`SavedListsProofs`, `UsernamesProofs`, `ListPageProofs`, `InboxProofs`, `SessionProofs`
and `ExploreProofs` prove every invariant, and every property of a single step, that a
passing run checks. Each proof has a lemma or a step per action; `Slots` lemmas say
what the table of suspended handlers holds after one of them was written.

* `TypeCorrect`, `EditTypeCorrect`, `ListsTypeCorrect`, `UsernamesTypeCorrect`,
  `ListPageTypeCorrect`, `InboxTypeCorrect`, `SessionTypeCorrect`, `ExploreTypeCorrect`:
  type invariants. `EditPlaces` needs in it that a handler before its second write is
  a move with a known place, `Inbox` that loads done and to come stay within the bound.
* `Consent`: `Spec => []NoUninvitedAccess`. Not inductive alone: a stale profile or a
  stale list on a screen can be written back, so `ConsentInv` demands consent of
  every copy, in documents, apps and suspended handlers, and that an invite one
  can accept is one's own.
* `DeletedForGood`: `Spec => DeletedStaysDeleted`, since every write to a list but
  the first is an `update`, and ids are generated once.
* `Membership`: `Spec => []MemberIsContributor`, by `MemberInv` while there was no edit:
  whoever can still put a list in an account, a handler after its first write or
  a stale profile, finds the user a member already. With edits it is false.
* `OwnersReachTheirLists`: `Spec => []OwnedListReachable`, by `OwnerInv` as long as no user
  document was written back whole and no handler was lost: the account a suspended
  `createPlaceList` will write to is the owner's, and an owner's removal leaves the
  handler behind that deletes the document. Edits, invites and the removals of
  others do not matter.
* `NothingLost`: `Spec => []NoPlaceLost`. The lemmas say what each step does to the
  places kept and in transit (`MoveStarts`, `DeleteHits`, `MoveEnds`, `FaultLoses`,
  `QuietIsQuiet`). The exception for an interrupted move is real: a crash between
  the two writes of `markPlaceVisited` or `restoreVisitedPlace` loses the place, and
  `interrupted` holds only places a fault really lost: not one that a collection or
  another move still has.
* `ImplementsLedger`: `Spec => KeepsLedger`, by the same lemmas: each step maps to a
  step of `PlaceLedger` or leaves it alone.
* `ConfirmedOnly`: `Spec => []OnlyConfirmedDeletes`, by `ConfirmInv` in the first session:
  while a batch handler runs the bloc is not in `EditPlacesStarted`, so the list it
  walks does not change.
* `LoadingEnds`: `Spec => []NotLeftLoading`. `LoadInv` says who will end the loading: a
  snapshot that is due, a handler that will change the account, or a load of lists
  that are all still in it. For the last to stay true when a list is created it
  needs `CreatedOnce`: a document is set, by one handler, before its id is added.
* `NamesLeadToOwners`, `NamesAreInUse`, `UndisturbedNamesAreUnique`: `Spec => []NameLeadsToOwner`,
  `[]NameIsInUse`, `[]UndisturbedUnique`, for the names outside `disturbed` (and, the second,
  outside `left`), whose causes are the lists under `Usernames`. `UsernamesInv` says why a
  handler's knowledge is still true when it writes: two handlers that write the same
  name or the same document have disturbed their names (`ChangesApart`); for the other
  names an answer "free" still holds, the new name is nobody else's until it is
  registered and the old one nobody else's until it is given up (`NamesHeld`), and the
  document has the old or the new name, or one that was left (`NamesLeft`). `TasksOK`
  and `PagesOK` tie handlers and pages to accounts. That a name left behind stays taken
  is what makes the third hold through crashes, sign-up renames and deletions.
  `UN_v_taken` shows one way to two users of one name, `Outdates`; `Takes` is another.
* `OpenedListIsShown`, `FilterAgrees`: `Spec => []ShowsOpenedList`, `Spec => []FilterIsShown`. The
  shown places are always those of the load started last, because every start emits
  `SavedPlacesLoading` and every end takes the shared field (`StreamIsShown`): that is why
  the filter agrees also while older loads wait. For the list it needs the order of
  the timers (`OnTrack`): the load of the opened list is still to end and nothing of
  another list was started after it (`ToCome`), or the others have ended (`Settled`).
* `InboxNeverStuck`: `Spec => []NeverStuck`, the safety half of `InboxSettles`: an inbox that
  shows a message or the spinner has a load to come, or a newest load that has
  something to emit, unless that newest load failed or was overtaken. `InboxInv` needs that
  otherwise the newest load counts, or listens to documents that are all still in the
  mailbox and has had none of them (`NewestLoads`), so that no older load, its failure or
  an unawaited call can end it.
* `SessionsAgree`: `Spec => []SessionAgrees`. `SessionInv`: as long as no two changes met
  and no call failed, the account signed in still gets a change, or has one under
  way that leaves RevenueCat right, or everybody agrees (`Awaited`, `UnderWay`,
  `Agreed`); and all changes under way are of one account (`OneChange`), without
  which the last to end could be another's. It also bounds the calls under way by the
  presses and has the app listen to the account signed up. `SignsInSession` is the
  lemma for the two ways Firebase gets a user.
* `SubscriptionsAreOwn`: `Spec => []SubscriptionIsOwn`, for every state without a change under
  way, loads and purchases under way included. `SubscriberInv` adds to `SessionInv` that
  RevenueCat knows the account a change is about to emit (`EmitsKnown`, from
  `OneChange`) and the one it emitted, and that then all answers on their way are
  about that account (`OwnAnswers`), since the emit starts a load.
* `NothingTwice`, `DetailsSafe`: `Spec => []SeenIsExcluded`, `Spec => []DetailsHaveAPlace`, by
  `ExploreInv`: there is one load at a time, and the bloc is loading while it runs,
  so nothing replaces a card but a press of the button that records it.

The assumptions on constants are the `ASSUME`s of the modules: the bounds are natural
numbers (`MaxTasks` of `Session` not 0, a handler starts with the app; `MaxLoads` and
`MaxTimers` not 0), the "no value" constants are none of the values (in `ListPage` neither
a list nor a stream; in `Session` no account is called `"stuck"`), `Mine` and `Sent` are sets of lists and of invites. Every inductive
invariant was checked by TLC on the run's instance before it was proved.

Only model-checked: the liveness properties (`AcceptSettles`, `EditSettles`,
`CardsFollowAccount`, `AcceptedListIsShown`, `InboxSettles`, `PageSettles`, `LoginReachesHome`,
`LogoutReachesLogin`, `ExploreSettles`), because fairness and `ENABLED` are out of the
prover's reach, and the two violated properties.

## Not modelled

* Search (`AutocompleteBloc`, `PlaceBloc`): one request and one assignment per event. An
  older answer may replace a newer one, and a first request that fails leaves the
  sheet loading; the code promises nothing else, so there is no property to check.
* Layout, wording, pictures, HTTP requests and the parsing of their answers, the
  store's side of a purchase, bug reports (a document nothing reads).
* Methods without a caller: `removeContributorFromList`, `RemovePlace`, `UpdatePlace`,
  `FinishEditing`, `AddPlaceToList`, `ResetProfile`, the e-mail login; the dialog for an
  incomplete profile, which nothing shows.
* `lib/view/icons/icons.dart` (generated), the platform projects, and the vendored
  pods under `ios/Pods` (Firebase, gRPC, BoringSSL, abseil). The C and C++ code of the
  repository, some 950,000 lines, is all of this third-party kind; the app's own logic
  is the Dart code under `lib/`, which is what the map refers to.

## Plan

1. The safety halves of the other liveness properties, as `NeverStuck` is that of
   `InboxSettles`: what is left to come in a state that has to end, for `EditSettles`,
   `AcceptedListIsShown` and `LoginReachesHome`.
2. A composition of `SavedLists` and `Inbox` with the invites of `SharedLists` in place of
   their summaries, if its state space allows.
