-------------------------------- MODULE Inbox --------------------------------
(***************************************************************************)
(* Inbox: one user's mailbox users/{me}/invites and the InviteInboxBloc    *)
(* that shows it (lib/bloc/bloc/invite_inbox/invite_inbox_bloc.dart).      *)
(*                                                                         *)
(* LoadInvites counts the mailbox and, if it is not empty, subscribes to   *)
(* it; the subscription is never cancelled, so every load adds one.  The   *)
(* emitted state holds the very list the subscriptions append to: an       *)
(* invite appended to it makes an equal state, which Bloc does not emit.   *)
(* Answering an invite does not wait for the repository: the inbox is      *)
(* loaded again after two seconds, whatever is in the mailbox by then.     *)
(***************************************************************************)
EXTENDS Naturals

CONSTANTS
  Invites,      \* ids of invites
  Sent,         \* those this user sent: the friend's answer comes back
  Calls,        \* slots for repository calls nobody awaits
  MaxLoads,     \* bound: LoadInvites events
  NoInvite      \* "no value"

ASSUME InboxAssumption ==
  /\ Sent \subseteq Invites /\ NoInvite \notin Invites
  /\ MaxLoads \in Nat \ {0}

VARIABLES
  mailbox,      \* users/{me}/invites: inviteStatus of each id, or "none"
  status,       \* InviteInboxState.status
  invites,      \* the bloc's list of invites
  aliased,      \* the emitted state holds that list
  redraw,       \* the page has an emitted state to draw
  drawn,        \* the invites on the page
  loads,        \* LoadInvites events so far
  coming,       \* LoadInvites events to come
  load,         \* what each of them is doing
  call,         \* the repository calls
  posted,       \* history: ids that have been in the mailbox
  overtaken     \* an invite left the mailbox while a load waited for it

vars == <<mailbox, status, invites, aliased, redraw, drawn, loads, coming,
               load, call, posted, overtaken>>

Statuses == {"invited", "accepted", "declined"}

(* A load: a snapshot of the collection is due, the documents it listens to,
   and those of them it has not had.                                       *)
Load == [at : {"new", "count", "listen", "ended", "failed"}, due : BOOLEAN,
         watched : SUBSET Invites, left : SUBSET Invites]

Call == [at : {"idle", "accept", "remove"},
         invite : Invites \cup {NoInvite}]

NoLoad == [at |-> "new", due |-> FALSE, watched |-> {}, left |-> {}]
NoCall == [at |-> "idle", invite |-> NoInvite]

TypeOK ==
  /\ mailbox \in [Invites -> Statuses \cup {"none"}]
  /\ status \in {"loading", "loaded", "accepted", "declined", "deleted"}
  /\ invites \subseteq Invites /\ drawn \subseteq Invites
  /\ aliased \in BOOLEAN /\ redraw \in BOOLEAN
  /\ loads \in 0..MaxLoads /\ coming \in 0..MaxLoads
  /\ load \in [1..MaxLoads -> Load]
  /\ \A k \in 1..MaxLoads : load[k].left \subseteq load[k].watched
  /\ call \in [Calls -> Call]
  /\ \A c \in Calls : call[c].at # "idle" => call[c].invite \in Invites
  /\ posted \subseteq Invites
  /\ overtaken \in BOOLEAN

(* main.dart adds the first LoadInvites with the bloc. *)
Init ==
  /\ mailbox = [i \in Invites |-> "none"]
  /\ status = "loading"
  /\ invites = {} /\ drawn = {}
  /\ aliased = FALSE /\ redraw = FALSE
  /\ loads = 0 /\ coming = 1
  /\ load = [k \in 1..MaxLoads |-> NoLoad]
  /\ call = [c \in Calls |-> NoCall]
  /\ posted = {}
  /\ overtaken = FALSE

-----------------------------------------------------------------------------
(* The mailbox. *)

Mail == {i \in Invites : mailbox[i] # "none"}

(* Firestore sends the collection's snapshot to every listening load. *)
SetMail(i, s) ==
  /\ mailbox' = [mailbox EXCEPT ![i] = s]
  /\ load' = [k \in 1..MaxLoads |->
       IF load[k].at = "listen" /\ s # mailbox[i]
       THEN [at |-> "listen", due |-> TRUE, watched |-> load[k].watched,
             left |-> load[k].left]
       ELSE load[k]]

(* Another user invites this one, or answers an invite of theirs. *)
Post(i, s) ==
  /\ i \notin posted
  /\ (s = "invited") = (i \notin Sent)
  /\ posted' = posted \cup {i}
  /\ SetMail(i, s)
  /\ UNCHANGED <<status, invites, aliased, redraw, drawn, loads, coming, call,
                 overtaken>>

-----------------------------------------------------------------------------
(* Loading. *)

(* At the start, two seconds after an answer, or when an invite was sent. *)
LoadInvites ==
  /\ coming > 0
  /\ coming' = coming - 1 /\ loads' = loads + 1
  /\ invites' = {}
  /\ status' = "loading" /\ redraw' = FALSE /\ drawn' = {}
  /\ load' = [load EXCEPT ![loads + 1] =
       [at |-> "count", due |-> FALSE, watched |-> {}, left |-> {}]]
  /\ overtaken' = FALSE
  /\ UNCHANGED <<mailbox, aliased, call, posted>>

(* InviteDialog, after InviteBloc's sent. *)
InviteSent ==
  /\ loads + coming < MaxLoads
  /\ coming' = coming + 1
  /\ UNCHANGED <<mailbox, status, invites, aliased, redraw, drawn, loads, load,
                 call, posted, overtaken>>

(* Mutant: only a mailbox that is not empty is answered. *)
SubscribeOnly(k) ==
  /\ load[k].at = "count"
  /\ load' = [load EXCEPT ![k] =
       [at |-> IF Mail # {} THEN "listen" ELSE "ended", due |-> Mail # {},
        watched |-> {}, left |-> {}]]
  /\ UNCHANGED <<mailbox, status, invites, aliased, redraw, drawn, loads,
                 coming, call, posted, overtaken>>

(* Nothing to show is emitted at once, as const []. *)
getInviteCount(k) ==
  /\ load[k].at = "count"
  /\ load' = [load EXCEPT ![k] =
       [at |-> IF Mail # {} THEN "listen" ELSE "ended", due |-> Mail # {},
        watched |-> {}, left |-> {}]]
  /\ IF Mail # {} THEN UNCHANGED <<status, aliased, redraw>>
     ELSE status' = "loaded" /\ aliased' = FALSE /\ redraw' = TRUE
  /\ UNCHANGED <<mailbox, invites, drawn, loads, coming, call, posted, overtaken>>

(* The count is rethrown and nobody catches it: LoadInvites ends there, and the
   state it emitted stays.                                                 *)
getInviteCountFails(k) ==
  /\ load[k].at = "count"
  /\ load' = [load EXCEPT ![k] =
       [at |-> "failed", due |-> FALSE, watched |-> {}, left |-> {}]]
  /\ UNCHANGED <<mailbox, status, invites, aliased, redraw, drawn, loads,
                 coming, call, posted, overtaken>>

(* An error of the stream ends emit.forEach, which has no onError. *)
getInvitesFails(k) ==
  /\ load[k].at = "listen"
  /\ load' = [load EXCEPT ![k] =
       [at |-> "failed", due |-> FALSE, watched |-> {}, left |-> {}]]
  /\ UNCHANGED <<mailbox, status, invites, aliased, redraw, drawn, loads,
                 coming, call, posted, overtaken>>

(* Mutant: the listeners of the documents are not replaced. *)
KeepListeners(k) ==
  /\ load[k].at = "listen" /\ load[k].due
  /\ load' = [load EXCEPT ![k] =
       [at |-> "listen", due |-> FALSE, watched |-> load[k].watched, left |-> Mail]]
  /\ UNCHANGED <<mailbox, status, invites, aliased, redraw, drawn, loads,
                 coming, call, posted, overtaken>>

(* getInvites: a snapshot of the collection replaces the listeners of the
   documents; each of them has its document to give again.                 *)
CollectionSnapshot(k) ==
  /\ load[k].at = "listen" /\ load[k].due
  /\ load' = [load EXCEPT ![k] =
       [at |-> "listen", due |-> FALSE, watched |-> Mail, left |-> Mail]]
  /\ UNCHANGED <<mailbox, status, invites, aliased, redraw, drawn, loads,
                 coming, call, posted, overtaken>>

InviteSnapshot(k, i) ==
  /\ load[k].at = "listen" /\ i \in load[k].left /\ i \in Mail
  /\ load' = [load EXCEPT ![k] =
       [at |-> "listen", due |-> load[k].due, watched |-> load[k].watched,
        left |-> load[k].left \ {i}]]
  /\ invites' = invites \cup {i}
  /\ status' = "loaded" /\ aliased' = TRUE
  /\ redraw' = (redraw \/ status # "loaded" \/ ~aliased)
  /\ UNCHANGED <<mailbox, drawn, loads, coming, call, posted, overtaken>>

(* A document it listens to is deleted: fromSnapshot throws, emit.forEach ends. *)
InviteGone(k) ==
  /\ load[k].at = "listen" /\ ~(load[k].watched \subseteq Mail)
  /\ load' = [load EXCEPT ![k] =
       [at |-> "ended", due |-> FALSE, watched |-> {}, left |-> {}]]
  /\ UNCHANGED <<mailbox, status, invites, aliased, redraw, drawn, loads,
                 coming, call, posted, overtaken>>

Draw ==
  /\ redraw
  /\ redraw' = FALSE
  /\ drawn' = IF aliased THEN invites ELSE {}
  /\ UNCHANGED <<mailbox, status, invites, aliased, loads, coming, load, call,
                 posted, overtaken>>

-----------------------------------------------------------------------------
(* Answering. *)

(* The repository's call starts, the bloc shows s for two seconds. *)
Answer(i, at, s) ==
  /\ status = "loaded" /\ i \in drawn
  /\ loads + coming < MaxLoads
  /\ \E c \in Calls :
       /\ call[c].at = "idle"
       /\ call' = [call EXCEPT ![c] = [at |-> at, invite |-> i]]
  /\ status' = s /\ redraw' = FALSE /\ drawn' = {}
  /\ coming' = coming + 1
  /\ UNCHANGED <<mailbox, invites, aliased, loads, load, posted, overtaken>>

AcceptInvite(i) ==
  /\ i \notin Sent
  /\ Answer(i, "accept", "accepted")

DeclineInvite(i) ==
  /\ i \notin Sent
  /\ Answer(i, "remove", "declined")

(* The card of an invite a friend declined adds DeclineInvite as well: the call
   writes the same document again and deletes the friend's, which is gone. *)
DismissDeclined(i) ==
  /\ i \in Sent
  /\ status = "loaded" /\ i \in drawn
  /\ loads + coming < MaxLoads
  /\ status' = "declined" /\ redraw' = FALSE /\ drawn' = {}
  /\ coming' = coming + 1
  /\ UNCHANGED <<mailbox, invites, aliased, loads, load, call, posted, overtaken>>

DeleteInvite(i) ==
  /\ i \in Sent
  /\ Answer(i, "remove", "deleted")

(* acceptInvite tells the inviter and adds the contributor first. *)
acceptInvite(c) ==
  /\ call[c].at = "accept"
  /\ call' = [call EXCEPT ![c] = [at |-> "remove", invite |-> call[c].invite]]
  /\ UNCHANGED <<mailbox, status, invites, aliased, redraw, drawn, loads,
                 coming, load, posted, overtaken>>

(* The last write of acceptInvite, declineInvite and deleteInvite. *)
RemoveMail(c) ==
  /\ call[c].at = "remove"
  /\ SetMail(call[c].invite, "none")
  /\ call' = [call EXCEPT ![c] = NoCall]
  /\ overtaken' = (\/ overtaken
                   \/ /\ call[c].invite \in Mail /\ status = "loading"
                      /\ load[loads].at = "listen")
  /\ UNCHANGED <<status, invites, aliased, redraw, drawn, loads, coming, posted>>

-----------------------------------------------------------------------------
Resume ==
  \/ LoadInvites
  \/ \E k \in 1..MaxLoads : getInviteCount(k)
  \/ \E k \in 1..MaxLoads : CollectionSnapshot(k)
  \/ \E k \in 1..MaxLoads, i \in Invites : InviteSnapshot(k, i)
  \/ Draw

Press ==
  \/ InviteSent
  \/ \E i \in Invites : AcceptInvite(i)
  \/ \E i \in Invites : DeclineInvite(i)
  \/ \E i \in Invites : DismissDeclined(i)
  \/ \E i \in Invites : DeleteInvite(i)

Next ==
  \/ Resume
  \/ \E c \in Calls : acceptInvite(c)
  \/ \E c \in Calls : RemoveMail(c)
  \/ Press
  \/ \E k \in 1..MaxLoads : InviteGone(k)
  \/ \E k \in 1..MaxLoads : getInviteCountFails(k)
  \/ \E k \in 1..MaxLoads : getInvitesFails(k)
  \/ \E i \in Invites, s \in Statuses : Post(i, s)

(* Timers, suspended loads, snapshots and frames get their turn.  A call that
   nobody awaits may take forever.                                         *)
Fairness == WF_vars(Resume)

Spec == Init /\ [][Next]_vars /\ Fairness

-----------------------------------------------------------------------------
(* The inductive invariant behind NeverStuck: LoadInvites events stay within
   their bound, a message is followed by one, and while the newest load is
   neither overtaken nor failed the mailbox holds every document it listens
   to, all of which it still has to give, or the snapshot that names them is
   due.                                                                    *)
LoadsInBound == loads + coming <= MaxLoads

AnswersReload == status \notin {"loading", "loaded"} => coming > 0

NewestLoads ==
  /\ loads = 0 => coming > 0
  /\ loads > 0 /\ status = "loading" /\ ~overtaken
       /\ load[loads].at \notin {"count", "failed"} =>
       /\ load[loads].at = "listen"
       /\ Mail # {}
       /\ load[loads].watched \subseteq Mail
       /\ load[loads].left = load[loads].watched
       /\ load[loads].due \/ load[loads].left # {}

InboxInv == LoadsInBound /\ AnswersReload /\ NewestLoads

-----------------------------------------------------------------------------
(* A load that is going to emit "loaded": it has the count to answer, a
   snapshot of the collection to take or a document to receive.            *)
Underway(k) ==
  \/ load[k].at = "count"
  \/ /\ load[k].at = "listen"
     /\ load[k].due \/ load[k].left \cap Mail # {}

(* The newest load has ended in an error. *)
LoadFailed == loads > 0 /\ load[loads].at = "failed"

(* An inbox that shows a message or the loading spinner has what takes it out
   of there: a LoadInvites event to come, or the newest load, whatever the
   older loads, their failures and the unawaited repository calls did in
   between.  Two cases are excepted, in which the code leaves the spinner for
   good: the newest load itself fails, or an invite leaves the mailbox between
   that load's count and its first document.                               *)
NeverStuck ==
  status # "loaded" /\ ~overtaken /\ ~LoadFailed => coming > 0 \/ Underway(loads)

(* Whatever was answered, the inbox comes back from its message, and from
   loading, unless the newest load fails or an invite leaves the mailbox
   between its count and its first document.                               *)
InboxSettles == (status # "loaded") ~> (status = "loaded" \/ overtaken \/ LoadFailed)
=============================================================================
