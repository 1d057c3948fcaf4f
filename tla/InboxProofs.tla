----------------------------- MODULE InboxProofs -----------------------------
(***************************************************************************)
(* Theorems about Inbox, for every set of invites, every number of         *)
(* unawaited repository calls and every number of loads.                   *)
(***************************************************************************)
EXTENDS Inbox, TLAPS

LEMMA InitInbox == Init => TypeOK /\ InboxInv
  <1> SUFFICES ASSUME Init PROVE TypeOK /\ InboxInv
    OBVIOUS
  <1>1. TypeOK
    <2>1. /\ NoLoad \in Load /\ NoLoad.left \subseteq NoLoad.watched
          /\ NoCall \in Call /\ NoCall.at = "idle"
      BY DEF NoLoad, Load, NoCall, Call
    <2>2. /\ load \in [1..MaxLoads -> Load] /\ call \in [Calls -> Call]
          /\ \A k \in 1..MaxLoads : load[k].left \subseteq load[k].watched
          /\ \A c \in Calls : call[c].at # "idle" => call[c].invite \in Invites
      BY <2>1 DEF Init
    <2>3. 0 \in 0..MaxLoads /\ 1 \in 0..MaxLoads
      BY InboxAssumption
    <2>4. mailbox \in [Invites -> Statuses \cup {"none"}]
      BY DEF Init
    <2> QED
      BY <2>2, <2>3, <2>4 DEF Init, TypeOK
  <1>2. InboxInv
    BY InboxAssumption
    DEF Init, InboxInv, LoadsInBound, AnswersReload, NewestLoads
  <1> QED
    BY <1>1, <1>2

(* What a load that goes on does to the loads. *)
LEMMA LoadSlots ==
  ASSUME TypeOK, NEW k \in 1..MaxLoads, NEW r \in Load, r.left \subseteq r.watched,
         load' = [load EXCEPT ![k] = r]
  PROVE  /\ load' \in [1..MaxLoads -> Load]
         /\ \A j \in 1..MaxLoads : load'[j] = IF j = k THEN r ELSE load[j]
         /\ \A j \in 1..MaxLoads : load'[j].left \subseteq load'[j].watched
  <1>1. load \in [1..MaxLoads -> Load]
    BY DEF TypeOK
  <1>2. \A j \in 1..MaxLoads : load[j].left \subseteq load[j].watched
    BY DEF TypeOK
  <1> HIDE DEF Load
  <1> QED
    BY <1>1, <1>2

(* What a repository call that starts or goes on does to the calls. *)
LEMMA CallSlots ==
  ASSUME TypeOK, NEW c \in Calls, NEW r \in Call,
         r.at # "idle" => r.invite \in Invites,
         call' = [call EXCEPT ![c] = r]
  PROVE  /\ call' \in [Calls -> Call]
         /\ \A d \in Calls : call'[d].at # "idle" => call'[d].invite \in Invites
  <1>1. call \in [Calls -> Call]
    BY DEF TypeOK
  <1>2. \A d \in Calls : call[d].at # "idle" => call[d].invite \in Invites
    BY DEF TypeOK
  <1> HIDE DEF Call
  <1> QED
    BY <1>1, <1>2

(* A write to the mailbox changes one entry, and of a listening load only
   that a snapshot is due.                                                 *)
LEMMA MailWrite ==
  ASSUME TypeOK, NEW i \in Invites, NEW s \in Statuses \cup {"none"}, SetMail(i, s)
  PROVE  /\ mailbox' \in [Invites -> Statuses \cup {"none"}]
         /\ Mail' = IF s = "none" THEN Mail \ {i} ELSE Mail \cup {i}
         /\ load' \in [1..MaxLoads -> Load]
         /\ \A k \in 1..MaxLoads :
              /\ load'[k].at = load[k].at
              /\ load'[k].watched = load[k].watched
              /\ load'[k].left = load[k].left
              /\ load[k].due => load'[k].due
         /\ \A k \in 1..MaxLoads : load'[k].left \subseteq load'[k].watched
  <1>1. /\ mailbox \in [Invites -> Statuses \cup {"none"}]
        /\ mailbox' = [mailbox EXCEPT ![i] = s]
    BY DEF SetMail, TypeOK
  <1>2. Mail' = IF s = "none" THEN Mail \ {i} ELSE Mail \cup {i}
    BY <1>1 DEF Mail
  <1>3. ASSUME NEW k \in 1..MaxLoads
        PROVE  /\ load'[k] \in Load
               /\ load'[k].at = load[k].at
               /\ load'[k].watched = load[k].watched
               /\ load'[k].left = load[k].left
               /\ load[k].due => load'[k].due
    <2>1. load[k] \in Load
      BY DEF TypeOK
    <2>2. load'[k] = IF load[k].at = "listen" /\ s # mailbox[i]
                     THEN [at |-> "listen", due |-> TRUE, watched |-> load[k].watched,
                           left |-> load[k].left]
                     ELSE load[k]
      BY DEF SetMail
    <2> QED
      BY <2>1, <2>2 DEF Load
  <1>4. \A k \in 1..MaxLoads : load[k].left \subseteq load[k].watched
    BY DEF TypeOK
  <1>5. load' = [k \in 1..MaxLoads |-> load'[k]]
    BY DEF SetMail
  <1>6. load' \in [1..MaxLoads -> Load]
    BY <1>3, <1>5
  <1>7. \A k \in 1..MaxLoads : load'[k].left \subseteq load'[k].watched
    BY <1>3, <1>4
  <1>8. mailbox' \in [Invites -> Statuses \cup {"none"}]
    BY <1>1
  <1> QED
    BY <1>2, <1>3, <1>6, <1>7, <1>8

(* A step that leaves the newest load, the mailbox and the page's status
   alone, and takes away no load to come.                                  *)
LEMMA Undisturbed ==
  ASSUME TypeOK, InboxInv, coming' \in Nat, coming' >= coming, loads' = loads,
         loads + coming' <= MaxLoads, status' = status, overtaken' = overtaken,
         Mail' = Mail, loads > 0 => load'[loads] = load[loads]
  PROVE  InboxInv'
  <1>1. loads \in Nat /\ coming \in Nat
    BY DEF TypeOK
  <1>2. LoadsInBound' /\ AnswersReload'
    BY <1>1 DEF InboxInv, LoadsInBound, AnswersReload
  <1>3. NewestLoads'
    BY <1>1 DEF InboxInv, NewestLoads
  <1> QED
    BY <1>2, <1>3 DEF InboxInv

-----------------------------------------------------------------------------
(* One lemma per group of actions. *)

LEMMA LoadInvitesInbox ==
  ASSUME TypeOK, InboxInv, LoadInvites
  PROVE  TypeOK' /\ InboxInv'
  <1>0. MaxLoads \in Nat /\ loads \in Nat /\ coming \in Nat
    BY InboxAssumption DEF TypeOK
  <1> DEFINE r == [at |-> "count", due |-> FALSE, watched |-> {}, left |-> {}]
             k == loads + 1
  <1>1. r \in Load /\ r.left \subseteq r.watched /\ r.at = "count"
    BY DEF Load
  <1>2. k \in 1..MaxLoads
    BY <1>0 DEF LoadInvites, InboxInv, LoadsInBound
  <1>3. load' = [load EXCEPT ![k] = r]
    BY DEF LoadInvites
  <1> HIDE DEF r
  <1>4. /\ load' \in [1..MaxLoads -> Load]
        /\ \A j \in 1..MaxLoads : load'[j].left \subseteq load'[j].watched
        /\ load'[k] = r
    BY <1>1, <1>2, <1>3, LoadSlots
  <1>5. loads' = k /\ coming' = coming - 1 /\ coming > 0
    BY DEF LoadInvites
  <1>6. loads' \in 0..MaxLoads /\ coming' \in 0..MaxLoads
    BY <1>0, <1>2, <1>5 DEF TypeOK
  <1>7. TypeOK'
    BY <1>4, <1>6 DEF LoadInvites, TypeOK
  <1>8. InboxInv'
    <2>1. LoadsInBound' /\ AnswersReload'
      BY <1>0, <1>5 DEF InboxInv, LoadsInBound, AnswersReload, LoadInvites
    <2>2. NewestLoads'
      BY <1>0, <1>1, <1>4, <1>5 DEF NewestLoads
    <2> QED
      BY <2>1, <2>2 DEF InboxInv
  <1> QED
    BY <1>7, <1>8

LEMMA CountInbox ==
  ASSUME TypeOK, InboxInv, NEW k \in 1..MaxLoads, getInviteCount(k)
  PROVE  TypeOK' /\ InboxInv'
  <1> DEFINE r == [at |-> IF Mail # {} THEN "listen" ELSE "ended", due |-> Mail # {},
                   watched |-> {}, left |-> {}]
  <1>1. r \in Load /\ r.left \subseteq r.watched
    BY DEF Load
  <1>2. load' = [load EXCEPT ![k] = r]
    BY DEF getInviteCount
  <1>3. Mail # {} => r.at = "listen" /\ r.due /\ r.watched = {} /\ r.left = {}
    OBVIOUS
  <1> HIDE DEF r
  <1>4. /\ load' \in [1..MaxLoads -> Load]
        /\ \A j \in 1..MaxLoads : load'[j].left \subseteq load'[j].watched
        /\ \A j \in 1..MaxLoads : load'[j] = IF j = k THEN r ELSE load[j]
    BY <1>1, <1>2, LoadSlots
  <1>5. /\ status' \in {status, "loaded"} /\ (Mail = {} => status' = "loaded")
        /\ aliased' \in BOOLEAN /\ redraw' \in BOOLEAN
        /\ UNCHANGED <<mailbox, invites, drawn, loads, coming, call, posted, overtaken>>
    BY DEF getInviteCount, TypeOK
  <1>6. Mail' = Mail
    BY <1>5 DEF Mail
  <1>7. TypeOK'
    BY <1>4, <1>5 DEF TypeOK
  <1>8. loads \in 0..MaxLoads /\ MaxLoads \in Nat
    BY InboxAssumption DEF TypeOK
  <1>9. LoadsInBound' /\ AnswersReload'
    BY <1>5 DEF InboxInv, LoadsInBound, AnswersReload
  <1>10. NewestLoads'
    <2>1. loads > 0 => loads \in 1..MaxLoads
      BY <1>8
    <2>2. CASE loads = k
      BY <1>3, <1>4, <1>5, <1>6, <1>8, <2>2 DEF InboxInv, NewestLoads
    <2>3. CASE loads # k
      <3>1. loads > 0 => load'[loads] = load[loads]
        BY <1>4, <2>1, <2>3
      <3> QED
        BY <1>5, <1>6, <3>1 DEF InboxInv, NewestLoads
    <2> QED
      BY <2>2, <2>3
  <1> QED
    BY <1>7, <1>9, <1>10 DEF InboxInv

(* A load that fails, at its count or while it listens. *)
LEMMA FailInbox ==
  ASSUME TypeOK, InboxInv, NEW k \in 1..MaxLoads, getInviteCountFails(k) \/ getInvitesFails(k)
  PROVE  TypeOK' /\ InboxInv'
  <1> DEFINE r == [at |-> "failed", due |-> FALSE, watched |-> {}, left |-> {}]
  <1>1. r \in Load /\ r.left \subseteq r.watched /\ r.at = "failed"
    BY DEF Load
  <1>2. load' = [load EXCEPT ![k] = r]
    BY DEF getInviteCountFails, getInvitesFails
  <1> HIDE DEF r
  <1>3. /\ load' \in [1..MaxLoads -> Load]
        /\ \A j \in 1..MaxLoads : load'[j].left \subseteq load'[j].watched
        /\ \A j \in 1..MaxLoads : load'[j] = IF j = k THEN r ELSE load[j]
    BY <1>1, <1>2, LoadSlots
  <1>4. UNCHANGED <<mailbox, status, invites, aliased, redraw, drawn, loads,
                    coming, call, posted, overtaken>>
    BY DEF getInviteCountFails, getInvitesFails
  <1>5. Mail' = Mail
    BY <1>4 DEF Mail
  <1>6. TypeOK'
    BY <1>3, <1>4 DEF TypeOK
  <1>7. loads > 0 => loads \in 1..MaxLoads
    BY InboxAssumption DEF TypeOK
  <1>8. LoadsInBound' /\ AnswersReload'
    BY <1>4 DEF InboxInv, LoadsInBound, AnswersReload
  <1>9. NewestLoads'
    BY <1>1, <1>3, <1>4, <1>5, <1>7 DEF InboxInv, NewestLoads
  <1> QED
    BY <1>6, <1>8, <1>9 DEF InboxInv

LEMMA CollectionInbox ==
  ASSUME TypeOK, InboxInv, NEW k \in 1..MaxLoads, CollectionSnapshot(k)
  PROVE  TypeOK' /\ InboxInv'
  <1> DEFINE r == [at |-> "listen", due |-> FALSE, watched |-> Mail, left |-> Mail]
  <1>1. r \in Load /\ r.left \subseteq r.watched
    BY DEF Load, Mail
  <1>2. load' = [load EXCEPT ![k] = r] /\ load[k].at = "listen"
    BY DEF CollectionSnapshot
  <1>3. r.at = "listen" /\ r.watched = Mail /\ r.left = Mail
    OBVIOUS
  <1> HIDE DEF r
  <1>4. /\ load' \in [1..MaxLoads -> Load]
        /\ \A j \in 1..MaxLoads : load'[j].left \subseteq load'[j].watched
        /\ \A j \in 1..MaxLoads : load'[j] = IF j = k THEN r ELSE load[j]
    BY <1>1, <1>2, LoadSlots
  <1>5. UNCHANGED <<mailbox, status, invites, aliased, redraw, drawn, loads,
                    coming, call, posted, overtaken>>
    BY DEF CollectionSnapshot
  <1>6. Mail' = Mail
    BY <1>5 DEF Mail
  <1>7. TypeOK'
    BY <1>4, <1>5 DEF TypeOK
  <1>8. loads \in 0..MaxLoads /\ MaxLoads \in Nat
    BY InboxAssumption DEF TypeOK
  <1>9. LoadsInBound' /\ AnswersReload'
    BY <1>5 DEF InboxInv, LoadsInBound, AnswersReload
  <1>10. NewestLoads'
    <2>1. loads > 0 => loads \in 1..MaxLoads
      BY <1>8
    <2>2. CASE loads = k
      BY <1>2, <1>3, <1>4, <1>5, <1>6, <1>8, <2>2 DEF InboxInv, NewestLoads
    <2>3. CASE loads # k
      <3>1. loads > 0 => load'[loads] = load[loads]
        BY <1>4, <2>1, <2>3
      <3> QED
        BY <1>5, <1>6, <3>1 DEF InboxInv, NewestLoads
    <2> QED
      BY <2>2, <2>3
  <1> QED
    BY <1>7, <1>9, <1>10 DEF InboxInv

LEMMA SnapshotInbox ==
  ASSUME TypeOK, InboxInv, NEW k \in 1..MaxLoads, NEW i \in Invites, InviteSnapshot(k, i)
  PROVE  TypeOK' /\ InboxInv'
  <1> DEFINE r == [at |-> "listen", due |-> load[k].due, watched |-> load[k].watched,
                   left |-> load[k].left \ {i}]
  <1>1. r \in Load /\ r.left \subseteq r.watched
    BY DEF Load, TypeOK
  <1>2. load' = [load EXCEPT ![k] = r]
    BY DEF InviteSnapshot
  <1> HIDE DEF r
  <1>3. /\ load' \in [1..MaxLoads -> Load]
        /\ \A j \in 1..MaxLoads : load'[j].left \subseteq load'[j].watched
    BY <1>1, <1>2, LoadSlots
  <1>4. redraw' \in BOOLEAN
    BY Zenon DEF InviteSnapshot
  <1>5. /\ invites' = invites \cup {i} /\ status' = "loaded" /\ aliased' = TRUE
        /\ UNCHANGED <<mailbox, drawn, loads, coming, call, posted, overtaken>>
    BY DEF InviteSnapshot
  <1>6. TypeOK'
    BY <1>3, <1>4, <1>5 DEF TypeOK
  <1>7. InboxInv'
    BY <1>5 DEF InboxInv, LoadsInBound, AnswersReload, NewestLoads
  <1> QED
    BY <1>6, <1>7

(* A load ends when a document it listens to is gone: the newest one only
   after the invite has overtaken it.                                      *)
LEMMA GoneInbox ==
  ASSUME TypeOK, InboxInv, NEW k \in 1..MaxLoads, InviteGone(k)
  PROVE  TypeOK' /\ InboxInv'
  <1> DEFINE r == [at |-> "ended", due |-> FALSE, watched |-> {}, left |-> {}]
  <1>1. r \in Load /\ r.left \subseteq r.watched
    BY DEF Load
  <1>2. load' = [load EXCEPT ![k] = r]
    BY DEF InviteGone
  <1> HIDE DEF r
  <1>3. /\ load' \in [1..MaxLoads -> Load]
        /\ \A j \in 1..MaxLoads : load'[j].left \subseteq load'[j].watched
        /\ \A j \in 1..MaxLoads : load'[j] = IF j = k THEN r ELSE load[j]
    BY <1>1, <1>2, LoadSlots
  <1>4. UNCHANGED <<mailbox, status, invites, aliased, redraw, drawn, loads,
                    coming, call, posted, overtaken>>
    BY DEF InviteGone
  <1>5. Mail' = Mail
    BY <1>4 DEF Mail
  <1>6. TypeOK'
    BY <1>3, <1>4 DEF TypeOK
  <1>7. loads \in 0..MaxLoads /\ MaxLoads \in Nat
    BY InboxAssumption DEF TypeOK
  <1>8. LoadsInBound' /\ AnswersReload'
    BY <1>4 DEF InboxInv, LoadsInBound, AnswersReload
  <1>9. NewestLoads'
    <2>1. load[k].at = "listen" /\ ~(load[k].watched \subseteq Mail)
      BY DEF InviteGone
    <2>2. CASE loads = k
      BY <1>4, <1>7, <2>1, <2>2 DEF InboxInv, NewestLoads
    <2>3. CASE loads # k
      <3>1. loads > 0 => load'[loads] = load[loads]
        BY <1>3, <1>7, <2>3
      <3> QED
        BY <1>4, <1>5, <3>1 DEF InboxInv, NewestLoads
    <2> QED
      BY <2>2, <2>3
  <1> QED
    BY <1>6, <1>8, <1>9 DEF InboxInv

LEMMA PostInbox ==
  ASSUME TypeOK, InboxInv, NEW i \in Invites, NEW s \in Statuses, Post(i, s)
  PROVE  TypeOK' /\ InboxInv'
  <1>1. /\ SetMail(i, s) /\ posted' = posted \cup {i}
        /\ UNCHANGED <<status, invites, aliased, redraw, drawn, loads, coming, call,
                       overtaken>>
    BY DEF Post
  <1>2. s \in Statuses \cup {"none"} /\ s # "none"
    BY DEF Statuses
  <1>3. /\ mailbox' \in [Invites -> Statuses \cup {"none"}]
        /\ Mail' = Mail \cup {i}
        /\ load' \in [1..MaxLoads -> Load]
        /\ \A k \in 1..MaxLoads :
             /\ load'[k].at = load[k].at
             /\ load'[k].watched = load[k].watched
             /\ load'[k].left = load[k].left
             /\ load[k].due => load'[k].due
        /\ \A k \in 1..MaxLoads : load'[k].left \subseteq load'[k].watched
    BY <1>1, <1>2, MailWrite
  <1>4. TypeOK'
    BY <1>1, <1>3 DEF TypeOK
  <1>5. loads > 0 => loads \in 1..MaxLoads
    BY InboxAssumption DEF TypeOK
  <1>6. LoadsInBound' /\ AnswersReload'
    BY <1>1 DEF InboxInv, LoadsInBound, AnswersReload
  <1>7. NewestLoads'
    BY <1>1, <1>3, <1>5 DEF InboxInv, NewestLoads
  <1> QED
    BY <1>4, <1>6, <1>7 DEF InboxInv

LEMMA RemoveInbox ==
  ASSUME TypeOK, InboxInv, NEW c \in Calls, RemoveMail(c)
  PROVE  TypeOK' /\ InboxInv'
  <1> DEFINE i == call[c].invite
  <1>1. i \in Invites
    BY DEF RemoveMail, TypeOK
  <1>2. /\ SetMail(i, "none") /\ call' = [call EXCEPT ![c] = NoCall]
        /\ UNCHANGED <<status, invites, aliased, redraw, drawn, loads, coming, posted>>
    BY DEF RemoveMail
  <1>3. overtaken' = (\/ overtaken
                      \/ /\ i \in Mail /\ status = "loading" /\ load[loads].at = "listen")
    BY DEF RemoveMail
  <1> HIDE DEF i
  <1>4. overtaken' \in BOOLEAN
    BY <1>3, Zenon
  <1>5. ~overtaken' => /\ ~overtaken
                       /\ i \in Mail => status # "loading" \/ load[loads].at # "listen"
    BY <1>3, Zenon
  <1>6. /\ mailbox' \in [Invites -> Statuses \cup {"none"}]
        /\ Mail' = Mail \ {i}
        /\ load' \in [1..MaxLoads -> Load]
        /\ \A k \in 1..MaxLoads :
             /\ load'[k].at = load[k].at
             /\ load'[k].watched = load[k].watched
             /\ load'[k].left = load[k].left
             /\ load[k].due => load'[k].due
        /\ \A k \in 1..MaxLoads : load'[k].left \subseteq load'[k].watched
    BY <1>1, <1>2, MailWrite
  <1>7. NoCall \in Call /\ NoCall.at = "idle"
    BY DEF NoCall, Call
  <1>8. /\ call' \in [Calls -> Call]
        /\ \A d \in Calls : call'[d].at # "idle" => call'[d].invite \in Invites
    BY <1>2, <1>7, CallSlots
  <1>9. TypeOK'
    BY <1>2, <1>4, <1>6, <1>8 DEF TypeOK
  <1>10. loads > 0 => loads \in 1..MaxLoads
    BY InboxAssumption DEF TypeOK
  <1>11. LoadsInBound' /\ AnswersReload'
    BY <1>2 DEF InboxInv, LoadsInBound, AnswersReload
  <1>12. NewestLoads'
    BY <1>2, <1>5, <1>6, <1>10 DEF InboxInv, NewestLoads
  <1> QED
    BY <1>9, <1>11, <1>12 DEF InboxInv

LEMMA AnswerInbox ==
  ASSUME TypeOK, InboxInv, NEW i \in Invites, NEW at \in {"accept", "remove"},
         NEW s \in {"accepted", "declined", "deleted"}, Answer(i, at, s)
  PROVE  TypeOK' /\ InboxInv'
  <1> DEFINE r == [at |-> at, invite |-> i]
  <1>1. PICK c \in Calls : call' = [call EXCEPT ![c] = r]
    BY DEF Answer
  <1>2. r \in Call /\ r.invite \in Invites
    BY DEF Call
  <1> HIDE DEF r
  <1>3. /\ call' \in [Calls -> Call]
        /\ \A d \in Calls : call'[d].at # "idle" => call'[d].invite \in Invites
    BY <1>1, <1>2, CallSlots
  <1>4. /\ loads + coming < MaxLoads /\ status' = s /\ redraw' = FALSE /\ drawn' = {}
        /\ coming' = coming + 1
        /\ UNCHANGED <<mailbox, invites, aliased, loads, load, posted, overtaken>>
    BY DEF Answer
  <1>5. loads \in Nat /\ coming \in Nat /\ MaxLoads \in Nat
    BY InboxAssumption DEF TypeOK
  <1>6. coming' \in 0..MaxLoads /\ coming' > 0 /\ loads' + coming' <= MaxLoads
    BY <1>4, <1>5
  <1>7. TypeOK'
    BY <1>3, <1>4, <1>6 DEF TypeOK
  <1>8. InboxInv'
    BY <1>4, <1>6 DEF InboxInv, LoadsInBound, AnswersReload, NewestLoads
  <1> QED
    BY <1>7, <1>8

LEMMA DismissInbox ==
  ASSUME TypeOK, InboxInv, NEW i \in Invites, DismissDeclined(i)
  PROVE  TypeOK' /\ InboxInv'
  <1>1. /\ loads + coming < MaxLoads /\ status' = "declined" /\ redraw' = FALSE
        /\ drawn' = {} /\ coming' = coming + 1
        /\ UNCHANGED <<mailbox, invites, aliased, loads, load, call, posted, overtaken>>
    BY DEF DismissDeclined
  <1>2. loads \in Nat /\ coming \in Nat /\ MaxLoads \in Nat
    BY InboxAssumption DEF TypeOK
  <1>3. coming' \in 0..MaxLoads /\ coming' > 0 /\ loads' + coming' <= MaxLoads
    BY <1>1, <1>2
  <1>4. TypeOK'
    BY <1>1, <1>3 DEF TypeOK
  <1>5. InboxInv'
    BY <1>1, <1>3 DEF InboxInv, LoadsInBound, AnswersReload, NewestLoads
  <1> QED
    BY <1>4, <1>5

LEMMA SentInbox ==
  ASSUME TypeOK, InboxInv, InviteSent
  PROVE  TypeOK' /\ InboxInv'
  <1>1. /\ loads + coming < MaxLoads /\ coming' = coming + 1
        /\ UNCHANGED <<mailbox, status, invites, aliased, redraw, drawn, loads, load,
                       call, posted, overtaken>>
    BY DEF InviteSent
  <1>2. loads \in Nat /\ coming \in Nat /\ MaxLoads \in Nat
    BY InboxAssumption DEF TypeOK
  <1>3. /\ coming' \in 0..MaxLoads /\ coming' \in Nat /\ coming' >= coming
        /\ loads + coming' <= MaxLoads
    BY <1>1, <1>2
  <1>4. TypeOK'
    BY <1>1, <1>3 DEF TypeOK
  <1>5. Mail' = Mail
    BY <1>1 DEF Mail
  <1>6. InboxInv'
    BY <1>1, <1>3, <1>5, Undisturbed
  <1> QED
    BY <1>4, <1>6

LEMMA AcceptCallInbox ==
  ASSUME TypeOK, InboxInv, NEW c \in Calls, acceptInvite(c)
  PROVE  TypeOK' /\ InboxInv'
  <1> DEFINE r == [at |-> "remove", invite |-> call[c].invite]
  <1>1. call[c].invite \in Invites
    BY DEF acceptInvite, TypeOK
  <1>2. r \in Call /\ r.invite \in Invites
    BY <1>1 DEF Call
  <1>3. /\ call' = [call EXCEPT ![c] = r]
        /\ UNCHANGED <<mailbox, status, invites, aliased, redraw, drawn, loads,
                       coming, load, posted, overtaken>>
    BY DEF acceptInvite
  <1> HIDE DEF r
  <1>4. /\ call' \in [Calls -> Call]
        /\ \A d \in Calls : call'[d].at # "idle" => call'[d].invite \in Invites
    BY <1>2, <1>3, CallSlots
  <1>5. TypeOK'
    BY <1>3, <1>4 DEF TypeOK
  <1>6. Mail' = Mail
    BY <1>3 DEF Mail
  <1>7. coming' \in Nat /\ coming' >= coming /\ loads + coming' <= MaxLoads
    BY <1>3 DEF TypeOK, InboxInv, LoadsInBound
  <1>8. InboxInv'
    BY <1>3, <1>6, <1>7, Undisturbed
  <1> QED
    BY <1>5, <1>8

LEMMA DrawInbox ==
  ASSUME TypeOK, InboxInv, Draw
  PROVE  TypeOK' /\ InboxInv'
  <1>1. /\ drawn' \subseteq Invites /\ redraw' = FALSE
        /\ UNCHANGED <<mailbox, status, invites, aliased, loads, coming, load, call,
                       posted, overtaken>>
    BY DEF Draw, TypeOK
  <1>2. TypeOK'
    BY <1>1 DEF TypeOK
  <1>3. Mail' = Mail
    BY <1>1 DEF Mail
  <1>4. coming' \in Nat /\ coming' >= coming /\ loads + coming' <= MaxLoads
    BY <1>1 DEF TypeOK, InboxInv, LoadsInBound
  <1>5. InboxInv'
    BY <1>1, <1>3, <1>4, Undisturbed
  <1> QED
    BY <1>2, <1>5

-----------------------------------------------------------------------------
(* Every step preserves the invariant. *)
LEMMA NextInbox ==
  ASSUME TypeOK, InboxInv, [Next]_vars
  PROVE  TypeOK' /\ InboxInv'
  <1>1. CASE Resume
    BY <1>1, LoadInvitesInbox, CountInbox, CollectionInbox, SnapshotInbox, DrawInbox
    DEF Resume
  <1>2. CASE Press
    <2>1. ASSUME NEW i \in Invites, AcceptInvite(i) PROVE TypeOK' /\ InboxInv'
      BY <2>1, AnswerInbox DEF AcceptInvite
    <2>2. ASSUME NEW i \in Invites, DeclineInvite(i) PROVE TypeOK' /\ InboxInv'
      BY <2>2, AnswerInbox DEF DeclineInvite
    <2>3. ASSUME NEW i \in Invites, DeleteInvite(i) PROVE TypeOK' /\ InboxInv'
      BY <2>3, AnswerInbox DEF DeleteInvite
    <2> QED
      BY <1>2, <2>1, <2>2, <2>3, DismissInbox, SentInbox DEF Press
  <1>3. CASE UNCHANGED vars
    <2>1. UNCHANGED <<mailbox, status, invites, aliased, redraw, drawn, loads, coming,
                      load, call, posted, overtaken>>
      BY <1>3 DEF vars
    <2>2. TypeOK'
      BY <2>1 DEF TypeOK
    <2>3. Mail' = Mail
      BY <2>1 DEF Mail
    <2>4. coming' \in Nat /\ coming' >= coming /\ loads + coming' <= MaxLoads
      BY <2>1 DEF TypeOK, InboxInv, LoadsInBound
    <2>5. InboxInv'
      BY <2>1, <2>3, <2>4, Undisturbed
    <2> QED
      BY <2>2, <2>5
  <1> QED
    BY <1>1, <1>2, <1>3, AcceptCallInbox, RemoveInbox, GoneInbox, FailInbox, PostInbox DEF Next

(* Every state of every behaviour is well typed: no load listens for more
   documents than it watches, and no call goes on without its invite.      *)
THEOREM InboxTypeCorrect == Spec => []TypeOK
  BY InitInbox, NextInbox, PTL DEF Spec

(* The inbox is not stuck on a message or on the spinner: something that takes
   it to "loaded" is to come, however many loads were left listening or
   failed and whenever the unawaited calls end, except when the newest load's
   own count or stream fails or an invite leaves the mailbox between its
   count and its first document.                                           *)
THEOREM InboxNeverStuck == Spec => []NeverStuck
  <1>1. TypeOK /\ InboxInv => NeverStuck
    <2> SUFFICES ASSUME TypeOK, InboxInv, status # "loaded", ~overtaken, ~LoadFailed,
                        ~(coming > 0)
                 PROVE  Underway(loads)
      BY DEF NeverStuck
    <2>1. status = "loading" /\ loads > 0
      BY InboxAssumption DEF InboxInv, AnswersReload, NewestLoads, TypeOK
    <2>2. CASE load[loads].at = "count"
      BY <2>2 DEF Underway
    <2>3. CASE load[loads].at # "count"
      <3>1. /\ load[loads].at = "listen"
            /\ load[loads].watched \subseteq Mail
            /\ load[loads].left = load[loads].watched
            /\ load[loads].due \/ load[loads].left # {}
        BY <2>1, <2>3 DEF InboxInv, NewestLoads, LoadFailed
      <3> QED
        BY <3>1 DEF Underway
    <2> QED
      BY <2>2, <2>3
  <1> QED
    BY <1>1, InitInbox, NextInbox, PTL DEF Spec
=============================================================================
