---------------------------- MODULE ListPageProofs ----------------------------
(***************************************************************************)
(* Theorems about ListPage, for any number of lists, of waiting handlers   *)
(* and of events.                                                          *)
(***************************************************************************)
EXTENDS ListPage, SequenceTheorems, TLAPS

(* A sequence without its n-th element: the later ones move up. *)
LEMMA RemoveAtProperties ==
  ASSUME NEW T, NEW s \in Seq(T), NEW n \in 1..Len(s)
  PROVE  /\ RemoveAt(s, n) \in Seq(T)
         /\ Len(RemoveAt(s, n)) = Len(s) - 1
         /\ \A i \in 1..(Len(s) - 1) : RemoveAt(s, n)[i] = IF i < n THEN s[i] ELSE s[i + 1]
  <1> DEFINE a == SubSeq(s, 1, n - 1)
             b == SubSeq(s, n + 1, Len(s))
  <1>1. /\ a \in Seq(T) /\ Len(a) = n - 1
        /\ \A i \in 1..(n - 1) : a[i] = s[i]
    <2>1. \A i \in 1..(n - 1) : s[i] \in T
      OBVIOUS
    <2> QED
      BY <2>1, SubSeqProperties
  <1>2. /\ b \in Seq(T) /\ Len(b) = Len(s) - n
        /\ \A i \in 1..(Len(s) - n) : b[i] = s[n + i]
    <2>1. \A i \in (n + 1)..Len(s) : s[i] \in T
      OBVIOUS
    <2> QED
      BY <2>1, SubSeqProperties
  <1>3. RemoveAt(s, n) = a \o b
    BY DEF RemoveAt
  <1> HIDE DEF a, b
  <1>4. /\ a \o b \in Seq(T)
        /\ Len(a \o b) = Len(s) - 1
        /\ \A i \in 1..(Len(s) - 1) : (a \o b)[i] = IF i <= n - 1 THEN a[i] ELSE b[i - (n - 1)]
    <2>1. Len(a) + Len(b) = Len(s) - 1
      BY <1>1, <1>2
    <2>2. /\ a \o b \in Seq(T)
          /\ Len(a \o b) = Len(a) + Len(b)
          /\ \A i \in 1..(Len(a) + Len(b)) :
               (a \o b)[i] = IF i <= Len(a) THEN a[i] ELSE b[i - Len(a)]
      BY <1>1, <1>2, ConcatProperties
    <2> QED
      BY <1>1, <2>1, <2>2
  <1>5. ASSUME NEW i \in 1..(Len(s) - 1), ~(i < n)
        PROVE  b[i - (n - 1)] = s[i + 1]
    <2>1. i - (n - 1) \in 1..(Len(s) - n) /\ n + (i - (n - 1)) = i + 1
      BY <1>5
    <2> QED
      BY <1>2, <2>1
  <1> QED
    BY <1>1, <1>3, <1>4, <1>5

(* What a load leaves behind when it starts to wait. *)
LEMMA Started ==
  ASSUME NEW kind \in Collections, NEW l \in Lists, NEW rest \in Seq(Timer),
         StartLoad(kind, l, rest)
  PROVE  /\ timers' \in Seq(Timer) /\ Len(timers') = Len(rest) + 1 /\ Len(timers') <= MaxTimers
         /\ \A i \in 1..Len(rest) : timers'[i] = rest[i]
         /\ timers'[Len(rest) + 1].kind = kind /\ timers'[Len(rest) + 1].list = l
         /\ placeStream' \in Stream /\ placeStream'.list = l /\ placeStream'.of = kind
         /\ state' = "Loading" /\ placeList' = None
         /\ listDue' \subseteq listDue \cup {l} /\ ownerDue' = ownerDue \cup {l}
         /\ listHad' = listHad /\ ownerHad' = ownerHad
         /\ listOwner' = listOwner /\ currentPlaceList' = currentPlaceList
  <1> DEFINE t == [kind |-> kind, list |-> l]
  <1>1. t \in Timer /\ t.kind = kind /\ t.list = l
    BY DEF Timer
  <1>2. timers' = Append(rest, t) /\ Len(rest) < MaxTimers
    BY DEF StartLoad
  <1> HIDE DEF t
  <1>3. /\ timers' \in Seq(Timer) /\ Len(timers') = Len(rest) + 1
        /\ \A i \in 1..Len(rest) : timers'[i] = rest[i]
        /\ timers'[Len(rest) + 1] = t
    BY <1>1, <1>2, AppendProperties
  <1>4. Len(timers') <= MaxTimers
    BY <1>2, <1>3, ListPageAssumption
  <1>5. placeStream' \in Stream /\ placeStream'.list = l /\ placeStream'.of = kind
    BY DEF StartLoad, Stream
  <1>6. /\ state' = "Loading" /\ placeList' = None
        /\ listDue' \subseteq listDue \cup {l} /\ ownerDue' = ownerDue \cup {l}
        /\ listHad' = listHad /\ ownerHad' = ownerHad
        /\ listOwner' = listOwner /\ currentPlaceList' = currentPlaceList
    BY DEF StartLoad, Emit
  <1> QED
    BY <1>1, <1>3, <1>4, <1>5, <1>6

(* The load of the opened list keeps its place when another handler ends. *)
LEMMA StillToCome ==
  ASSUME TypeOK, NEW n \in 1..Len(timers), NEW p \in 1..Len(timers), p # n,
         timers[p].kind = "places", \A i \in p..Len(timers) : timers[i].list = opened
  PROVE  \E q \in 1..(Len(timers) - 1) :
           /\ RemoveAt(timers, n)[q].kind = "places"
           /\ \A i \in q..(Len(timers) - 1) : RemoveAt(timers, n)[i].list = opened
  <1>1. \A i \in 1..(Len(timers) - 1) :
          RemoveAt(timers, n)[i] = IF i < n THEN timers[i] ELSE timers[i + 1]
    BY RemoveAtProperties DEF TypeOK
  <1>2. CASE p < n
    <2>1. p \in 1..(Len(timers) - 1) /\ RemoveAt(timers, n)[p].kind = "places"
      BY <1>1, <1>2
    <2>2. \A i \in p..(Len(timers) - 1) : RemoveAt(timers, n)[i].list = opened
      BY <1>1, <1>2
    <2> QED
      BY <2>1, <2>2
  <1>3. CASE n < p
    <2> DEFINE q == p - 1
    <2>1. q \in 1..(Len(timers) - 1) /\ RemoveAt(timers, n)[q].kind = "places"
      BY <1>1, <1>3
    <2>2. \A i \in q..(Len(timers) - 1) : RemoveAt(timers, n)[i].list = opened
      BY <1>1, <1>3
    <2> QED
      BY <2>1, <2>2
  <1> QED
    BY <1>2, <1>3

(* A load of the opened list starts, after the handlers in rest. *)
LEMMA LoadKeepsTrack ==
  ASSUME NEW kind \in Collections, NEW rest \in Seq(Timer), opened \in Lists,
         StartLoad(kind, opened, rest), opened' = opened,
         \/ \E q \in 1..Len(rest) :
              /\ rest[q].kind = "places"
              /\ \A i \in q..Len(rest) : rest[i].list = opened
         \/ \A i \in 1..Len(rest) : rest[i].list = opened
  PROVE  ToCome' \/ Settled'
  <1>1. /\ Len(timers') = Len(rest) + 1 /\ Len(rest) \in Nat
        /\ \A i \in 1..Len(rest) : timers'[i] = rest[i]
        /\ timers'[Len(rest) + 1].list = opened /\ state' = "Loading"
    BY Started
  <1>2. CASE \E q \in 1..Len(rest) :
               /\ rest[q].kind = "places"
               /\ \A i \in q..Len(rest) : rest[i].list = opened
    BY <1>1, <1>2 DEF ToCome
  <1>3. CASE \A i \in 1..Len(rest) : rest[i].list = opened
    BY <1>1, <1>3 DEF Settled
  <1> QED
    BY <1>2, <1>3

(* One step of the specification keeps the invariant: one case per action. *)
LEMMA NextListPage ==
  ASSUME ListPageInv, Next
  PROVE  ListPageInv'
  <1> USE ListPageAssumption
  <1>0. TypeOK /\ StreamIsShown /\ OnTrack /\ timers \in Seq(Timer) /\ Len(timers) \in Nat
    BY DEF ListPageInv, TypeOK
  <1> DEFINE Goal == TypeOK' /\ StreamIsShown' /\ OnTrack'
  <1> USE DEF state_, fields, listeners, history
  <1>1. ASSUME NEW l \in Lists, OpenList(l)
        PROVE  Goal
    <2>1. StartLoad("places", l, timers) /\ "places" \in Collections
      BY <1>1 DEF OpenList, Collections
    <2>2. /\ timers' \in Seq(Timer) /\ Len(timers') = Len(timers) + 1 /\ Len(timers') <= MaxTimers
          /\ \A i \in 1..Len(timers) : timers'[i] = timers[i]
          /\ timers'[Len(timers) + 1].kind = "places" /\ timers'[Len(timers) + 1].list = l
          /\ placeStream' \in Stream /\ placeStream'.list = l /\ placeStream'.of = "places"
          /\ state' = "Loading" /\ placeList' = None
          /\ listDue' \subseteq listDue \cup {l} /\ ownerDue' = ownerDue \cup {l}
          /\ listHad' = listHad /\ ownerHad' = ownerHad
          /\ listOwner' = listOwner /\ currentPlaceList' = currentPlaceList
      BY <1>0, <2>1, Started
    <2>3. /\ opened' = l /\ filter' = "places" /\ changes' = changes
          /\ strayed' = FALSE /\ unfiltered' = FALSE /\ failed' = FALSE
          /\ events' \in 0..MaxEvents
      BY <1>0, <1>1 DEF OpenList, Pressed, TypeOK
    <2>4. placeStream' # None
      BY <2>2
    <2>5. TypeOK'
      BY <1>0, <2>2, <2>3 DEF TypeOK, Collections
    <2>6. StreamIsShown'
      BY <2>2, <2>3, <2>4 DEF StreamIsShown
    <2>7. ToCome'
      BY <1>0, <2>2, <2>3 DEF ToCome
    <2> QED
      BY <2>2, <2>3, <2>4, <2>5, <2>6, <2>7 DEF OnTrack
  <1>2. ASSUME NEW f \in Collections, SetFilter(f)
        PROVE  Goal
    <2>0. Len(timers) \in Nat /\ timers \in Seq(Timer)
      BY <1>0
    <2>1. StartLoad(f, placeList, timers) /\ f \in Collections /\ placeList \in Lists
      BY <1>0, <1>2, <2>0 DEF SetFilter, Collections, TypeOK
    <2>2. /\ timers' \in Seq(Timer) /\ Len(timers') = Len(timers) + 1 /\ Len(timers') <= MaxTimers
          /\ \A i \in 1..Len(timers) : timers'[i] = timers[i]
          /\ timers'[Len(timers) + 1].kind = f /\ timers'[Len(timers) + 1].list = placeList
          /\ placeStream' \in Stream /\ placeStream'.list = placeList /\ placeStream'.of = f
          /\ state' = "Loading" /\ placeList' = None
          /\ listDue' \subseteq listDue \cup {placeList} /\ ownerDue' = ownerDue \cup {placeList}
          /\ listHad' = listHad /\ ownerHad' = ownerHad
          /\ listOwner' = listOwner /\ currentPlaceList' = currentPlaceList
      BY <1>0, <2>0, <2>1, Started
    <2>3. /\ opened' = opened /\ filter' = f /\ changes' = changes
          /\ events' \in 0..MaxEvents /\ filter' \in Collections
      BY <1>0, <1>2 DEF SetFilter, Pressed, TypeOK, Collections
    <2>4. /\ strayed' \in BOOLEAN /\ unfiltered' \in BOOLEAN /\ failed' \in BOOLEAN
          /\ ~strayed' => ~strayed /\ placeList = opened
      BY <1>2, Zenon DEF SetFilter
    <2>5. ~unfiltered' => f = filter'
      BY <2>3
    <2>6. placeStream' # None
      BY <2>2
    <2>7. TypeOK'
      BY <1>0, <2>1, <2>2, <2>3, <2>4 DEF TypeOK
    <2>8. StreamIsShown'
      BY <2>2, <2>3, <2>6, <2>5 DEF StreamIsShown
    <2>9. ASSUME ~strayed'
          PROVE  opened \in Lists /\ (ToCome' \/ Settled')
      <3>1. opened \in Lists /\ opened # None /\ (ToCome \/ Settled)
        BY <1>0, <2>1, <2>4, <2>9 DEF OnTrack
      <3>2. StartLoad(f, opened, timers) /\ opened' = opened
        BY <2>1, <2>3, <2>4, <2>9
      <3> QED
        BY <1>0, <2>1, <3>1, <3>2, LoadKeepsTrack DEF ToCome, Settled
    <2> QED
      BY <2>2, <2>3, <2>4, <2>6, <2>7, <2>8, <2>9 DEF OnTrack
  <1>3. ASSUME SavedListsUpdated
        PROVE  Goal
    <2>0. Len(timers) \in Nat /\ timers \in Seq(Timer)
      BY <1>0
    <2>1. StartLoad("places", currentPlaceList, timers) /\ "places" \in Collections /\ currentPlaceList \in Lists
      BY <1>0, <1>3, <2>0 DEF SavedListsUpdated, Collections, TypeOK
    <2>2. /\ timers' \in Seq(Timer) /\ Len(timers') = Len(timers) + 1 /\ Len(timers') <= MaxTimers
          /\ \A i \in 1..Len(timers) : timers'[i] = timers[i]
          /\ timers'[Len(timers) + 1].kind = "places" /\ timers'[Len(timers) + 1].list = currentPlaceList
          /\ placeStream' \in Stream /\ placeStream'.list = currentPlaceList /\ placeStream'.of = "places"
          /\ state' = "Loading" /\ placeList' = None
          /\ listDue' \subseteq listDue \cup {currentPlaceList} /\ ownerDue' = ownerDue \cup {currentPlaceList}
          /\ listHad' = listHad /\ ownerHad' = ownerHad
          /\ listOwner' = listOwner /\ currentPlaceList' = currentPlaceList
      BY <1>0, <2>0, <2>1, Started
    <2>3. /\ opened' = opened /\ filter' = filter /\ changes' = changes
          /\ events' \in 0..MaxEvents /\ filter' \in Collections
      BY <1>0, <1>3 DEF SavedListsUpdated, Pressed, TypeOK, Collections
    <2>4. /\ strayed' \in BOOLEAN /\ unfiltered' \in BOOLEAN /\ failed' \in BOOLEAN
          /\ ~strayed' => ~strayed /\ currentPlaceList = opened
      BY <1>3, Zenon DEF SavedListsUpdated
    <2>5. ~unfiltered' => "places" = filter'
      <3>1. ~unfiltered' => filter # "visited"
        BY <1>3, Zenon DEF SavedListsUpdated
      <3> QED
        BY <2>3, <3>1 DEF Collections
    <2>6. placeStream' # None
      BY <2>2
    <2>7. TypeOK'
      BY <1>0, <2>1, <2>2, <2>3, <2>4 DEF TypeOK
    <2>8. StreamIsShown'
      BY <2>2, <2>3, <2>6, <2>5 DEF StreamIsShown
    <2>9. ASSUME ~strayed'
          PROVE  opened \in Lists /\ (ToCome' \/ Settled')
      <3>1. opened \in Lists /\ opened # None /\ (ToCome \/ Settled)
        BY <1>0, <2>1, <2>4, <2>9 DEF OnTrack
      <3>2. StartLoad("places", opened, timers) /\ opened' = opened
        BY <2>1, <2>3, <2>4, <2>9
      <3> QED
        BY <1>0, <2>1, <3>1, <3>2, LoadKeepsTrack DEF ToCome, Settled
    <2> QED
      BY <2>2, <2>3, <2>4, <2>6, <2>7, <2>8, <2>9 DEF OnTrack
  <1>4. ASSUME NEW n \in 1..Len(timers), PlaceAdded(n)
        PROVE  Goal
    <2>0. /\ RemoveAt(timers, n) \in Seq(Timer)
          /\ Len(RemoveAt(timers, n)) = Len(timers) - 1
          /\ \A i \in 1..(Len(timers) - 1) :
               RemoveAt(timers, n)[i] = IF i < n THEN timers[i] ELSE timers[i + 1]
          /\ timers[n].list \in Lists
      <3>1. timers[n] \in Timer
        BY <1>0
      <3> QED
        BY <1>0, <3>1, RemoveAtProperties DEF Timer
    <2>1. StartLoad("places", timers[n].list, RemoveAt(timers, n)) /\ "places" \in Collections /\ timers[n].list \in Lists
      BY <1>0, <1>4, <2>0 DEF PlaceAdded, Collections, TypeOK
    <2>2. /\ timers' \in Seq(Timer) /\ Len(timers') = (Len(timers) - 1) + 1 /\ Len(timers') <= MaxTimers
          /\ \A i \in 1..(Len(timers) - 1) : timers'[i] = RemoveAt(timers, n)[i]
          /\ timers'[(Len(timers) - 1) + 1].kind = "places" /\ timers'[(Len(timers) - 1) + 1].list = timers[n].list
          /\ placeStream' \in Stream /\ placeStream'.list = timers[n].list /\ placeStream'.of = "places"
          /\ state' = "Loading" /\ placeList' = None
          /\ listDue' \subseteq listDue \cup {timers[n].list} /\ ownerDue' = ownerDue \cup {timers[n].list}
          /\ listHad' = listHad /\ ownerHad' = ownerHad
          /\ listOwner' = listOwner /\ currentPlaceList' = currentPlaceList
      BY <1>0, <2>0, <2>1, Started
    <2>3. /\ opened' = opened /\ filter' = filter /\ changes' = changes
          /\ events' \in 0..MaxEvents /\ filter' \in Collections
      BY <1>0, <1>4 DEF PlaceAdded, Pressed, TypeOK, Collections
    <2>4. /\ strayed' \in BOOLEAN /\ unfiltered' \in BOOLEAN /\ failed' \in BOOLEAN
          /\ ~strayed' => ~strayed /\ timers[n].list = opened
      BY <1>4, Zenon DEF PlaceAdded
    <2>5. ~unfiltered' => "places" = filter'
      <3>1. ~unfiltered' => filter # "visited"
        BY <1>4, Zenon DEF PlaceAdded
      <3> QED
        BY <2>3, <3>1 DEF Collections
    <2>6. placeStream' # None
      BY <2>2
    <2>7. TypeOK'
      BY <1>0, <2>1, <2>2, <2>3, <2>4 DEF TypeOK
    <2>8. StreamIsShown'
      BY <2>2, <2>3, <2>6, <2>5 DEF StreamIsShown
    <2>9. ASSUME ~strayed'
          PROVE  opened \in Lists /\ (ToCome' \/ Settled')
      <3> DEFINE rest == RemoveAt(timers, n)
      <3>1. opened \in Lists /\ opened # None /\ (ToCome \/ Settled)
        BY <1>0, <2>1, <2>4, <2>9 DEF OnTrack
      <3>2. StartLoad("places", opened, rest) /\ opened' = opened /\ timers[n].kind = "add"
        BY <1>4, <2>1, <2>3, <2>4, <2>9 DEF PlaceAdded
      <3>3. CASE ToCome
        <4>1. PICK p \in 1..Len(timers) : /\ timers[p].kind = "places"
                                          /\ \A i \in p..Len(timers) : timers[i].list = opened
          BY <3>3 DEF ToCome
        <4>2. p # n
          BY <3>2, <4>1
        <4>3. \E q \in 1..Len(rest) : /\ rest[q].kind = "places"
                                      /\ \A i \in q..Len(rest) : rest[i].list = opened
          BY <1>0, <2>0, <4>1, <4>2, StillToCome
        <4> HIDE DEF rest
        <4> QED
          BY <2>0, <2>1, <3>1, <3>2, <4>3, LoadKeepsTrack DEF rest
      <3>4. CASE Settled
        <4>1. \A i \in 1..Len(rest) : rest[i].list = opened
          BY <1>0, <2>0, <3>4 DEF Settled
        <4> QED
          BY <2>0, <2>1, <3>1, <3>2, <4>1, LoadKeepsTrack
      <3> QED
        BY <3>1, <3>3, <3>4
    <2> QED
      BY <2>2, <2>3, <2>4, <2>6, <2>7, <2>8, <2>9 DEF OnTrack
  <1>5. ASSUME NEW l \in Lists, AddPlace(l)
        PROVE  Goal
    <2> DEFINE t == [kind |-> "add", list |-> l]
    <2>1. t \in Timer /\ t.kind = "add" /\ t.list = l
      BY DEF Timer
    <2>2. timers' = Append(timers, t)
      BY <1>5 DEF AddPlace
    <2> HIDE DEF t
    <2>3. /\ timers' \in Seq(Timer) /\ Len(timers') = Len(timers) + 1
          /\ \A i \in 1..Len(timers) : timers'[i] = timers[i]
          /\ timers'[Len(timers) + 1].kind = "add" /\ timers'[Len(timers) + 1].list = l
      BY <1>0, <2>1, <2>2, AppendProperties
    <2>4. /\ Len(timers) < MaxTimers /\ state' = "Loading" /\ placeList' = None
          /\ UNCHANGED <<opened, filter, fields, listeners, changes, unfiltered, failed>>
          /\ events' \in 0..MaxEvents
      BY <1>0, <1>5 DEF AddPlace, Emit, Pressed, TypeOK
    <2>5. strayed' \in BOOLEAN /\ (~strayed' => ~strayed /\ l = opened)
      BY <1>5, Zenon DEF AddPlace
    <2>6. TypeOK'
      BY <1>0, <2>3, <2>4, <2>5 DEF TypeOK
    <2>7. StreamIsShown'
      BY <1>0, <2>3, <2>4 DEF StreamIsShown
    <2>8. OnTrack'
      <3> SUFFICES ASSUME ~strayed'
                   PROVE  /\ opened \in Lists /\ opened # None
                          /\ placeStream # None /\ placeStream.list = opened
                          /\ ToCome' \/ Settled'
        BY <2>4 DEF OnTrack
      <3>1. /\ opened \in Lists /\ opened # None /\ opened = l
            /\ placeStream # None /\ placeStream.list = opened
            /\ ToCome \/ Settled
        BY <1>0, <2>5 DEF OnTrack
      <3>2. CASE ToCome
        BY <1>0, <2>3, <2>4, <3>1, <3>2 DEF ToCome
      <3>3. CASE Settled
        BY <1>0, <2>3, <2>4, <3>1, <3>3 DEF Settled
      <3> QED
        BY <3>1, <3>2, <3>3
    <2> QED
      BY <2>6, <2>7, <2>8
  <1>6. ASSUME NEW n \in 1..Len(timers), EmitLoaded(n)
        PROVE  Goal
    <2> DEFINE rest == RemoveAt(timers, n)
    <2>1. /\ rest \in Seq(Timer)
          /\ Len(rest) = Len(timers) - 1
          /\ \A i \in 1..(Len(timers) - 1) : rest[i] = IF i < n THEN timers[i] ELSE timers[i + 1]
      BY <1>0, RemoveAtProperties
    <2>2. /\ timers[n].kind # "add" /\ MayFire(n)
          /\ timers' = rest /\ opened' = opened /\ filter' = filter
          /\ placeStream' = placeStream /\ listOwner' = listOwner
          /\ currentPlaceList' = currentPlaceList /\ events' = events /\ changes' = changes
          /\ listDue' = listDue /\ listHad' = listHad /\ ownerDue' = ownerDue
          /\ ownerHad' = ownerHad /\ strayed' = strayed /\ unfiltered' = unfiltered
      BY <1>6 DEF EmitLoaded
    <2>3. \/ /\ listOwner # None
             /\ state' = "Loaded" /\ placeList' = timers[n].list /\ owner' = listOwner
             /\ places' = placeStream
          \/ /\ listOwner = None /\ state' = state /\ placeList' = placeList
             /\ owner' = owner /\ places' = places
      BY <1>6 DEF EmitLoaded
    <2>4. failed' \in BOOLEAN
      BY <1>6, Zenon DEF EmitLoaded
    <2> HIDE DEF rest
    <2>5. /\ timers[n].list \in Lists /\ placeStream \in Stream
          /\ listOwner = None => state # "Loaded"
      <3>1. timers[n] \in Timer
        BY <1>0
      <3> QED
        BY <1>0, <2>2, <3>1 DEF TypeOK, Timer, StreamIsShown
    <2>6. TypeOK'
      BY <1>0, <2>1, <2>2, <2>5, <2>3, <2>4 DEF TypeOK
    <2>7. StreamIsShown'
      BY <1>0, <2>1, <2>2, <2>5, <2>3 DEF StreamIsShown
    <2>8. OnTrack'
      <3> SUFFICES ASSUME ~strayed
                   PROVE  /\ opened # None /\ placeStream # None /\ placeStream.list = opened
                          /\ ToCome' \/ Settled'
        BY <2>2 DEF OnTrack
      <3>1. opened # None /\ placeStream # None /\ placeStream.list = opened /\ (ToCome \/ Settled)
        <4>1. timers # << >>
          BY <1>0
        <4> QED
          BY <1>0, <4>1 DEF OnTrack
      <3>2. CASE Settled
        <4>1. timers[n].list = opened /\ \A i \in 1..Len(rest) : rest[i].list = opened
          BY <1>0, <2>1, <3>2 DEF Settled
        <4>2. state' = "Loaded" => placeList' = opened
          BY <2>5, <2>3, <4>1
        <4> QED
          BY <2>2, <3>1, <4>1, <4>2 DEF Settled
      <3>3. CASE ToCome
        <4>1. PICK p \in 1..Len(timers) : /\ timers[p].kind = "places"
                                          /\ \A i \in p..Len(timers) : timers[i].list = opened
          BY <3>3 DEF ToCome
        <4>2. CASE p # n
          <5>1. \E q \in 1..Len(rest) : /\ rest[q].kind = "places"
                                        /\ \A i \in q..Len(rest) : rest[i].list = opened
            BY <1>0, <2>1, <4>1, <4>2, StillToCome DEF rest
          <5> QED
            BY <2>2, <3>1, <5>1 DEF ToCome
        <4>3. CASE p = n
          <5>1. n = 1
            <6> SUFFICES ASSUME n # 1 PROVE FALSE
              OBVIOUS
            <6>1. 1 \in 1..(n - 1) /\ 1 \in 1..Len(timers) /\ timers[1] \in Timer
              BY <1>0
            <6>2. Delay(timers[1].kind) > Delay(timers[n].kind)
              BY <2>2, <6>1 DEF MayFire
            <6>3. timers[1].kind \in {"places", "visited", "add"}
              BY <6>1 DEF Timer, Collections
            <6> QED
              BY <4>1, <4>3, <6>2, <6>3 DEF Delay
          <5>2. \A i \in 1..Len(timers) : timers[i].list = opened
            BY <4>1, <4>3, <5>1
          <5>3. \A i \in 1..Len(rest) : rest[i].list = opened
            BY <1>0, <2>1, <5>2
          <5>4. timers[n].list = opened
            BY <5>2
          <5> QED
            BY <2>2, <2>5, <2>3, <3>1, <5>3, <5>4 DEF Settled
        <4> QED
          BY <4>2, <4>3
      <3> QED
        BY <3>1, <3>2, <3>3
    <2> QED
      BY <2>6, <2>7, <2>8
  <1>7. ASSUME NEW l \in Lists, ListSnapshot(l)
        PROVE  Goal
    <2>1. TypeOK'
      BY <1>0, <1>7 DEF ListSnapshot, TypeOK
    <2>2. StreamIsShown'
      BY <1>0, <1>7 DEF ListSnapshot, StreamIsShown
    <2>3. OnTrack'
      BY <1>0, <1>7 DEF ListSnapshot, OnTrack, ToCome, Settled
    <2> QED
      BY <2>1, <2>2, <2>3
  <1>8. ASSUME NEW l \in Lists, OwnerSnapshot(l)
        PROVE  Goal
    <2>1. TypeOK'
      BY <1>0, <1>8 DEF OwnerSnapshot, TypeOK
    <2>2. StreamIsShown'
      BY <1>0, <1>8 DEF OwnerSnapshot, StreamIsShown
    <2>3. OnTrack'
      BY <1>0, <1>8 DEF OwnerSnapshot, OnTrack, ToCome, Settled
    <2> QED
      BY <2>1, <2>2, <2>3
  <1>9. ASSUME NEW l \in Lists, DocumentChanges(l)
        PROVE  Goal
    <2>1. TypeOK'
      BY <1>0, <1>9 DEF DocumentChanges, TypeOK
    <2>2. StreamIsShown'
      BY <1>0, <1>9 DEF DocumentChanges, StreamIsShown
    <2>3. OnTrack'
      BY <1>0, <1>9 DEF DocumentChanges, OnTrack, ToCome, Settled
    <2> QED
      BY <2>1, <2>2, <2>3
  <1>10. Goal
    BY <1>1, <1>2, <1>3, <1>4, <1>5, <1>6, <1>7, <1>8, <1>9 DEF Next, Elapse, Page
  <1> QED
    BY <1>10 DEF ListPageInv

LEMMA ListPageInvariant == Spec => []ListPageInv
  <1>1. Init => ListPageInv
    <2> SUFFICES ASSUME Init PROVE ListPageInv
      OBVIOUS
    <2> USE ListPageAssumption
    <2>1. timers = << >> /\ timers \in Seq(Timer) /\ Len(timers) = 0
      BY DEF Init
    <2>2. events \in 0..MaxEvents /\ changes \in 0..MaxChanges /\ Len(timers) <= MaxTimers
      BY <2>1 DEF Init
    <2>3. TypeOK
      BY <2>1, <2>2 DEF Init, TypeOK, Collections
    <2>4. StreamIsShown /\ OnTrack
      BY <2>1 DEF Init, StreamIsShown, OnTrack
    <2> QED
      BY <2>3, <2>4 DEF ListPageInv
  <1>2. ListPageInv /\ UNCHANGED vars => ListPageInv'
    BY DEF vars, state_, fields, listeners, history, ListPageInv, TypeOK, StreamIsShown,
           OnTrack, ToCome, Settled
  <1> QED
    BY <1>1, <1>2, NextListPage, PTL DEF Spec

(* The state of the page, the bloc's fields and the waiting handlers keep their
   types: a list that is shown has an owner and a stream of places.        *)
THEOREM ListPageTypeCorrect == Spec => []TypeOK
  BY ListPageInvariant, PTL DEF ListPageInv

(* When all delays have ended, the page shows the list that was opened last,
   however many loads of other lists were waiting when it was opened.      *)
THEOREM OpenedListIsShown == Spec => []ShowsOpenedList
  <1>1. ListPageInv => ShowsOpenedList
    <2> SUFFICES ASSUME ListPageInv, state = "Loaded", timers = << >>, ~strayed
                 PROVE  placeList = opened /\ places.list = opened
      BY DEF ShowsOpenedList
    <2>1. opened # None /\ (ToCome \/ Settled) /\ placeStream.list = opened
      BY DEF ListPageInv, OnTrack
    <2>2. ~ToCome
      BY DEF ToCome
    <2> QED
      BY <2>1, <2>2 DEF Settled, ListPageInv, StreamIsShown
  <1> QED
    BY <1>1, ListPageInvariant, PTL

(* The places that are shown are the ones the filter names, whatever loads of
   the other collection are still waiting.                                 *)
THEOREM FilterAgrees == Spec => []FilterIsShown
  <1>1. ListPageInv => FilterIsShown
    BY ListPageAssumption DEF ListPageInv, StreamIsShown, FilterIsShown, TypeOK
  <1> QED
    BY <1>1, ListPageInvariant, PTL
=============================================================================
