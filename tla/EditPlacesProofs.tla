-------------------------- MODULE EditPlacesProofs ---------------------------
(***************************************************************************)
(* Theorems about EditPlaces, for every set of devices, places and         *)
(* concurrent handlers and every bound.                                    *)
(***************************************************************************)
EXTENDS EditPlaces, SequenceTheorems, TLAPS

-----------------------------------------------------------------------------
(* What the pieces of the handlers do. *)

(* Taking one element out of a sequence leaves a sequence. *)
LEMMA RemoveAtType ==
  ASSUME NEW S, NEW s \in Seq(S), NEW i \in 1 .. Len(s)
  PROVE  RemoveAt(s, i) \in Seq(S)
  <1>1. SubSeq(s, 1, i - 1) \in Seq(S)
    BY SubSeqProperties
  <1>2. SubSeq(s, i + 1, Len(s)) \in Seq(S)
    BY SubSeqProperties
  <1> QED
    BY <1>1, <1>2, ConcatProperties DEF RemoveAt

(* The set of a selection's elements. *)
LEMMA ElementOf ==
  ASSUME NEW S, NEW s \in Seq(S), NEW i \in 1 .. Len(s)
  PROVE  s[i] \in ToSet(s) /\ s[i] \in S
  BY DEF ToSet

(* What the iterator's step leaves: the handler ended, lingers, or awaits
   the write of an element of the selection.                               *)
LEMMA MoveNextStep ==
  ASSUME TypeOK, NEW t \in Tasks, NEW d \in Devices, NEW op \in Ops,
         NEW n \in Nat, NEW len \in Nat, NEW m \in Modes,
         MoveNext(t, d, op, n, len, m)
  PROVE  \E r \in Task :
           /\ task' = [task EXCEPT ![t] = r]
           /\ r.pc \in {"idle", "linger", "write"}
           /\ r.pc # "idle" => r.dev = d
           /\ r.pc = "write" => r.op = op
           /\ r.pc = "write" => r.place \in ToSet(selectedPlaces[d]) /\ r.place \in Places
           /\ \E x \in {m, "Submitted"} : mode' = [mode EXCEPT ![d] = x]
           /\ shown' = shown
  <1> USE DEF Emit, Put, Submit, Task
  <1>1. CASE /\ Len(selectedPlaces[d]) # len
             /\ task' = [task EXCEPT ![t] = NoTask]
             /\ Emit(d, m)
             /\ UNCHANGED shown
    BY <1>1 DEF NoTask
  <1>2. CASE Submit(t, d)
    BY <1>2
  <1>3. CASE /\ Len(selectedPlaces[d]) = len
             /\ n < len
             /\ Put(t, "write", d, op, TRUE, selectedPlaces[d][n + 1], n + 1, len)
             /\ Emit(d, m)
             /\ UNCHANGED shown
    <2> DEFINE p == selectedPlaces[d][n + 1]
    <2>1. selectedPlaces[d] \in Seq(Places) /\ n + 1 \in 1 .. Len(selectedPlaces[d])
      BY <1>3 DEF TypeOK
    <2>2. p \in ToSet(selectedPlaces[d]) /\ p \in Places
      BY <2>1, ElementOf
    <2> HIDE DEF p
    <2> DEFINE r == [pc |-> "write", dev |-> d, op |-> op, batch |-> TRUE,
                     place |-> p, index |-> n + 1, length |-> len]
    <2>3. /\ task' = [task EXCEPT ![t] = r] /\ mode' = [mode EXCEPT ![d] = m]
          /\ shown' = shown
      BY <1>3 DEF p
    <2>4. r \in Task /\ r.pc = "write" /\ r.dev = d /\ r.op = op /\ r.place = p
      BY <2>2
    <2> HIDE DEF r, Task
    <2> QED
      BY <2>2, <2>3, <2>4
  <1> QED
    BY <1>1, <1>2, <1>3 DEF MoveNext

(* The same when a repository's method returns to its handler. *)
LEMMA WriteReturnsStep ==
  ASSUME TypeOK, NEW t \in Tasks, task[t].pc \in {"write", "set"}, WriteReturns(t)
  PROVE  LET d == task[t].dev IN
         \E r \in Task :
           /\ task' = [task EXCEPT ![t] = r]
           /\ r.pc \in {"idle", "linger", "write"}
           /\ r.pc # "idle" => r.dev = d
           /\ r.pc = "write" => /\ task[t].batch
                                /\ r.op = task[t].op
                                /\ r.place \in ToSet(selectedPlaces[d])
                                /\ r.place \in Places
           /\ \E x \in {mode[d], "Submitted"} : mode' = [mode EXCEPT ![d] = x]
           /\ shown' = shown
  <1> DEFINE d == task[t].dev
  <1>1. /\ d \in Devices /\ task[t].op \in Ops /\ mode[d] \in Modes
        /\ task[t].index \in Nat /\ task[t].length \in Nat /\ task[t].batch \in BOOLEAN
    BY DEF TypeOK, Task
  <1>2. CASE task[t].batch
    <2>1. MoveNext(t, d, task[t].op, task[t].index, task[t].length, mode[d])
      BY <1>2 DEF WriteReturns
    <2> QED
      BY <1>1, <1>2, <2>1, MoveNextStep
  <1>3. CASE ~task[t].batch
    BY <1>1, <1>3 DEF WriteReturns, Submit, Put, Emit, Task
  <1> QED
    BY <1>2, <1>3

(* The places in transit after one handler's slot was written. *)
LEMMA TransitStep ==
  ASSUME NEW t \in Tasks, NEW r, TypeOK, task' = [task EXCEPT ![t] = r]
  PROVE  InTransit(Tasks)' = InTransit(Tasks \ {t})
                             \cup (IF r.pc = "set" THEN {r.place} ELSE {})
  BY DEF InTransit, TypeOK

LEMMA TransitSplit ==
  ASSUME NEW t \in Tasks
  PROVE  InTransit(Tasks) = InTransit(Tasks \ {t}) \cup InTransit({t})
  BY DEF InTransit

LEMMA TransitOne ==
  ASSUME NEW t \in Tasks
  PROVE  InTransit({t}) = IF task[t].pc = "set" THEN {task[t].place} ELSE {}
  BY DEF InTransit

-----------------------------------------------------------------------------
(* Type correctness. *)

LEMMA InitType == Init => TypeOK
  BY EditPlacesAssumption DEF Init, TypeOK, NoTask, Task, Modes, Filters

(* Writing one handler's slot. *)
LEMMA TaskType ==
  ASSUME TypeOK, NEW t \in Tasks, NEW r \in Task, task' = [task EXCEPT ![t] = r],
         r.pc # "idle" => r.dev \in Devices,
         r.pc \in {"write", "set"} => r.place \in Places /\ r.op \in Ops,
         r.pc = "set" => IsMove(r.op)
  PROVE  /\ task' \in [Tasks -> Task]
         /\ \A s \in Tasks : task'[s].pc # "idle" => task'[s].dev \in Devices
         /\ \A s \in Tasks : task'[s].pc \in {"write", "set"} =>
                               task'[s].place \in Places /\ task'[s].op \in Ops
         /\ \A s \in Tasks : task'[s].pc = "set" => IsMove(task'[s].op)
  BY DEF TypeOK

LEMMA NextType == TypeOK /\ [Next]_vars => TypeOK'
  <1> SUFFICES ASSUME TypeOK, [Next]_vars PROVE TypeOK'
    OBVIOUS
  <1> DEFINE TaskOK == /\ task \in [Tasks -> Task]
                       /\ \A s \in Tasks : task[s].pc # "idle" => task[s].dev \in Devices
                       /\ \A s \in Tasks : task[s].pc \in {"write", "set"} =>
                               task[s].place \in Places /\ task[s].op \in Ops
                       /\ \A s \in Tasks : task[s].pc = "set" => IsMove(task[s].op)
  <1> USE DEF collections, page, bloc, history, Modes, Filters
  <1>1. ASSUME NEW t \in Tasks, DeleteDone(t) PROVE TypeOK'
    <2>1. /\ task[t].pc = "write" /\ task[t].place \in Places /\ task[t].op \in Ops
          /\ task[t].dev \in Devices /\ task[t] \in Task
      BY <1>1 DEF DeleteDone, TypeOK
    <2>2. CASE /\ IsMove(task[t].op)
               /\ Put(t, "set", task[t].dev, task[t].op, task[t].batch, task[t].place,
                      task[t].index, task[t].length)
               /\ UNCHANGED <<mode, shown>>
      <3> DEFINE r == [pc |-> "set", dev |-> task[t].dev, op |-> task[t].op,
                       batch |-> task[t].batch, place |-> task[t].place,
                       index |-> task[t].index, length |-> task[t].length]
      <3>1. r \in Task /\ task' = [task EXCEPT ![t] = r]
        BY <2>1, <2>2 DEF Put, Task
      <3>2. r.dev \in Devices /\ r.place \in Places /\ r.op \in Ops /\ IsMove(r.op)
        BY <2>1, <2>2
      <3> HIDE DEF r
      <3>3. TaskOK'
        BY <3>1, <3>2, TaskType
      <3> QED
        BY <1>1, <2>1, <2>2, <3>3 DEF DeleteDone, DeleteDoc, TypeOK
    <2>3. CASE WriteReturns(t)
      <3>1. PICK r \in Task :
              /\ task' = [task EXCEPT ![t] = r]
              /\ r.pc # "idle" => r.dev = task[t].dev
              /\ r.pc = "write" => r.op = task[t].op
              /\ r.pc # "set" /\ (r.pc = "write" => r.place \in Places)
              /\ \E x \in {mode[task[t].dev], "Submitted"} :
                    mode' = [mode EXCEPT ![task[t].dev] = x]
              /\ shown' = shown
        BY <2>1, <2>3, WriteReturnsStep
      <3>2. TaskOK'
        BY <2>1, <3>1, TaskType
      <3>3. mode' \in [Devices -> Modes] /\ shown' \in [Devices -> SUBSET Places]
        BY <2>1, <3>1 DEF TypeOK
      <3> QED
        BY <1>1, <2>1, <3>2, <3>3 DEF DeleteDone, DeleteDoc, TypeOK
    <2> QED
      BY <1>1, <2>2, <2>3 DEF DeleteDone
  <1>2. ASSUME NEW t \in Tasks, SetDone(t) PROVE TypeOK'
    <2>1. /\ task[t].pc = "set" /\ task[t].place \in Places /\ task[t].op \in Ops
          /\ task[t].dev \in Devices
      BY <1>2 DEF SetDone, TypeOK
    <2>2. PICK r \in Task :
              /\ task' = [task EXCEPT ![t] = r]
              /\ r.pc # "idle" => r.dev = task[t].dev
              /\ r.pc = "write" => r.op = task[t].op
              /\ r.pc # "set" /\ (r.pc = "write" => r.place \in Places)
              /\ \E x \in {mode[task[t].dev], "Submitted"} :
                    mode' = [mode EXCEPT ![task[t].dev] = x]
              /\ shown' = shown
      BY <1>2, <2>1, WriteReturnsStep DEF SetDone
    <2>3. TaskOK'
      BY <2>1, <2>2, TaskType
    <2>4. mode' \in [Devices -> Modes] /\ shown' \in [Devices -> SUBSET Places]
      BY <2>1, <2>2 DEF TypeOK
    <2> QED
      BY <1>2, <2>1, <2>3, <2>4 DEF SetDone, SetDoc, TypeOK
  <1>3. ASSUME NEW t \in Tasks, Linger(t) PROVE TypeOK'
    BY <1>3 DEF Linger, Emit, NoTask, Task, TypeOK
  <1>4. ASSUME NEW d \in Devices, StartEditing(d) PROVE TypeOK'
    BY <1>4 DEF StartEditing, TypeOK
  <1>5. ASSUME NEW d \in Devices, CancelEditing(d) PROVE TypeOK'
    BY <1>5 DEF CancelEditing, TypeOK
  <1>6. ASSUME NEW d \in Devices, NEW p \in Places, SelectPlace(d, p) PROVE TypeOK'
    BY <1>6 DEF SelectPlace, TypeOK
  <1>7. ASSUME NEW d \in Devices, NEW p \in Places, UnselectPlace(d, p) PROVE TypeOK'
    <2>1. selectedPlaces \in [Devices -> Seq(Places)] /\ selectedPlaces[d] \in Seq(Places)
      BY DEF TypeOK
    <2>2. selectedPlaces' \in [Devices -> Seq(Places)]
      <3>1. CASE UNCHANGED selectedPlaces
        BY <2>1, <3>1
      <3>2. ASSUME NEW i \in 1 .. Len(selectedPlaces[d]),
                   selectedPlaces' = [selectedPlaces EXCEPT ![d] = RemoveAt(selectedPlaces[d], i)]
            PROVE  selectedPlaces' \in [Devices -> Seq(Places)]
        <4>1. RemoveAt(selectedPlaces[d], i) \in Seq(Places)
          BY <2>1, RemoveAtType
        <4> QED
          BY <2>1, <3>2, <4>1
      <3> QED
        BY <1>7, <3>1, <3>2 DEF UnselectPlace
    <2> QED
      BY <1>7, <2>2 DEF UnselectPlace, TypeOK
  <1>8. ASSUME NEW t \in Tasks, NEW d \in Devices, NEW op \in Ops, NEW p \in Places,
               EditPlace(t, d, op, p)
        PROVE  TypeOK'
    BY <1>8 DEF EditPlace, Emit, Confirm, Put, Task, TypeOK
  <1>9. ASSUME NEW t \in Tasks, NEW d \in Devices, NEW op \in Ops, EditSelected(t, d, op)
        PROVE  TypeOK'
    <2>1. selectedPlaces[d] \in Seq(Places) /\ Len(selectedPlaces[d]) \in Nat
      BY DEF TypeOK
    <2>2. ToSet(selectedPlaces[d]) \subseteq Places
      BY <2>1 DEF ToSet
    <2>3. PICK r \in Task :
              /\ task' = [task EXCEPT ![t] = r]
              /\ r.pc # "idle" => r.dev = d
              /\ r.pc = "write" => r.op = op
              /\ r.pc # "set" /\ (r.pc = "write" => r.place \in Places)
              /\ \E x \in {"Loading", "Submitted"} : mode' = [mode EXCEPT ![d] = x]
              /\ shown' = shown
      BY <1>9, <2>1, MoveNextStep DEF EditSelected
    <2>4. TaskOK'
      BY <2>3, TaskType
    <2>5. mode' \in [Devices -> Modes] /\ shown' \in [Devices -> SUBSET Places]
      BY <2>3 DEF TypeOK
    <2> QED
      BY <1>9, <2>2, <2>4, <2>5 DEF EditSelected, Confirm, TypeOK
  <1>10. ASSUME NEW d \in Devices, Snapshot(d) PROVE TypeOK'
    BY <1>10 DEF Snapshot, TypeOK
  <1>11. ASSUME NEW p \in Places, addPlaceToList(p) PROVE TypeOK'
    BY <1>11 DEF addPlaceToList, TypeOK
  <1>12. ASSUME NEW t \in Tasks, WriteRefused(t) PROVE TypeOK'
    BY <1>12 DEF WriteRefused, InTransit, NoTask, Task, TypeOK
  <1>13. ASSUME NEW d \in Devices, Restart(d) PROVE TypeOK'
    BY <1>13 DEF Restart, InTransit, NoTask, Task, TypeOK
  <1>14. ASSUME NEW d \in Devices, NEW f \in Filters, sortByVisitedStatus(d, f)
         PROVE  TypeOK'
    BY <1>14 DEF sortByVisitedStatus, TypeOK
  <1>15. CASE UNCHANGED vars
    BY <1>15 DEF vars, TypeOK
  <1> QED
    BY <1>1, <1>2, <1>3, <1>4, <1>5, <1>6, <1>7, <1>8, <1>9, <1>10, <1>11, <1>12,
       <1>13, <1>14, <1>15 DEF Next, Step, Press

(* The type invariant: in particular a handler that awaits a write knows the
   place it writes and the page it belongs to.                             *)
THEOREM EditTypeCorrect == Spec => []TypeOK
  BY InitType, NextType, PTL DEF Spec

-----------------------------------------------------------------------------
(* No place is lost. *)

(* The places a list has, wherever they are. *)
Kept == places \cup visited_places \cup InTransit(Tasks)

(* Steps that write neither collection and keep every slot's place in
   transit or out of it leave the ledger alone.                            *)
LEMMA QuietStep ==
  ASSUME TypeOK, UNCHANGED collections, NEW t \in Tasks, NEW r,
         task' = [task EXCEPT ![t] = r], r.pc # "set", task[t].pc # "set"
  PROVE  InTransit(Tasks)' = InTransit(Tasks) /\ Kept' = Kept
  BY TransitStep, TransitSplit, TransitOne DEF Kept, collections

(* A move's delete puts its place in transit. *)
LEMMA MoveStarts ==
  ASSUME TypeOK, NEW t \in Tasks, DeleteDone(t), IsMove(task[t].op)
  PROVE  /\ InTransit(Tasks)' = InTransit(Tasks) \cup {task[t].place}
         /\ Kept' = Kept \cup {task[t].place}
         /\ deleted' = deleted
  <1> DEFINE p == task[t].place
             r == [pc |-> "set", dev |-> task[t].dev, op |-> task[t].op,
                   batch |-> task[t].batch, place |-> p,
                   index |-> task[t].index, length |-> task[t].length]
  <1>1. task' = [task EXCEPT ![t] = r] /\ task[t].pc = "write"
    BY DEF DeleteDone, Put
  <1>2. /\ places \ {p} \subseteq places' /\ places' \subseteq places
        /\ visited_places \ {p} \subseteq visited_places'
        /\ visited_places' \subseteq visited_places
        /\ deleted' = deleted
    BY DEF DeleteDone, DeleteDoc, IsMove
  <1>3. r.pc = "set" /\ r.place = p
    OBVIOUS
  <1> HIDE DEF r, p
  <1>4. InTransit(Tasks)' = InTransit(Tasks) \cup {p}
    BY <1>1, <1>3, TransitStep, TransitSplit, TransitOne
  <1>5. Kept' = Kept \cup {p}
    BY <1>2, <1>4 DEF Kept
  <1> QED
    BY <1>2, <1>4, <1>5 DEF p

(* A delete leaves what is in transit alone and takes at most its place from
   the list.                                                               *)
LEMMA DeleteHits ==
  ASSUME TypeOK, NEW t \in Tasks, DeleteDone(t), ~IsMove(task[t].op)
  PROVE  /\ InTransit(Tasks)' = InTransit(Tasks)
         /\ Kept' = Kept \/ Kept' = Kept \ {task[t].place}
         /\ Kept \cup deleted \subseteq Kept' \cup deleted'
  <1> DEFINE p == task[t].place
  <1>1. task[t].pc = "write" /\ WriteReturns(t) /\ task[t].op \in Ops
    BY DEF DeleteDone, TypeOK
  <1>2. PICK r \in Task : task' = [task EXCEPT ![t] = r] /\ r.pc # "set"
    BY <1>1, WriteReturnsStep
  <1>3. InTransit(Tasks)' = InTransit(Tasks)
    BY <1>1, <1>2, TransitStep, TransitSplit, TransitOne
  <1>4. CASE task[t].op = "delete"
    <2>1. /\ places' = places \ {p} /\ visited_places' = visited_places
          /\ deleted' = deleted \cup ({p} \cap places)
      BY <1>4 DEF DeleteDone, DeleteDoc
    <2> QED
      BY <1>3, <2>1 DEF Kept
  <1>5. CASE task[t].op = "deleteVisited"
    <2>1. /\ places' = places /\ visited_places' = visited_places \ {p}
          /\ deleted' = deleted \cup ({p} \cap visited_places)
      BY <1>5 DEF DeleteDone, DeleteDoc
    <2> QED
      BY <1>3, <2>1 DEF Kept
  <1> QED
    BY <1>1, <1>4, <1>5 DEF IsMove, Ops

(* A move's set takes its place out of transit, unless another handler moves
   it too, and keeps it.                                                   *)
LEMMA MoveEnds ==
  ASSUME TypeOK, NEW t \in Tasks, SetDone(t)
  PROVE  /\ \/ InTransit(Tasks)' = InTransit(Tasks)
            \/ InTransit(Tasks)' = InTransit(Tasks) \ {task[t].place}
         /\ Kept' = Kept \cup {task[t].place}
         /\ deleted' = deleted \ {task[t].place}
         /\ interrupted' = interrupted \ {task[t].place}
  <1> DEFINE p == task[t].place
  <1>1. task[t].pc = "set" /\ WriteReturns(t) /\ IsMove(task[t].op)
    BY DEF SetDone, TypeOK
  <1>2. PICK r \in Task : task' = [task EXCEPT ![t] = r] /\ r.pc # "set"
    BY <1>1, WriteReturnsStep
  <1>3. InTransit(Tasks)' = InTransit(Tasks \ {t})
    BY <1>2, TransitStep
  <1>4. InTransit(Tasks) = InTransit(Tasks \ {t}) \cup {p}
    BY <1>1, TransitSplit, TransitOne
  <1>5. /\ places' \cup visited_places' = places \cup visited_places \cup {p}
        /\ deleted' = deleted \ {p} /\ interrupted' = interrupted \ {p}
    BY <1>1 DEF SetDone, SetDoc, IsMove
  <1> HIDE DEF p
  <1>6. Kept' = Kept \cup {p}
    BY <1>3, <1>4, <1>5 DEF Kept
  <1> QED
    BY <1>3, <1>4, <1>5, <1>6 DEF p

(* A fault loses at most what it takes out of transit, and interrupted
   records what it lost.                                                   *)
LEMMA FaultLoses ==
  ASSUME TypeOK, (\E t \in Tasks : WriteRefused(t)) \/ (\E d \in Devices : Restart(d))
  PROVE  /\ InTransit(Tasks)' \subseteq InTransit(Tasks)
         /\ Kept' \subseteq Kept
         /\ Kept \ Kept' \subseteq InTransit(Tasks) \ InTransit(Tasks)'
         /\ Kept \subseteq Kept' \cup interrupted'
         /\ interrupted \subseteq interrupted' /\ UNCHANGED <<deleted, saved>>
         /\ faults' = faults + 1
  <1>1. UNCHANGED <<places, visited_places, deleted, saved>> /\ faults' = faults + 1
    BY DEF WriteRefused, Restart, collections
  <1>2. /\ InTransit(Tasks)' \subseteq InTransit(Tasks)
        /\ Kept \subseteq Kept' \cup interrupted'
        /\ interrupted \subseteq interrupted'
    <2>1. ASSUME NEW t \in Tasks, WriteRefused(t)
          PROVE  <1>2!1 /\ <1>2!2 /\ <1>2!3
      <3>1. InTransit(Tasks)' = InTransit(Tasks \ {t})
        <4>1. task' = [task EXCEPT ![t] = NoTask] /\ NoTask.pc # "set"
          BY <2>1 DEF WriteRefused, NoTask
        <4> QED
          BY <4>1, TransitStep
      <3>2. interrupted' = interrupted \cup (InTransit({t}) \ KeptBut({t}))
        BY <2>1 DEF WriteRefused
      <3> QED
        BY <1>1, <3>1, <3>2, TransitSplit DEF Kept, KeptBut
    <2>2. ASSUME NEW d \in Devices, Restart(d)
          PROVE  <1>2!1 /\ <1>2!2 /\ <1>2!3
      <3> DEFINE mine == {t \in Tasks : task[t].dev = d}
      <3>1. \A t \in Tasks : task'[t] = IF t \in mine THEN NoTask ELSE task[t]
        BY <2>2 DEF Restart
      <3>2. interrupted' = interrupted \cup (InTransit(mine) \ KeptBut(mine))
        BY <2>2 DEF Restart
      <3>3. InTransit(Tasks)' = InTransit(Tasks \ mine)
        BY <3>1 DEF InTransit, NoTask
      <3>4. InTransit(Tasks) = InTransit(Tasks \ mine) \cup InTransit(mine)
        BY DEF InTransit
      <3> QED
        BY <1>1, <3>2, <3>3, <3>4 DEF Kept, KeptBut
    <2> QED
      BY <2>1, <2>2
  <1> QED
    BY <1>1, <1>2 DEF Kept

(* Every other step leaves the ledger alone. *)
Quiet ==
  \/ \E t \in Tasks : Linger(t)
  \/ \E d \in Devices : Press(d) \/ Snapshot(d)
  \/ UNCHANGED vars

LEMMA QuietIsQuiet ==
  ASSUME TypeOK, Quiet
  PROVE  /\ InTransit(Tasks)' = InTransit(Tasks)
         /\ Kept' = Kept
         /\ UNCHANGED <<saved, deleted, interrupted, faults>>
  <1>1. ASSUME UNCHANGED <<collections, task, saved, deleted, interrupted, faults>>
        PROVE  /\ InTransit(Tasks)' = InTransit(Tasks)
               /\ Kept' = Kept
               /\ UNCHANGED <<saved, deleted, interrupted, faults>>
    BY <1>1 DEF InTransit, Kept, collections
  <1>2. ASSUME NEW t \in Tasks, Linger(t)
        PROVE  /\ InTransit(Tasks)' = InTransit(Tasks)
               /\ Kept' = Kept
               /\ UNCHANGED <<saved, deleted, interrupted, faults>>
    <2>1. /\ task' = [task EXCEPT ![t] = NoTask] /\ NoTask.pc # "set"
          /\ task[t].pc # "set" /\ UNCHANGED collections
          /\ UNCHANGED <<saved, deleted, interrupted, faults>>
      BY <1>2 DEF Linger, NoTask, history
    <2> QED
      BY <2>1, QuietStep
  <1>3. ASSUME NEW t \in Tasks, NEW d \in Devices, NEW op \in Ops, NEW p \in Places,
               EditPlace(t, d, op, p)
        PROVE  /\ InTransit(Tasks)' = InTransit(Tasks)
               /\ Kept' = Kept
               /\ UNCHANGED <<saved, deleted, interrupted, faults>>
    <2> DEFINE r == [pc |-> "write", dev |-> d, op |-> op, batch |-> FALSE, place |-> p,
                     index |-> 0, length |-> 0]
    <2>1. /\ task' = [task EXCEPT ![t] = r] /\ r.pc # "set"
          /\ task[t].pc # "set" /\ UNCHANGED collections
          /\ UNCHANGED <<saved, deleted, interrupted, faults>>
      BY <1>3 DEF EditPlace, Put
    <2> HIDE DEF r
    <2> QED
      BY <2>1, QuietStep
  <1>4. ASSUME NEW t \in Tasks, NEW d \in Devices, NEW op \in Ops, EditSelected(t, d, op)
        PROVE  /\ InTransit(Tasks)' = InTransit(Tasks)
               /\ Kept' = Kept
               /\ UNCHANGED <<saved, deleted, interrupted, faults>>
    <2>1. /\ Len(selectedPlaces[d]) \in Nat /\ 0 \in Nat /\ "Loading" \in Modes
          /\ MoveNext(t, d, op, 0, Len(selectedPlaces[d]), "Loading")
          /\ task[t].pc # "set" /\ UNCHANGED collections
          /\ UNCHANGED <<saved, deleted, interrupted, faults>>
      BY <1>4 DEF TypeOK, Modes, EditSelected
    <2>2. PICK r \in Task : task' = [task EXCEPT ![t] = r] /\ r.pc \in {"idle", "linger", "write"}
      BY <2>1, MoveNextStep
    <2> QED
      BY <2>1, <2>2, QuietStep
  <1>5. ASSUME NEW d \in Devices,
               \/ StartEditing(d) \/ CancelEditing(d) \/ Snapshot(d)
               \/ \E p \in Places : SelectPlace(d, p) \/ UnselectPlace(d, p)
               \/ \E f \in Filters : sortByVisitedStatus(d, f)
        PROVE  UNCHANGED <<collections, task, saved, deleted, interrupted, faults>>
    BY <1>5 DEF StartEditing, CancelEditing, Snapshot, SelectPlace, UnselectPlace,
                sortByVisitedStatus, history
  <1>6. CASE UNCHANGED vars
    BY <1>1, <1>6 DEF vars, history
  <1> QED
    BY <1>1, <1>2, <1>3, <1>4, <1>5, <1>6 DEF Quiet, Press

(* Next, sorted by what a step means for the ledger. *)
LEMMA NextSplit ==
  ASSUME [Next]_vars
  PROVE  \/ Quiet
         \/ \E t \in Tasks : DeleteDone(t) \/ SetDone(t)
         \/ \E p \in Places : addPlaceToList(p)
         \/ (\E t \in Tasks : WriteRefused(t)) \/ (\E d \in Devices : Restart(d))
  BY DEF Next, Step, Quiet

(* Adding a place keeps everything that was kept. *)
LEMMA AddKeeps ==
  ASSUME NEW p \in Places, addPlaceToList(p)
  PROVE  InTransit(Tasks)' = InTransit(Tasks) /\ Kept' = Kept \cup {p} /\ faults' = faults
  BY DEF addPlaceToList, InTransit, Kept

LEMMA NextLost ==
  ASSUME TypeOK, NoPlaceLost, [Next]_vars
  PROVE  NoPlaceLost'
  <1> DEFINE Lost == saved \ (Kept \cup deleted \cup interrupted)
  <1>1. NoPlaceLost <=> Lost = {}
    BY DEF NoPlaceLost, Kept
  <1>2. NoPlaceLost' <=> Lost' = {}
    BY DEF NoPlaceLost, Kept
  <1>3. CASE Quiet
    BY <1>1, <1>2, <1>3, QuietIsQuiet
  <1>4. ASSUME NEW t \in Tasks, DeleteDone(t) PROVE Lost' = {}
    <2>1. UNCHANGED <<saved, interrupted>>
      BY <1>4 DEF DeleteDone
    <2>2. Kept \cup deleted \subseteq Kept' \cup deleted'
      BY <1>4, MoveStarts, DeleteHits
    <2> QED
      BY <1>1, <2>1, <2>2
  <1>5. ASSUME NEW t \in Tasks, SetDone(t) PROVE Lost' = {}
    <2>1. UNCHANGED saved
      BY <1>5 DEF SetDone
    <2> QED
      BY <1>1, <1>5, <2>1, MoveEnds
  <1>6. ASSUME NEW p \in Places, addPlaceToList(p) PROVE Lost' = {}
    <2>1. /\ saved' = saved \cup {p} /\ deleted' = deleted \ {p}
          /\ interrupted' = interrupted \ {p}
      BY <1>6 DEF addPlaceToList
    <2> QED
      BY <1>1, <1>6, <2>1, AddKeeps
  <1>7. ASSUME (\E t \in Tasks : WriteRefused(t)) \/ (\E d \in Devices : Restart(d))
        PROVE  Lost' = {}
    BY <1>1, <1>7, FaultLoses
  <1> QED
    BY <1>2, <1>3, <1>4, <1>5, <1>6, <1>7, NextSplit

(* However many devices move a place between the collections at once, it is
   lost only to a delete that hits it or to a fault that ends the move that
   alone still had it.                                                     *)
THEOREM NothingLost == Spec => []NoPlaceLost
  <1>1. Init => NoPlaceLost
    BY DEF Init, NoPlaceLost
  <1>2. TypeOK /\ NoPlaceLost /\ [Next]_vars => NoPlaceLost'
    BY NextLost
  <1> QED
    BY <1>1, <1>2, EditTypeCorrect, PTL DEF Spec

-----------------------------------------------------------------------------
(* The two collections implement the ledger. *)

LEMMA InitLedger == Init => Ledger!Init
  BY DEF Init, Ledger!Init, InTransit, NoTask

LEMMA StepLedger ==
  ASSUME TypeOK, [Next]_vars
  PROVE  [Ledger!Next]_(Ledger!vars)
  <1> USE DEF Kept
  <1>1. CASE Quiet
    BY <1>1, QuietIsQuiet DEF Ledger!vars
  <1>2. ASSUME NEW t \in Tasks, DeleteDone(t) PROVE [Ledger!Next]_(Ledger!vars)
    <2> DEFINE p == task[t].place
    <2>1. p \in Places /\ faults' = faults
      BY <1>2 DEF DeleteDone, TypeOK
    <2>2. CASE IsMove(task[t].op)
      <3>1. Ledger!Keep(p)
        BY <1>2, <2>1, <2>2, MoveStarts DEF Ledger!Keep
      <3> QED
        BY <2>1, <3>1 DEF Ledger!Next
    <2>3. CASE ~IsMove(task[t].op)
      <3>1. CASE Kept' = Kept
        BY <1>2, <2>1, <2>3, <3>1, DeleteHits DEF Ledger!vars
      <3>2. CASE Kept' = Kept \ {p} /\ Kept' # Kept
        <4>1. p \notin InTransit(Tasks)
          BY <1>2, <2>3, <3>2, DeleteHits
        <4>2. Ledger!Delete(p)
          BY <1>2, <2>1, <2>3, <3>2, <4>1, DeleteHits DEF Ledger!Delete
        <4> QED
          BY <2>1, <4>2 DEF Ledger!Next
      <3> QED
        BY <1>2, <2>3, <3>1, <3>2, DeleteHits
    <2> QED
      BY <2>2, <2>3
  <1>3. ASSUME NEW t \in Tasks, SetDone(t) PROVE [Ledger!Next]_(Ledger!vars)
    <2>1. task[t].place \in Places /\ faults' = faults
      BY <1>3 DEF SetDone, TypeOK
    <2>2. Ledger!Keep(task[t].place)
      BY <1>3, <2>1, MoveEnds DEF Ledger!Keep
    <2> QED
      BY <2>1, <2>2 DEF Ledger!Next
  <1>4. ASSUME NEW p \in Places, addPlaceToList(p) PROVE [Ledger!Next]_(Ledger!vars)
    <2>1. Ledger!Keep(p)
      BY <1>4, AddKeeps DEF Ledger!Keep
    <2> QED
      BY <2>1 DEF Ledger!Next
  <1>5. ASSUME (\E t \in Tasks : WriteRefused(t)) \/ (\E d \in Devices : Restart(d))
        PROVE  [Ledger!Next]_(Ledger!vars)
    <2>1. Ledger!Lose
      BY <1>5, FaultLoses DEF Ledger!Lose
    <2> QED
      BY <2>1 DEF Ledger!Next
  <1> QED
    BY <1>1, <1>2, <1>3, <1>4, <1>5, NextSplit

(* EditPlaces implements PlaceLedger: every step of the devices, with their
   two-write moves, is a step of the ledger or leaves it as it is.         *)
THEOREM ImplementsLedger == Spec => KeepsLedger
  BY InitLedger, StepLedger, EditTypeCorrect, PTL
  DEF Spec, KeepsLedger, Ledger!Spec

-----------------------------------------------------------------------------
(* Up to the second editing session only confirmed places are deleted. *)

(* A handler's slot is written, and its bloc's state, not to Started. *)
LEMMA ConfirmStep ==
  ASSUME TypeOK, ConfirmInv, NEW t \in Tasks, NEW d \in Devices, NEW r \in Task,
         NEW x \in Modes, x # "Started",
         task' = [task EXCEPT ![t] = r], mode' = [mode EXCEPT ![d] = x],
         UNCHANGED <<selectedPlaces, sessions>>, confirmed \subseteq confirmed',
         deleted' \subseteq confirmed',
         r.pc \in {"write", "set"} /\ r.batch =>
            /\ r.dev = d /\ sessions > 0
            /\ ~IsMove(r.op) => ToSet(selectedPlaces[d]) \subseteq confirmed',
         r.pc = "write" /\ ~IsMove(r.op) => r.place \in confirmed'
  PROVE  ConfirmInv'
  <1>1. \A s \in Tasks : task'[s] = IF s = t THEN r ELSE task[s]
    BY DEF TypeOK
  <1>2. \A e \in Devices : mode'[e] = IF e = d THEN x ELSE mode[e]
    BY DEF TypeOK
  <1>3. \A s \in Tasks : task[s].pc \in {"write", "set"} => task[s].dev \in Devices
    BY DEF TypeOK
  <1> QED
    BY <1>1, <1>2, <1>3 DEF ConfirmInv

LEMMA NextConfirm ==
  ASSUME TypeOK, ConfirmInv, [Next]_vars, sessions' <= 1
  PROVE  ConfirmInv'
  <1> USE DEF collections, page, bloc, history
  <1>1. ASSUME NEW t \in Tasks, DeleteDone(t) PROVE ConfirmInv'
    <2> DEFINE d == task[t].dev
    <2>1. /\ task[t].pc = "write" /\ task[t].op \in Ops /\ d \in Devices
          /\ task[t] \in Task /\ mode[d] \in Modes /\ task[t].batch \in BOOLEAN
          /\ UNCHANGED <<selectedPlaces, sessions, confirmed>>
      BY <1>1 DEF DeleteDone, TypeOK, Task
    <2>2. deleted' \subseteq confirmed'
      BY <1>1, <2>1 DEF DeleteDone, DeleteDoc, ConfirmInv, IsMove, Ops
    <2>3. CASE /\ IsMove(task[t].op)
               /\ Put(t, "set", d, task[t].op, task[t].batch, task[t].place,
                      task[t].index, task[t].length)
               /\ UNCHANGED <<mode, shown>>
      <3>1. \A s \in Tasks :
              /\ s # t => task'[s] = task[s]
              /\ task'[t].pc = "set" /\ task'[t].op = task[t].op
              /\ task'[t].batch = task[t].batch /\ task'[t].dev = d
        BY <2>3 DEF Put, TypeOK
      <3> QED
        BY <2>1, <2>2, <2>3, <3>1 DEF ConfirmInv
    <2>4. CASE WriteReturns(t) /\ ~IsMove(task[t].op)
      <3>1. PICK r \in Task, x \in {mode[d], "Submitted"} :
              /\ task' = [task EXCEPT ![t] = r] /\ mode' = [mode EXCEPT ![d] = x]
              /\ r.pc \in {"idle", "linger", "write"}
              /\ r.pc # "idle" => r.dev = d
              /\ r.pc = "write" => r.op = task[t].op
              /\ r.pc = "write" => task[t].batch /\ r.place \in ToSet(selectedPlaces[d])
        BY <2>1, <2>4, WriteReturnsStep
      <3>2. CASE task[t].batch
        <4>1. /\ mode[d] # "Started" /\ sessions > 0
              /\ ToSet(selectedPlaces[d]) \subseteq confirmed
          BY <2>1, <2>4, <3>2 DEF ConfirmInv
        <4>2. x \in Modes /\ x # "Started"
          BY <2>1, <3>1, <4>1 DEF Modes
        <4> QED
          BY <2>1, <2>2, <3>1, <4>1, <4>2, ConfirmStep
      <3>3. CASE ~task[t].batch
        <4>1. mode' = [mode EXCEPT ![d] = "Submitted"] /\ "Submitted" \in Modes
          BY <2>4, <3>3 DEF WriteReturns, Submit, Emit, Modes
        <4>2. r.pc # "write" /\ r.pc # "set"
          BY <3>1, <3>3
        <4> QED
          BY <2>1, <2>2, <3>1, <4>1, <4>2, ConfirmStep
      <3> QED
        BY <3>2, <3>3
    <2> QED
      BY <1>1, <2>3, <2>4 DEF DeleteDone
  <1>2. ASSUME NEW t \in Tasks, SetDone(t) PROVE ConfirmInv'
    <2> DEFINE d == task[t].dev
    <2>1. /\ task[t].pc = "set" /\ IsMove(task[t].op) /\ d \in Devices
          /\ mode[d] \in Modes /\ task[t].batch \in BOOLEAN
          /\ UNCHANGED <<selectedPlaces, sessions, confirmed>> /\ WriteReturns(t)
          /\ deleted' \subseteq confirmed'
      BY <1>2 DEF SetDone, SetDoc, TypeOK, Task, ConfirmInv
    <2>2. PICK r \in Task, x \in {mode[d], "Submitted"} :
            /\ task' = [task EXCEPT ![t] = r] /\ mode' = [mode EXCEPT ![d] = x]
            /\ r.pc \in {"idle", "linger", "write"}
            /\ r.pc # "idle" => r.dev = d
            /\ r.pc = "write" => r.op = task[t].op
            /\ r.pc = "write" => task[t].batch
      BY <2>1, WriteReturnsStep
    <2>3. CASE task[t].batch
      <3>1. mode[d] # "Started" /\ sessions > 0
        BY <2>1, <2>3 DEF ConfirmInv
      <3>2. x \in Modes /\ x # "Started"
        BY <2>1, <2>2, <3>1 DEF Modes
      <3> QED
        BY <2>1, <2>2, <3>1, <3>2, ConfirmStep
    <2>4. CASE ~task[t].batch
      <3>1. mode' = [mode EXCEPT ![d] = "Submitted"] /\ "Submitted" \in Modes
        BY <2>1, <2>4 DEF WriteReturns, Submit, Emit, Modes
      <3>2. r.pc # "write" /\ r.pc # "set"
        BY <2>2, <2>4
      <3> QED
        BY <2>1, <2>2, <3>1, <3>2, ConfirmStep
    <2> QED
      BY <2>3, <2>4
  <1>3. ASSUME NEW t \in Tasks, Linger(t) PROVE ConfirmInv'
    BY <1>3 DEF Linger, Emit, NoTask, TypeOK, ConfirmInv
  <1>4. ASSUME NEW d \in Devices, StartEditing(d) PROVE ConfirmInv'
    <2>1. sessions = 0 /\ sessions' > 0
      BY <1>4 DEF StartEditing, TypeOK
    <2> QED
      BY <1>4, <2>1 DEF StartEditing, TypeOK, ConfirmInv
  <1>5. ASSUME NEW d \in Devices, CancelEditing(d) PROVE ConfirmInv'
    BY <1>5 DEF CancelEditing, TypeOK, ConfirmInv
  <1>6. ASSUME NEW d \in Devices, mode[d] = "Started",
               UNCHANGED <<mode, task, sessions, confirmed, deleted>>,
               \A e \in Devices : e # d => selectedPlaces'[e] = selectedPlaces[e]
        PROVE  ConfirmInv'
    BY <1>6 DEF TypeOK, ConfirmInv
  <1>7. ASSUME NEW d \in Devices, NEW p \in Places, SelectPlace(d, p) \/ UnselectPlace(d, p)
        PROVE  ConfirmInv'
    BY <1>6, <1>7 DEF SelectPlace, UnselectPlace, TypeOK
  <1>8. ASSUME NEW t \in Tasks, NEW d \in Devices, NEW op \in Ops, NEW p \in Places,
               EditPlace(t, d, op, p)
        PROVE  ConfirmInv'
    <2> DEFINE r == [pc |-> "write", dev |-> d, op |-> op, batch |-> FALSE, place |-> p,
                     index |-> 0, length |-> 0]
    <2>1. /\ task' = [task EXCEPT ![t] = r] /\ mode' = [mode EXCEPT ![d] = "Loading"]
          /\ UNCHANGED <<selectedPlaces, sessions>> /\ confirmed \subseteq confirmed'
          /\ deleted' = deleted
          /\ ~IsMove(op) => p \in confirmed'
      BY <1>8 DEF EditPlace, Put, Emit, Confirm
    <2>2. r \in Task /\ ~r.batch /\ r.op = op /\ r.place = p /\ "Loading" \in Modes
      BY DEF Task, Modes
    <2>3. deleted' \subseteq confirmed'
      BY <2>1 DEF ConfirmInv
    <2> HIDE DEF r
    <2> QED
      BY <2>1, <2>2, <2>3, ConfirmStep
  <1>9. ASSUME NEW t \in Tasks, NEW d \in Devices, NEW op \in Ops, EditSelected(t, d, op)
        PROVE  ConfirmInv'
    <2>1. /\ Len(selectedPlaces[d]) \in Nat /\ 0 \in Nat /\ "Loading" \in Modes
          /\ MoveNext(t, d, op, 0, Len(selectedPlaces[d]), "Loading")
          /\ UNCHANGED <<selectedPlaces, sessions>> /\ confirmed \subseteq confirmed'
          /\ ~IsMove(op) => ToSet(selectedPlaces[d]) \subseteq confirmed'
          /\ sessions > 0
      BY <1>9 DEF TypeOK, Modes, EditSelected, Confirm, ConfirmInv
    <2>2. PICK r \in Task, x \in {"Loading", "Submitted"} :
            /\ task' = [task EXCEPT ![t] = r] /\ mode' = [mode EXCEPT ![d] = x]
            /\ r.pc \in {"idle", "linger", "write"}
            /\ r.pc # "idle" => r.dev = d
            /\ r.pc = "write" => r.op = op
            /\ r.pc = "write" => r.place \in ToSet(selectedPlaces[d])
      BY <2>1, MoveNextStep
    <2>3. deleted' \subseteq confirmed' /\ x \in Modes /\ x # "Started"
      BY <1>9, <2>1, <2>2 DEF EditSelected, ConfirmInv, Modes
    <2> QED
      BY <2>1, <2>2, <2>3, ConfirmStep
  <1>10. ASSUME NEW d \in Devices, Snapshot(d) PROVE ConfirmInv'
    BY <1>10 DEF Snapshot, ConfirmInv
  <1>11. ASSUME NEW p \in Places, addPlaceToList(p) PROVE ConfirmInv'
    BY <1>11 DEF addPlaceToList, ConfirmInv
  <1>12. ASSUME NEW t \in Tasks, WriteRefused(t) PROVE ConfirmInv'
    BY <1>12 DEF WriteRefused, NoTask, TypeOK, ConfirmInv
  <1>13. ASSUME NEW d \in Devices, Restart(d) PROVE ConfirmInv'
    BY <1>13 DEF Restart, NoTask, TypeOK, ConfirmInv
  <1>14. ASSUME NEW d \in Devices, NEW f \in Filters, sortByVisitedStatus(d, f)
         PROVE  ConfirmInv'
    BY <1>14 DEF sortByVisitedStatus, ConfirmInv
  <1>15. CASE UNCHANGED vars
    BY <1>15 DEF vars, ConfirmInv
  <1> QED
    BY <1>1, <1>2, <1>3, <1>4, <1>5, <1>7, <1>8, <1>9, <1>10, <1>11, <1>12,
       <1>13, <1>14, <1>15 DEF Next, Step, Press

(* Sessions are only counted up. *)
LEMMA SessionsGrow ==
  ASSUME TypeOK, [Next]_vars
  PROVE  sessions' \in {sessions, sessions + 1}
  <1>1. ASSUME NEW t \in Tasks, Step(t) \/ WriteRefused(t) PROVE sessions' = sessions
    BY <1>1 DEF Step, DeleteDone, SetDone, Linger, WriteRefused
  <1>2. ASSUME NEW d \in Devices, Snapshot(d) \/ Restart(d) PROVE sessions' = sessions
    BY <1>2 DEF Snapshot, Restart
  <1>3. ASSUME NEW p \in Places, addPlaceToList(p) PROVE sessions' = sessions
    BY <1>3 DEF addPlaceToList
  <1>4. ASSUME NEW d \in Devices, Press(d) PROVE sessions' \in {sessions, sessions + 1}
    BY <1>4 DEF Press, StartEditing, CancelEditing, sortByVisitedStatus, SelectPlace,
                UnselectPlace, EditPlace, EditSelected
  <1>5. CASE UNCHANGED vars
    BY <1>5 DEF vars
  <1> QED
    BY <1>1, <1>2, <1>3, <1>4, <1>5 DEF Next

(* Up to the second editing session, however many devices, places and
   handlers of single cards run beside it, only what a user asked to delete
   is deleted.                                                             *)
THEOREM ConfirmedOnly == Spec => []OnlyConfirmedDeletes
  <1> DEFINE FirstSession == sessions <= 1 => ConfirmInv
  <1>1. Init => FirstSession
    BY DEF Init, ConfirmInv, NoTask
  <1>2. TypeOK /\ FirstSession /\ [Next]_vars => FirstSession'
    <2> SUFFICES ASSUME TypeOK, FirstSession, [Next]_vars, sessions' <= 1 PROVE ConfirmInv'
      OBVIOUS
    <2>1. sessions <= 1
      BY SessionsGrow DEF TypeOK
    <2> QED
      BY <2>1, NextConfirm
  <1>3. FirstSession => OnlyConfirmedDeletes
    BY DEF ConfirmInv, OnlyConfirmedDeletes
  <1> HIDE DEF FirstSession
  <1> QED
    BY <1>1, <1>2, <1>3, EditTypeCorrect, PTL DEF Spec
=============================================================================
