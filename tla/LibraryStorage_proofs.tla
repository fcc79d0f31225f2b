----------------------- MODULE LibraryStorage_proofs -----------------------
(***************************************************************************)
(* Proofs about LibraryStorage, for every set of machines and every number *)
(* of operations in flight, when the save of removeCustomInputProfile does *)
(* not fail.                                                               *)
(***************************************************************************)
EXTENDS LibraryStorage, SequenceTheorems, TLAPS

-----------------------------------------------------------------------------
(* The operations on lists of machines                                      *)

(* machines.append *)
LEMMA IdsAppend ==
    ASSUME NEW list \in Seq(Entry), NEW e \in Entry
    PROVE  /\ Append(list, e) \in Seq(Entry)
           /\ Ids(Append(list, e)) = Ids(list) \union {e.id}
  <1> DEFINE new == Append(list, e)
  <1>1. /\ new \in Seq(Entry)
        /\ Len(new) = Len(list) + 1
        /\ \A i \in DOMAIN list : i \in DOMAIN new /\ new[i] = list[i]
        /\ new[Len(list) + 1] = e
        /\ \A i \in DOMAIN new : i \in DOMAIN list \/ i = Len(list) + 1
        /\ Len(list) + 1 \in DOMAIN new
    OBVIOUS
  <1> HIDE DEF new
  <1> QED
    BY <1>1 DEF Ids, new

(* A setting changes no identifier. *)
LEMMA IdsWith ==
    ASSUME NEW list \in Seq(Entry), NEW m, NEW v \in Setting
    PROVE  /\ With(list, m, v) \in Seq(Entry)
           /\ Ids(With(list, m, v)) = Ids(list)
  <1>1. ASSUME NEW i \in DOMAIN list
        PROVE  With(list, m, v)[i] \in Entry /\ With(list, m, v)[i].id = list[i].id
    <2>1. list[i] \in Entry
      OBVIOUS
    <2>2. With(list, m, v)[i] = IF list[i].id = m THEN [list[i] EXCEPT !.setting = v]
                                ELSE list[i]
      BY DEF With
    <2> QED
      BY <2>1, <2>2 DEF Entry
  <1>2. DOMAIN With(list, m, v) = DOMAIN list
    BY DEF With
  <1>3. With(list, m, v) \in Seq(Entry)
    BY <1>1 DEF With
  <1> QED
    BY <1>1, <1>2, <1>3 DEF Ids

(* Taking a machine off the list leaves the others. *)
LEMMA IdsWithout ==
    ASSUME NEW list \in Seq(Entry), NEW m
    PROVE  /\ Without(list, m) \in Seq(Entry)
           /\ \A n \in Ids(list) : n # m => n \in Ids(Without(list, m))
           /\ Ids(Without(list, m)) \subseteq Ids(list)
  <1>1. CASE m \notin Ids(list)
    BY <1>1 DEF Without
  <1>2. CASE m \in Ids(list)
    <2> DEFINE k == IndexOf(list, m)
               new == RemoveAt(list, k)
    <2>1. k \in 1..Len(list) /\ list[k].id = m
      BY <1>2 DEF Ids, IndexOf
    <2>2. Without(list, m) = new
      BY <1>2 DEF Without
    <2> HIDE DEF k
    <2>3. /\ new \in Seq(Entry)
          /\ Len(new) = Len(list) - 1
          /\ \A i \in 1..(k - 1) : new[i] = list[i]
          /\ \A i \in k..(Len(list) - 1) : new[i] = list[i + 1]
      <3> DEFINE front == SubSeq(list, 1, k - 1)
                 back == SubSeq(list, k + 1, Len(list))
      <3>1. /\ front \in Seq(Entry) /\ Len(front) = k - 1
            /\ \A i \in 1..(k - 1) : front[i] = list[i]
        BY <2>1
      <3>2. /\ back \in Seq(Entry) /\ Len(back) = Len(list) - k
            /\ \A i \in 1..(Len(list) - k) : back[i] = list[k + i]
        BY <2>1
      <3>3. new = front \o back
        BY DEF RemoveAt
      <3> HIDE DEF front, back, new
      <3>a. /\ front \o back \in Seq(Entry)
            /\ Len(front \o back) = Len(front) + Len(back)
            /\ \A i \in 1..(Len(front) + Len(back)) :
                  (front \o back)[i] =
                     IF i <= Len(front) THEN front[i] ELSE back[i - Len(front)]
        BY <3>1, <3>2, ConcatProperties, Zenon
      <3>4. /\ new \in Seq(Entry)
            /\ Len(new) = (k - 1) + (Len(list) - k)
            /\ \A i \in 1..((k - 1) + (Len(list) - k)) :
                  new[i] = IF i <= k - 1 THEN front[i] ELSE back[i - (k - 1)]
        BY <3>1, <3>2, <3>3, <3>a, Zenon
      <3>5. ASSUME NEW i \in k..(Len(list) - 1)
            PROVE  new[i] = list[i + 1]
        <4> DEFINE j == i - (k - 1)
        <4>1. /\ j \in 1..(Len(list) - k) /\ k + j = i + 1
              /\ i \in 1..((k - 1) + (Len(list) - k)) /\ ~(i <= k - 1)
          BY <2>1
        <4>2. new[i] = back[j]
          BY <3>4, <4>1, Zenon
        <4> HIDE DEF j
        <4>3. back[j] = list[k + j]
          BY <3>2, <4>1, Zenon
        <4> QED
          BY <4>1, <4>2, <4>3, Zenon
      <3>6. ASSUME NEW i \in 1..(k - 1)
            PROVE  new[i] = list[i]
        <4>1. i \in 1..((k - 1) + (Len(list) - k)) /\ i <= k - 1
          BY <2>1
        <4>2. new[i] = front[i]
          BY <3>4, <4>1, Zenon
        <4> QED
          BY <3>1, <4>2, Zenon
      <3>7. (k - 1) + (Len(list) - k) = Len(list) - 1
        BY <2>1
      <3> QED
        BY <3>4, <3>5, <3>6, <3>7, Zenon
    <2> HIDE DEF new
    <2>4. ASSUME NEW n \in Ids(list), n # m
          PROVE  n \in Ids(new)
      <3>1. PICK i \in 1..Len(list) : list[i].id = n
        BY DEF Ids
      <3>2. i # k
        BY <2>1, <2>4, <3>1
      <3>3. CASE i < k
        <4>1. i \in DOMAIN new /\ new[i].id = n
          BY <2>1, <2>3, <3>1, <3>3
        <4> QED
          BY <4>1 DEF Ids
      <3>4. CASE i > k
        <4>1. i - 1 \in DOMAIN new /\ new[i - 1].id = n
          BY <2>1, <2>3, <3>1, <3>4
        <4> QED
          BY <4>1 DEF Ids
      <3> QED
        BY <2>1, <3>2, <3>3, <3>4
    <2>5. Ids(new) \subseteq Ids(list)
      <3>1. ASSUME NEW i \in DOMAIN new
            PROVE  new[i].id \in Ids(list)
        <4>1. i \in 1..(k - 1) \/ i \in k..(Len(list) - 1)
          BY <2>1, <2>3
        <4>2. \/ new[i] = list[i] /\ i \in DOMAIN list
              \/ new[i] = list[i + 1] /\ i + 1 \in DOMAIN list
          BY <2>1, <2>3, <4>1
        <4> QED
          BY <4>2 DEF Ids
      <3> QED
        BY <3>1 DEF Ids
    <2> QED
      BY <2>2, <2>3, <2>4, <2>5
  <1> QED
    BY <1>1, <1>2

-----------------------------------------------------------------------------
(* Calls and saves                                                          *)

(* A call in flight has all the fields of a call. *)
LEMMA CallFields ==
    ASSUME TypeOK, NEW c \in Calls, calls[c].pc # "idle"
    PROVE  calls[c] \in Call
  BY DEF TypeOK, Idle

(* A call goes on; it stays the call it was. *)
LEMMA GotoFacts ==
    ASSUME TypeOK, NEW c \in Calls, calls[c].pc # "idle",
           NEW pc \in PC, Goto(c, pc)
    PROVE  /\ calls' \in [Calls -> Call \union {Idle}]
           /\ calls'[c].pc = pc
           /\ calls'[c].op = calls[c].op
           /\ calls'[c].id = calls[c].id
           /\ calls'[c].previous = calls[c].previous
           /\ \A d \in Calls \ {c} : calls'[d] = calls[d]
  <1>1. calls[c] \in Call
    BY CallFields
  <1>2. calls'[c] = [calls[c] EXCEPT !.pc = pc]
    BY DEF Goto, TypeOK
  <1>3. calls'[c] \in Call
    BY <1>1, <1>2 DEF Call
  <1>4. \A d \in Calls \ {c} : calls'[d] = calls[d]
    BY DEF Goto, TypeOK
  <1>5. calls' \in [Calls -> Call \union {Idle}]
    BY <1>3, <1>4 DEF Goto, TypeOK
  <1> QED
    BY <1>1, <1>2, <1>4, <1>5 DEF Call

(* A call ends. *)
LEMMA EndFacts ==
    ASSUME TypeOK, NEW c \in Calls, End(c)
    PROVE  /\ calls' \in [Calls -> Call \union {Idle}]
           /\ calls'[c] = Idle
           /\ \A d \in Calls \ {c} : calls'[d] = calls[d]
  BY DEF TypeOK, End

(* An operation begins. *)
LEMMA BeginFacts ==
    ASSUME TypeOK, NEW c \in Calls, NEW op \in Op, NEW pc \in PC,
           NEW m \in Machines \union {"none"}, NEW src \in Machines \union {"none"},
           Begin(c, op, m, src, pc)
    PROVE  /\ calls[c] = Idle
           /\ calls' \in [Calls -> Call \union {Idle}]
           /\ calls'[c].pc = pc
           /\ calls'[c].op = op
           /\ calls'[c].id = m
           /\ \A d \in Calls \ {c} : calls'[d] = calls[d]
  <1>1. calls'[c] = [op |-> op, id |-> m, src |-> src, pc |-> pc,
                     index |-> 0, previous |-> <<>>]
    BY DEF Begin, Idle, TypeOK
  <1>2. calls'[c] \in Call
    BY <1>1 DEF Call
  <1>3. \A d \in Calls \ {c} : calls'[d] = calls[d]
    BY DEF Begin, TypeOK
  <1>4. calls' \in [Calls -> Call \union {Idle}]
    BY <1>2, <1>3 DEF Begin, TypeOK
  <1> QED
    BY <1>1, <1>3, <1>4 DEF Begin

(* A setting remembers the one entry it is about to change. *)
LEMMA BeginChangeFacts ==
    ASSUME TypeOK, NEW c \in Calls, NEW op \in Op, NEW pc \in PC,
           NEW m \in Machines \union {"none"}, BeginChange(c, op, m, pc)
    PROVE  /\ calls[c] = Idle
           /\ calls' \in [Calls -> Call \union {Idle}]
           /\ calls'[c].pc = pc
           /\ calls'[c].op = op
           /\ Len(calls'[c].previous) = 1
           /\ \A d \in Calls \ {c} : calls'[d] = calls[d]
  <1> DEFINE k == IndexOf(machines, m)
  <1>1. k \in DOMAIN machines
    BY DEF BeginChange, Ids, IndexOf
  <1>2. k \in Nat /\ machines[k] \in Entry
    BY <1>1 DEF TypeOK
  <1>3. calls'[c] = [op |-> op, id |-> m, src |-> "none", pc |-> pc,
                     index |-> k, previous |-> <<machines[k]>>]
    BY DEF BeginChange, Idle, TypeOK
  <1> HIDE DEF k
  <1>4. <<machines[k]>> \in Seq(Entry) /\ Len(<<machines[k]>>) = 1
    BY <1>2
  <1>5. calls'[c] \in Call
    BY <1>2, <1>3, <1>4 DEF Call
  <1>6. \A d \in Calls \ {c} : calls'[d] = calls[d]
    BY DEF BeginChange, TypeOK
  <1>7. calls' \in [Calls -> Call \union {Idle}]
    BY <1>5, <1>6 DEF BeginChange, TypeOK
  <1> QED
    BY <1>3, <1>4, <1>6, <1>7 DEF BeginChange

(* A job of the LibraryStore belongs to a call. *)
LEMMA SaveFields ==
    ASSUME TypeOK
    PROVE  \A i \in DOMAIN saves :
              saves[i].call \in Calls /\ saves[i].list \in Seq(Entry)
  <1> DEFINE Job == [call: Calls, list: Seq(Entry)]
  <1>1. saves \in Seq(Job)
    BY DEF TypeOK
  <1> HIDE DEF Job
  <1>2. \A i \in DOMAIN saves : saves[i] \in Job
    BY <1>1
  <1> QED
    BY <1>2 DEF Job

(* try await persist() adds a job after all the others. *)
LEMMA SavesAppend ==
    ASSUME TypeOK, NEW c \in Calls, NEW list \in Seq(Entry), Persist(c, list)
    PROVE  /\ saves' \in Seq([call: Calls, list: Seq(Entry)])
           /\ DOMAIN saves' = DOMAIN saves \union {Len(saves) + 1}
           /\ \A i \in DOMAIN saves :
                 i \in Nat /\ i <= Len(saves) /\ saves'[i] = saves[i]
           /\ saves'[Len(saves) + 1].call = c
           /\ saves'[Len(saves) + 1].list = list
  <1> DEFINE job == [call |-> c, list |-> list]
             Job == [call: Calls, list: Seq(Entry)]
  <1>1. job \in Job /\ saves \in Seq(Job) /\ saves' = Append(saves, job)
    BY DEF TypeOK, Persist
  <1>2. job.call = c /\ job.list = list
    OBVIOUS
  <1> HIDE DEF job, Job
  <1>3. /\ saves' \in Seq(Job)
        /\ DOMAIN saves' = DOMAIN saves \union {Len(saves) + 1}
        /\ \A i \in DOMAIN saves :
              i \in Nat /\ i <= Len(saves) /\ saves'[i] = saves[i]
        /\ saves'[Len(saves) + 1] = job
    BY <1>1
  <1> QED
    BY <1>2, <1>3 DEF Job

-----------------------------------------------------------------------------
(* Steps                                                                    *)

(* A step of c after which c promises nothing: it changes only the files and
   the entry of the machine c is making, or of one that is being deleted. *)
LEMMA CallMoves ==
    ASSUME LibraryInv,
           NEW c \in Calls,
           ~At(c, "save"),
           calls' \in [Calls -> Call \union {Idle}],
           \A d \in Calls \ {c} : calls'[d] = calls[d],
           calls'[c].pc \notin {"made", "save", "saved"},
           calls'[c].op \in {"create", "clone", "delete"} =>
              /\ calls'[c].op = calls[c].op
              /\ calls'[c].id = calls[c].id,
           CallInv',
           machines' \in Seq(Entry),
           \A m \in Ids(machines) :
              m \in Ids(machines') \/ fate[m] = "doomed" \/ (Making(c) /\ m = calls[c].id),
           files' \in [Machines -> {"none", "partial", "whole"}],
           \A m \in Machines :
              files'[m] = files[m] \/ fate[m] = "doomed" \/ (Making(c) /\ m = calls[c].id),
           failed' \in BOOLEAN,
           UNCHANGED <<json, saves, fate>>
    PROVE  LibraryInv'
  <1> USE DEF LibraryInv
  <1>1. TypeOK'
    BY DEF TypeOK
  <1>2. CreatedIsKept' /\ QueueInv'
    BY DEF CreatedIsKept, QueueInv, FateInv, TypeOK
  <1>3. SavesInv'
    <2>1. \A i \in DOMAIN saves : saves[i].call \in Calls /\ saves[i].call # c
      BY SaveFields DEF SavesInv
    <2> QED
      BY <2>1 DEF SavesInv, At
  <1>4. FateInv'
    BY DEF FateInv, Making, Idle
  <1>5. MakingInv'
    <2> SUFFICES ASSUME NEW d \in Calls, Making(d)', (fate[calls[d].id] = "pending")'
                 PROVE  Promise(d)'
      BY DEF MakingInv
    <2>1. CASE d = c
      BY <2>1 DEF Promise, At
    <2>2. CASE d # c
      <3>1. /\ calls'[d] = calls[d] /\ Making(d) /\ Promise(d)
            /\ calls[d].id \in Machines /\ fate[calls[d].id] = "pending"
        BY <2>2 DEF MakingInv, Making, CallInv
      <3>2. ~(Making(c) /\ calls[d].id = calls[c].id)
        BY <2>2, <3>1 DEF FateInv
      <3>3. files'[calls[d].id] = files[calls[d].id]
        BY <3>1, <3>2
      <3>4. calls[d].id \in Ids(machines) => calls[d].id \in Ids(machines')
        BY <3>1, <3>2
      <3> QED
        BY <3>1, <3>3, <3>4 DEF Promise, At
    <2> QED
      BY <2>1, <2>2
  <1> QED
    BY <1>1, <1>2, <1>3, <1>4, <1>5

(* A step in which c asks for a save of the list.  A call that makes a machine
   has its files and has put it in the list. *)
LEMMA CallPersists ==
    ASSUME LibraryInv,
           NEW c \in Calls,
           ~At(c, "save"),
           calls' \in [Calls -> Call \union {Idle}],
           \A d \in Calls \ {c} : calls'[d] = calls[d],
           calls'[c].pc = "save",
           calls'[c].op \in {"create", "clone"} =>
              /\ At(c, "made")
              /\ calls'[c].op = calls[c].op
              /\ calls'[c].id = calls[c].id
              /\ calls[c].id \in Ids(machines'),
           calls'[c].op = "delete" =>
              /\ calls[c].op = "delete"
              /\ calls'[c].id = calls[c].id,
           CallInv',
           machines' \in Seq(Entry),
           \A m \in Ids(machines) : m \in Ids(machines') \/ fate[m] = "doomed",
           Persist(c, machines'),
           failed' \in BOOLEAN,
           UNCHANGED <<json, files, fate>>
    PROVE  LibraryInv'
  <1> USE DEF LibraryInv
  <1>0. /\ saves' \in Seq([call: Calls, list: Seq(Entry)])
        /\ DOMAIN saves' = DOMAIN saves \union {Len(saves) + 1}
        /\ \A i \in DOMAIN saves :
              i \in Nat /\ i <= Len(saves) /\ saves'[i] = saves[i]
        /\ saves'[Len(saves) + 1].call = c
        /\ saves'[Len(saves) + 1].list = machines'
    BY SavesAppend
  <1>a. Len(saves) \in Nat
    BY DEF TypeOK
  <1>1. TypeOK'
    BY <1>0 DEF TypeOK
  <1>2. CreatedIsKept' /\ QueueInv'
    BY <1>0 DEF CreatedIsKept, QueueInv
  <1>3. SavesInv'
    <2>1. \A i \in DOMAIN saves : saves[i].call # c /\ saves[i].call \in Calls
      BY SaveFields DEF SavesInv
    <2> DEFINE n == Len(saves) + 1
    <2>2. n \notin DOMAIN saves
      BY <1>0, <1>a
    <2>3. DOMAIN saves' = DOMAIN saves \union {n} /\ saves'[n].call = c
      BY <1>0
    <2>4. \A i \in DOMAIN saves : saves'[i].call = saves[i].call
      BY <1>0
    <2> HIDE DEF n
    <2>5. \A i \in DOMAIN saves' : calls'[saves'[i].call].pc = "save"
      <3>1. \A i \in DOMAIN saves : calls'[saves'[i].call].pc = "save"
        BY <2>1, <2>4 DEF SavesInv, At
      <3> QED
        BY <3>1, <2>3
    <2>6. \A i, j \in DOMAIN saves' : saves'[i].call = saves'[j].call => i = j
      BY <2>1, <2>3, <2>4 DEF SavesInv
    <2>7. ASSUME NEW d \in Calls, At(d, "save")'
          PROVE  \E i \in DOMAIN saves' : saves'[i].call = d
      <3>1. CASE d = c
        BY <3>1, <2>3
      <3>2. CASE d # c
        <4>1. PICK i \in DOMAIN saves : saves[i].call = d
          BY <3>2, <2>7 DEF SavesInv, At
        <4> QED
          BY <4>1, <2>3, <2>4
      <3> QED
        BY <3>1, <3>2
    <2> QED
      BY <2>5, <2>6, <2>7 DEF SavesInv, At
  <1>4. FateInv'
    BY DEF FateInv, Making, CallInv, At
  <1>5. MakingInv'
    <2> SUFFICES ASSUME NEW d \in Calls, Making(d)', (fate[calls[d].id] = "pending")'
                 PROVE  Promise(d)'
      BY DEF MakingInv
    <2>1. CASE d = c
      <3>1. /\ At(c, "made") /\ Making(c) /\ Promise(c)
            /\ calls'[c].id = calls[c].id /\ calls[c].id \in Ids(machines')
        BY <2>1 DEF MakingInv, Making
      <3>2. \A i, j \in DOMAIN saves' :
               saves'[i].call = c /\ i <= j => j = Len(saves) + 1
        <4>1. \A i \in DOMAIN saves : saves[i].call # c
          BY SaveFields DEF SavesInv
        <4> QED
          BY <1>0, <1>a, <4>1
      <3> QED
        BY <1>0, <2>1, <3>1, <3>2 DEF Promise, At
    <2>2. CASE d # c
      <3>1. /\ calls'[d] = calls[d] /\ Making(d) /\ Promise(d)
            /\ fate[calls[d].id] = "pending"
        BY <2>2 DEF MakingInv, Making
      <3>2. calls[d].id \in Ids(machines) => calls[d].id \in Ids(machines')
        BY <3>1
      <3> DEFINE m == calls[d].id
      <3>3. At(d, "save") => \A i, j \in DOMAIN saves' :
               saves'[i].call = d /\ i <= j => m \in Ids(saves'[j].list)
        BY <1>0, <1>a, <2>2, <3>1, <3>2 DEF Promise, At
      <3>4. At(d, "saved") => \A j \in DOMAIN saves' : m \in Ids(saves'[j].list)
        BY <1>0, <3>1, <3>2 DEF Promise, At
      <3> QED
        BY <3>1, <3>2, <3>3, <3>4 DEF Promise, At
    <2> QED
      BY <2>1, <2>2
  <1> QED
    BY <1>1, <1>2, <1>3, <1>4, <1>5

(* No machine has been made, and no call is in flight. *)
LEMMA InitInv == Init => LibraryInv
  <1> SUFFICES ASSUME Init PROVE LibraryInv
    OBVIOUS
  <1>1. TypeOK
    <2>1. machines \in Seq(Entry) /\ json \in Seq(Entry)
      BY DEF Init
    <2>2. saves \in Seq([call: Calls, list: Seq(Entry)])
      BY DEF Init
    <2> QED
      BY <2>1, <2>2 DEF Init, TypeOK
  <1>2. CreatedIsKept /\ QueueInv
    BY DEF Init, CreatedIsKept, QueueInv
  <1>3. CallInv /\ FateInv /\ MakingInv
    BY DEF Init, CallInv, FateInv, MakingInv, Making, At, Idle, Settings
  <1>4. SavesInv
    BY DEF Init, SavesInv, At, Idle
  <1> QED
    BY <1>1, <1>2, <1>3, <1>4 DEF LibraryInv

(* The end of the app and its launch: what library.json lists stays. *)
LEMMA RelaunchInv ==
    ASSUME LibraryInv, Relaunch
    PROVE  LibraryInv'
  <1> USE DEF LibraryInv, Relaunch
  <1>1. TypeOK'
    BY DEF TypeOK
  <1>2. CreatedIsKept' /\ QueueInv'
    BY DEF CreatedIsKept, QueueInv, TypeOK
  <1>3. CallInv' /\ FateInv' /\ MakingInv'
    BY DEF CallInv, FateInv, MakingInv, Making, At, Idle, Settings
  <1>4. SavesInv'
    BY DEF SavesInv, At, Idle
  <1> QED
    BY <1>1, <1>2, <1>3, <1>4

(* createMachine, cloneMachine and deleteMachine up to their first await. *)
LEMMA BeginInv ==
    ASSUME LibraryInv, NEW c \in Calls, NEW m \in Machines, NEW src \in Machines,
           Create(c, m) \/ Clone(c, src, m) \/ Delete(c, m)
    PROVE  LibraryInv'
  <1> USE DEF LibraryInv
  <1>1. PICK op \in {"create", "clone", "delete"}, from \in Machines \union {"none"} :
              Begin(c, op, m, from, "files")
    BY DEF Create, Clone, Delete
  <1>2. /\ calls[c] = Idle
        /\ calls' \in [Calls -> Call \union {Idle}]
        /\ calls'[c].pc = "files"
        /\ calls'[c].op \in {"create", "clone", "delete"}
        /\ calls'[c].id = m
        /\ \A d \in Calls \ {c} : calls'[d] = calls[d]
    BY <1>1, BeginFacts DEF Op, PC
  <1>3. /\ UNCHANGED <<machines, json, files, saves, failed>>
        /\ \/ /\ calls'[c].op \in {"create", "clone"}
              /\ fate[m] = "new" /\ fate' = [fate EXCEPT ![m] = "pending"]
           \/ /\ calls'[c].op = "delete"
              /\ fate' = [fate EXCEPT ![m] = "doomed"]
    BY BeginFacts DEF Create, Clone, Delete, Op, PC
  <1>4. TypeOK'
    BY <1>2, <1>3 DEF TypeOK
  <1>5. CreatedIsKept' /\ QueueInv'
    BY <1>3 DEF CreatedIsKept, QueueInv, TypeOK
  <1>6. CallInv'
    BY <1>2 DEF CallInv, Making, At, Settings
  <1>7. SavesInv'
    <2>1. \A i \in DOMAIN saves : saves[i].call \in Calls /\ saves[i].call # c
      BY <1>2, SaveFields DEF SavesInv, At, Idle
    <2> QED
      BY <1>2, <1>3, <2>1 DEF SavesInv, At
  <1>8. FateInv'
    <2>1. \A d \in Calls \ {c} :
             Making(d) \/ calls[d].op = "delete" =>
                /\ calls[d].id \in Machines
                /\ fate'[calls[d].id] = fate[calls[d].id] \/ fate'[calls[d].id] = "doomed"
      BY <1>3 DEF CallInv, FateInv, TypeOK
    <2>2. fate'[m] = IF calls'[c].op = "delete" THEN "doomed" ELSE "pending"
      BY <1>3 DEF TypeOK
    <2>3. \A d \in Calls \ {c} :
             Making(d) /\ calls'[c].op # "delete" => calls[d].id # m
      BY <1>3 DEF FateInv
    <2> QED
      BY <1>2, <2>1, <2>2, <2>3 DEF FateInv, Making
  <1>9. MakingInv'
    <2> SUFFICES ASSUME NEW d \in Calls, Making(d)', (fate[calls[d].id] = "pending")'
                 PROVE  Promise(d)'
      BY DEF MakingInv
    <2>1. CASE d = c
      BY <1>2, <2>1 DEF Promise, At
    <2>2. CASE d # c
      <3>1. calls'[d] = calls[d] /\ Making(d) /\ calls[d].id \in Machines
        BY <1>2, <2>2 DEF Making, CallInv
      <3>2. fate[calls[d].id] = "pending"
        BY <1>3, <3>1 DEF FateInv, TypeOK
      <3> QED
        BY <1>3, <3>1, <3>2 DEF MakingInv, Promise, At
    <2> QED
      BY <2>1, <2>2
  <1> QED
    BY <1>4, <1>5, <1>6, <1>7, <1>8, <1>9

(* The settings, removeCustomInputProfile and record(runtimeState:) up to
   their first await. *)
LEMMA ChangeFacts ==
    ASSUME LibraryInv, NEW c \in Calls, NEW m \in Machines \union {"none"},
           NEW op \in Settings,
           Change(c, op, m) \/ Attach(c, m) \/ Reset(c) \/ Record(c)
    PROVE  /\ calls[c] = Idle
           /\ calls' \in [Calls -> Call \union {Idle}]
           /\ calls'[c].op \notin {"create", "clone", "delete"}
           /\ \A d \in Calls \ {c} : calls'[d] = calls[d]
           /\ CallInv'
           /\ machines' \in Seq(Entry) /\ Ids(machines') = Ids(machines)
           /\ \/ calls'[c].pc = "save" /\ Persist(c, machines')
              \/ calls'[c].pc \in {"tools", "task"} /\ saves' = saves
           /\ UNCHANGED <<json, files, fate, failed>>
  <1> USE DEF LibraryInv
  <1>0. op \in Op /\ {"save", "tools", "task"} \subseteq PC
        /\ {"setAt", "reset", "record"} \subseteq Op /\ {"automatic", "custom"} \subseteq Setting
    BY DEF Settings, Op, PC, Setting
  <1>1. CASE Change(c, op, m)
    <2>1. BeginChange(c, op, m, "save") /\ Persist(c, machines')
          /\ UNCHANGED <<json, files, fate, failed>>
      BY <1>1 DEF Change
    <2>2. /\ calls[c] = Idle
          /\ calls' \in [Calls -> Call \union {Idle}]
          /\ calls'[c].pc = "save"
          /\ calls'[c].op = op
          /\ Len(calls'[c].previous) = 1
          /\ \A d \in Calls \ {c} : calls'[d] = calls[d]
      BY <1>0, <2>1, BeginChangeFacts
    <2>3. machines' \in Seq(Entry) /\ Ids(machines') = Ids(machines)
      BY <1>0, <1>1, IdsWith DEF Change, TypeOK
    <2>4. CallInv'
      BY <2>2 DEF CallInv, Making, At, Settings
    <2> QED
      BY <2>1, <2>2, <2>3, <2>4 DEF Settings
  <1>2. CASE Attach(c, m)
    <2>1. BeginChange(c, "setAt", m, "tools") /\ UNCHANGED <<json, files, saves, fate, failed>>
      BY <1>2 DEF Attach
    <2>2. /\ calls[c] = Idle
          /\ calls' \in [Calls -> Call \union {Idle}]
          /\ calls'[c].pc = "tools"
          /\ calls'[c].op = "setAt"
          /\ Len(calls'[c].previous) = 1
          /\ \A d \in Calls \ {c} : calls'[d] = calls[d]
      BY <1>0, <2>1, BeginChangeFacts
    <2>3. machines' \in Seq(Entry) /\ Ids(machines') = Ids(machines)
      BY <1>0, <1>2, IdsWith DEF Attach, TypeOK
    <2>4. CallInv'
      BY <2>2 DEF CallInv, Making, At, Settings
    <2> QED
      BY <2>1, <2>2, <2>3, <2>4
  <1>3. CASE Reset(c)
    <2>1. /\ calls[c] = Idle
          /\ Persist(c, machines') /\ UNCHANGED <<json, files, fate, failed>>
      BY <1>3 DEF Reset
    <2>2. /\ calls'[c] = [op |-> "reset", id |-> "none", src |-> "none", pc |-> "save",
                          index |-> 0, previous |-> machines]
          /\ \A d \in Calls \ {c} : calls'[d] = calls[d]
      BY <1>3 DEF Reset, Idle, TypeOK
    <2>3. calls'[c] \in Call
      BY <1>0, <2>2 DEF Call, TypeOK
    <2>4. calls' \in [Calls -> Call \union {Idle}]
      BY <1>3, <2>2, <2>3 DEF Reset, TypeOK
    <2>5. machines' \in Seq(Entry) /\ Ids(machines') = Ids(machines)
      <3>1. ASSUME NEW i \in DOMAIN machines
            PROVE  machines'[i] \in Entry /\ machines'[i].id = machines[i].id
        <4>1. machines[i] \in Entry
          BY DEF TypeOK
        <4>2. machines'[i] = [machines[i] EXCEPT !.setting = "automatic"]
          BY <1>3 DEF Reset
        <4> QED
          BY <1>0, <4>1, <4>2 DEF Entry
      <3>2. DOMAIN machines' = DOMAIN machines
        BY <1>3 DEF Reset
      <3>3. machines' \in Seq(Entry)
        BY <1>3, <3>1, <3>2 DEF Reset, TypeOK
      <3> QED
        BY <3>1, <3>2, <3>3 DEF Ids
    <2>6. CallInv'
      BY <2>2 DEF CallInv, Making, At, Settings
    <2> QED
      BY <2>1, <2>2, <2>4, <2>5, <2>6
  <1>4. CASE Record(c)
    <2>1. Begin(c, "record", "none", "none", "task")
          /\ UNCHANGED <<json, files, saves, fate, failed>>
      BY <1>4 DEF Record
    <2>2. /\ calls[c] = Idle
          /\ calls' \in [Calls -> Call \union {Idle}]
          /\ calls'[c].pc = "task"
          /\ calls'[c].op = "record"
          /\ \A d \in Calls \ {c} : calls'[d] = calls[d]
      BY <1>0, <2>1, BeginFacts
    <2>3. machines' \in Seq(Entry) /\ Ids(machines') = Ids(machines)
      BY <1>0, <1>4, IdsWith DEF Record, TypeOK
    <2>4. CallInv'
      BY <2>2 DEF CallInv, Making, At, Settings
    <2> QED
      BY <2>1, <2>2, <2>3, <2>4
  <1> QED
    BY <1>1, <1>2, <1>3, <1>4

LEMMA ChangeInv ==
    ASSUME LibraryInv, NEW c \in Calls, NEW m \in Machines \union {"none"},
           NEW op \in Settings,
           Change(c, op, m) \/ Attach(c, m) \/ Reset(c) \/ Record(c)
    PROVE  LibraryInv'
  <1>1. ~At(c, "save") /\ failed \in BOOLEAN
        /\ files \in [Machines -> {"none", "partial", "whole"}]
    <2>1. calls[c] = Idle
      BY ChangeFacts
    <2> QED
      BY <2>1 DEF At, Idle, LibraryInv, TypeOK
  <1>2. CASE calls'[c].pc = "save"
    <2>1. /\ calls' \in [Calls -> Call \union {Idle}]
          /\ calls'[c].op \notin {"create", "clone", "delete"}
          /\ \A d \in Calls \ {c} : calls'[d] = calls[d]
          /\ CallInv'
          /\ machines' \in Seq(Entry)
          /\ \A n \in Ids(machines) : n \in Ids(machines') \/ fate[n] = "doomed"
          /\ Persist(c, machines')
          /\ UNCHANGED <<json, files, fate, failed>>
      BY <1>2, ChangeFacts
    <2>2. failed' \in BOOLEAN
      BY <1>1, <2>1
    <2> QED
      BY <1>1, <1>2, <2>1, <2>2, CallPersists
  <1>3. CASE calls'[c].pc \in {"tools", "task"} /\ saves' = saves
    BY <1>1, <1>3, ChangeFacts, CallMoves
  <1> QED
    BY <1>2, <1>3, ChangeFacts

(* The ManagedMachineStore touches the directory of the machine its job is
   for, and no other. *)
LEMMA StoreInv ==
    ASSUME LibraryInv, NEW c \in Calls,
           StoreBegins(c) \/ StoreEnds(c) \/ StoreFails(c) \/ StoreUndoes(c)
    PROVE  LibraryInv'
  <1> USE DEF LibraryInv
  <1>0. /\ calls[c].pc \in {"files", "half", "undo", "undoing"}
        /\ Making(c) \/ calls[c].op = "delete"
        /\ calls[c].id \in Machines
        /\ ~Making(c) => fate[calls[c].id] = "doomed"
        /\ UNCHANGED <<machines, json, saves, fate>>
        /\ failed' \in BOOLEAN
    BY DEF StoreBegins, StoreEnds, StoreFails, StoreUndoes, At, CallInv, FateInv, TypeOK
  <1>1. PICK pc \in {"half", "undoing", "noFiles", "removed", "made", "idle"} :
           /\ IF pc = "idle" THEN End(c) ELSE Goto(c, pc)
           /\ pc = "made" => StoreEnds(c) /\ calls[c].op # "delete"
           /\ pc = "removed" => calls[c].op = "delete"
           /\ pc = "undoing" => calls[c].pc = "undo"
    BY DEF StoreBegins, StoreEnds, StoreFails, StoreUndoes
  <1>2. /\ calls' \in [Calls -> Call \union {Idle}]
        /\ \A d \in Calls \ {c} : calls'[d] = calls[d]
        /\ calls'[c].pc = pc
        /\ pc # "idle" => /\ calls'[c].op = calls[c].op
                          /\ calls'[c].id = calls[c].id
                          /\ calls'[c].previous = calls[c].previous
        /\ pc = "idle" => calls'[c] = Idle
    BY <1>0, <1>1, GotoFacts, EndFacts DEF PC, Idle
  <1>3. /\ files' \in [Machines -> {"none", "partial", "whole"}]
        /\ \A m \in Machines : m # calls[c].id => files'[m] = files[m]
    BY <1>0 DEF StoreBegins, StoreEnds, StoreFails, StoreUndoes, TypeOK
  <1>4. CallInv'
    BY <1>0, <1>1, <1>2 DEF CallInv, Making, At, Settings, Idle
  <1>5. CASE pc # "made"
    <2>1. ~At(c, "save") /\ machines' \in Seq(Entry) /\ machines' = machines
      BY <1>0 DEF At, TypeOK
    <2>2. calls'[c].op \in {"create", "clone", "delete"} =>
             calls'[c].op = calls[c].op /\ calls'[c].id = calls[c].id
      BY <1>2 DEF Idle
    <2>3. calls'[c].pc \notin {"made", "save", "saved"}
      BY <1>1, <1>2, <1>5
    <2>4. \A m \in Machines :
             files'[m] = files[m] \/ fate[m] = "doomed" \/ (Making(c) /\ m = calls[c].id)
      BY <1>0, <1>3
    <2> QED
      BY <1>0, <1>2, <1>3, <1>4, <2>1, <2>2, <2>3, <2>4, CallMoves
  <1>6. CASE pc = "made"
    <2>1. Making(c) /\ files'[calls[c].id] = "whole" /\ ~At(c, "save")
      BY <1>0, <1>1, <1>6 DEF StoreEnds, TypeOK, At
    <2>2. TypeOK'
      BY <1>0, <1>2, <1>3 DEF TypeOK
    <2>3. CreatedIsKept' /\ QueueInv'
      BY <1>0, <1>3, <2>1 DEF CreatedIsKept, QueueInv, FateInv
    <2>4. SavesInv'
      <3>1. \A i \in DOMAIN saves : saves[i].call \in Calls /\ saves[i].call # c
        BY <2>1, SaveFields DEF SavesInv
      <3> QED
        BY <1>0, <1>2, <1>6, <3>1 DEF SavesInv, At
    <2>5. FateInv'
      BY <1>0, <1>2, <1>6 DEF FateInv, Making
    <2>6. MakingInv'
      <3> SUFFICES ASSUME NEW d \in Calls, Making(d)', (fate[calls[d].id] = "pending")'
                   PROVE  Promise(d)'
        BY DEF MakingInv
      <3>1. CASE d = c
        BY <1>2, <1>6, <2>1, <3>1 DEF Promise, At
      <3>2. CASE d # c
        <4>1. /\ calls'[d] = calls[d] /\ Making(d) /\ Promise(d)
              /\ calls[d].id \in Machines
          BY <1>0, <1>2, <3>2 DEF MakingInv, Making, CallInv
        <4>2. files'[calls[d].id] = files[calls[d].id]
          BY <1>3, <2>1, <3>2, <4>1 DEF FateInv
        <4> QED
          BY <1>0, <4>1, <4>2 DEF Promise, At
      <3> QED
        BY <3>1, <3>2
    <2> QED
      BY <1>4, <2>2, <2>3, <2>4, <2>5, <2>6
  <1> QED
    BY <1>5, <1>6

(* The LibraryStore takes the jobs in order: the list it writes has every
   machine reported as made, and those of the calls that are at "saved". *)
LEMMA SaveInv ==
    ASSUME LibraryInv, SaveNext \/ SaveFails
    PROVE  LibraryInv'
  <1> USE DEF LibraryInv
  <1> DEFINE c == Head(saves).call
             Job == [call: Calls, list: Seq(Entry)]
  <1>0. saves \in Seq(Job) /\ saves # <<>>
    BY DEF SaveNext, SaveFails, TypeOK
  <1> HIDE DEF Job
  <1>1. /\ Head(saves) = saves[1] /\ 1 \in DOMAIN saves
        /\ saves' = Tail(saves) /\ saves' \in Seq(Job)
        /\ \A i \in DOMAIN saves' :
              i \in Nat /\ i + 1 \in DOMAIN saves /\ saves'[i] = saves[i + 1]
        /\ \A i \in DOMAIN saves : i = 1 \/ (i \in Nat /\ i - 1 \in DOMAIN saves')
    BY <1>0 DEF SaveNext, SaveFails
  <1>2. c \in Calls /\ At(c, "save") /\ saves[1].list \in Seq(Entry)
    BY <1>1, SaveFields DEF SavesInv
  <1>3. PICK pc \in {"saved", "unsaved"} :
           /\ Goto(c, pc)
           /\ pc = "saved" => json' = saves[1].list
           /\ pc = "unsaved" => json' = json
    BY <1>1 DEF SaveNext, SaveFails
  <1>4. UNCHANGED <<machines, files, fate>> /\ failed' \in BOOLEAN
    BY DEF SaveNext, SaveFails, TypeOK
  <1> HIDE DEF c
  <1>5. /\ calls' \in [Calls -> Call \union {Idle}]
        /\ calls'[c].pc = pc
        /\ calls'[c].op = calls[c].op
        /\ calls'[c].id = calls[c].id
        /\ calls'[c].previous = calls[c].previous
        /\ \A d \in Calls \ {c} : calls'[d] = calls[d]
    BY <1>2, <1>3, GotoFacts DEF At, PC
  <1>6. TypeOK'
    BY <1>1, <1>2, <1>3, <1>4, <1>5 DEF TypeOK, Job
  <1>7. CreatedIsKept' /\ QueueInv'
    BY <1>1, <1>3, <1>4 DEF CreatedIsKept, QueueInv
  <1>8. CallInv'
    BY <1>2, <1>3, <1>5 DEF CallInv, Making, At, Settings
  <1>9. SavesInv'
    <2>1. \A i \in DOMAIN saves' : saves'[i].call \in Calls /\ saves'[i].call # c
      <3>1. ASSUME NEW i \in DOMAIN saves' PROVE saves'[i].call # c
        <4>1. i + 1 # 1 /\ i + 1 \in DOMAIN saves /\ 1 \in DOMAIN saves
          BY <1>1
        <4>2. saves[1].call = c
          BY <1>1 DEF c
        <4> QED
          BY <1>1, <4>1, <4>2 DEF SavesInv
      <3> QED
        BY <1>1, <3>1, SaveFields
    <2>2. \A i \in DOMAIN saves' : calls'[saves'[i].call].pc = "save"
      <3> SUFFICES ASSUME NEW i \in DOMAIN saves' PROVE calls'[saves'[i].call].pc = "save"
        OBVIOUS
      <3>1. calls[saves'[i].call].pc = "save"
        BY <1>1 DEF SavesInv, At
      <3> QED
        BY <1>5, <2>1, <3>1
    <2>3. \A i, j \in DOMAIN saves' : saves'[i].call = saves'[j].call => i = j
      <3> SUFFICES ASSUME NEW i \in DOMAIN saves', NEW j \in DOMAIN saves',
                          saves'[i].call = saves'[j].call
                   PROVE  i = j
        OBVIOUS
      <3>1. i + 1 = j + 1
        BY <1>1 DEF SavesInv
      <3> QED
        BY <1>1, <3>1
    <2>4. ASSUME NEW d \in Calls, At(d, "save")'
          PROVE  \E i \in DOMAIN saves' : saves'[i].call = d
      <3>1. d # c /\ At(d, "save")
        BY <1>3, <1>5, <2>4 DEF At
      <3>2. PICK i \in DOMAIN saves : saves[i].call = d
        BY <3>1 DEF SavesInv
      <3>3. i # 1
        BY <1>1, <3>1, <3>2 DEF c
      <3>4. i - 1 \in DOMAIN saves' /\ i \in Nat /\ (i - 1) + 1 = i
        BY <1>1, <3>3
      <3> QED
        BY <1>1, <3>2, <3>4
    <2> QED
      BY <2>2, <2>3, <2>4 DEF SavesInv, At
  <1>10. FateInv'
    BY <1>2, <1>4, <1>5 DEF FateInv, Making
  <1>11. MakingInv'
    <2> SUFFICES ASSUME NEW d \in Calls, Making(d)', (fate[calls[d].id] = "pending")'
                 PROVE  Promise(d)'
      BY DEF MakingInv
    <2>1. Making(d) /\ Promise(d) /\ calls'[d].id = calls[d].id
      BY <1>4, <1>5 DEF MakingInv, Making
    <2>2. CASE d = c
      <3>1. \A j \in DOMAIN saves : 1 <= j /\ calls[d].id \in Ids(saves[j].list)
        BY <1>1, <1>2, <2>1, <2>2 DEF Promise, c
      <3> QED
        BY <1>1, <1>2, <1>3, <1>4, <1>5, <2>1, <2>2, <3>1 DEF Promise, At
    <2>3. CASE d # c
      <3>1. calls'[d] = calls[d]
        BY <1>5, <2>3
      <3>2. ASSUME At(d, "save"), NEW i \in DOMAIN saves', NEW j \in DOMAIN saves',
                   saves'[i].call = d, i <= j
            PROVE  calls[d].id \in Ids(saves'[j].list)
        <4>1. i + 1 <= j + 1 /\ i + 1 \in DOMAIN saves /\ j + 1 \in DOMAIN saves
              /\ saves'[i] = saves[i + 1] /\ saves'[j] = saves[j + 1]
          BY <1>1, <3>2
        <4> QED
          BY <2>1, <3>2, <4>1 DEF Promise
      <3>3. At(d, "saved") =>
              /\ calls[d].id \in Ids(json')
              /\ \A j \in DOMAIN saves' : calls[d].id \in Ids(saves'[j].list)
        BY <1>1, <1>3, <2>1 DEF Promise
      <3> QED
        BY <1>4, <2>1, <3>1, <3>2, <3>3 DEF Promise, At
    <2> QED
      BY <2>2, <2>3
  <1> QED
    BY <1>6, <1>7, <1>8, <1>9, <1>10, <1>11

(* The operations ask for the save of the list once their files are made or
   removed, their task runs, or their tools are prepared. *)
LEMMA AsksForSaveInv ==
    ASSUME LibraryInv, NEW c \in Calls,
           \/ Made(c) \/ Removed(c) \/ TaskRuns(c)
           \/ (At(c, "tools") /\ Persist(c, machines) /\ Goto(c, "save")
               /\ UNCHANGED <<machines, json, files, fate, failed>>)
    PROVE  LibraryInv'
  <1> USE DEF LibraryInv
  <1>0. /\ calls[c].pc \in {"made", "removed", "task", "tools"}
        /\ Goto(c, "save")
        /\ Persist(c, machines')
        /\ UNCHANGED <<json, files, fate, failed>>
    BY DEF Made, Removed, TaskRuns, Persist, At
  <1>1. /\ calls' \in [Calls -> Call \union {Idle}]
        /\ calls'[c].pc = "save"
        /\ calls'[c].op = calls[c].op
        /\ calls'[c].id = calls[c].id
        /\ calls'[c].previous = calls[c].previous
        /\ \A d \in Calls \ {c} : calls'[d] = calls[d]
    BY <1>0, GotoFacts DEF PC
  <1>2. /\ machines' \in Seq(Entry)
        /\ \A m \in Ids(machines) : m \in Ids(machines') \/ fate[m] = "doomed"
        /\ At(c, "made") => calls[c].id \in Ids(machines')
    <2>1. CASE Made(c)
      <3> DEFINE e == [id |-> calls[c].id, setting |-> "automatic"]
      <3>1. calls[c].id \in Machines
        BY <2>1 DEF Made, At, CallInv
      <3>2. e \in Entry /\ e.id = calls[c].id
        BY <3>1 DEF Entry, Setting
      <3>3. machines \in Seq(Entry) /\ machines' = Append(machines, e)
        BY <2>1 DEF Made, TypeOK
      <3> HIDE DEF e
      <3> QED
        BY <3>2, <3>3, IdsAppend
    <2>2. CASE Removed(c)
      <3>1. At(c, "removed") /\ fate[calls[c].id] = "doomed"
        BY <2>2 DEF Removed, At, CallInv, FateInv
      <3> QED
        BY <2>2, <3>1, IdsWithout DEF Removed, TypeOK, At
    <2>3. CASE machines' = machines /\ ~At(c, "made")
      BY <2>3 DEF TypeOK
    <2> QED
      BY <2>1, <2>2, <2>3 DEF TaskRuns, At
  <1>3. CallInv'
    BY <1>0, <1>1 DEF CallInv, Making, At, Settings
  <1>4. ~At(c, "save") /\ failed' \in BOOLEAN
    BY <1>0 DEF At, TypeOK
  <1>5. Making(c) => At(c, "made")
    BY <1>0 DEF CallInv, Making, At
  <1> QED
    BY <1>0, <1>1, <1>2, <1>3, <1>4, <1>5, CallPersists DEF Making

(* What a setting puts back when it could not be saved keeps every machine. *)
LEMMA RollbackKeeps ==
    ASSUME LibraryInv, NEW c \in Calls, NotChanged(c), calls[c].op # "reset"
    PROVE  machines' \in Seq(Entry) /\ Ids(machines') = Ids(machines) /\ fate' = fate
  <1> USE DEF LibraryInv
  <1>1. /\ At(c, "unsaved") /\ machines' = RolledBack(c)
        /\ machines \in Seq(Entry)
    BY DEF NotChanged, At, TypeOK
  <1>a. fate' = fate
    <2>1. fate' = [m \in Machines |-> fate[m]]
      BY DEF NotChanged
    <2> QED
      BY <2>1 DEF TypeOK
  <1>2. ASSUME calls[c].op \in Settings
        PROVE  Previous(c) \in Setting
    <2>1. calls[c].previous \in Seq(Entry) /\ Len(calls[c].previous) = 1
      BY <1>1, <1>2, CallFields DEF At, Call, CallInv
    <2>2. calls[c].previous[1] \in Entry
      BY <2>1
    <2> QED
      BY <2>2 DEF Previous, Entry
  <1>3. CASE calls[c].op \in {"set", "share"}
    <2>1. machines' = With(machines, calls[c].id, Previous(c))
      BY <1>1, <1>3 DEF RolledBack
    <2> QED
      BY <1>a, <1>1, <1>2, <1>3, <2>1, IdsWith DEF Settings
  <1>4. CASE calls[c].op = "setAt"
    <2> DEFINE k == calls[c].index
    <2>1. k \in DOMAIN machines /\ Previous(c) \in Setting
      BY <1>2, <1>4 DEF NotChanged, IndexIsValid, Settings
    <2>2. machines' = [machines EXCEPT ![k].setting = Previous(c)]
      BY <1>1, <1>4 DEF RolledBack
    <2> HIDE DEF k
    <2>3. ASSUME NEW i \in DOMAIN machines
          PROVE  machines'[i] \in Entry /\ machines'[i].id = machines[i].id
      <3>1. machines[i] \in Entry
        BY <1>1
      <3>2. machines'[i] = IF i = k THEN [machines[i] EXCEPT !.setting = Previous(c)]
                           ELSE machines[i]
        BY <1>1, <2>1, <2>2
      <3> QED
        BY <2>1, <3>1, <3>2 DEF Entry
    <2>4. DOMAIN machines' = DOMAIN machines
      BY <2>2
    <2>5. machines' \in Seq(Entry)
      <3>1. machines \in [1..Len(machines) -> Entry] /\ Len(machines) \in Nat
        BY <1>1
      <3>2. [machines[k] EXCEPT !.setting = Previous(c)] \in Entry
        <4>1. machines[k] \in Entry
          BY <1>1, <2>1
        <4> QED
          BY <2>1, <4>1 DEF Entry
      <3>3. machines' \in [1..Len(machines) -> Entry]
        BY <2>2, <3>1, <3>2
      <3> QED
        BY <3>1, <3>3
    <2> QED
      BY <1>a, <2>3, <2>4, <2>5 DEF Ids
  <1>5. CASE calls[c].op \notin {"set", "share", "setAt"}
    BY <1>a, <1>1, <1>5 DEF RolledBack
  <1> QED
    BY <1>3, <1>4, <1>5

(* A call returns, or undoes what it did. *)
LEMMA ReturnsInv ==
    ASSUME LibraryInv, NEW c \in Calls,
           \/ NotProvisioned(c) \/ NoFiles(c) \/ NotCreated(c)
           \/ (NotChanged(c) /\ calls[c].op # "reset")
           \/ (At(c, "tools") /\ Goto(c, "unsaved") /\ failed' = TRUE
               /\ UNCHANGED <<machines, json, files, saves, fate>>)
           \/ (Saved(c) /\ fate' = fate)
    PROVE  LibraryInv'
  <1> USE DEF LibraryInv
  <1>0. /\ calls[c].pc \in {"made", "noFiles", "unsaved", "tools", "saved"}
        /\ UNCHANGED <<json, files, saves, fate>>
        /\ failed' \in BOOLEAN
        /\ files' \in [Machines -> {"none", "partial", "whole"}]
    BY RollbackKeeps
       DEF NotProvisioned, NoFiles, NotCreated, NotChanged, Saved, At, TypeOK
  <1>1. PICK pc \in {"undo", "unsaved", "idle"} :
           /\ IF pc = "idle" THEN End(c) ELSE Goto(c, pc)
           /\ pc = "undo" => Making(c)
           /\ pc = "unsaved" => At(c, "tools")
    BY DEF NotProvisioned, NoFiles, NotCreated, NotChanged, Saved, Making
  <1>2. /\ calls' \in [Calls -> Call \union {Idle}]
        /\ \A d \in Calls \ {c} : calls'[d] = calls[d]
        /\ calls'[c].pc = pc
        /\ pc # "idle" => /\ calls'[c].op = calls[c].op
                          /\ calls'[c].id = calls[c].id
                          /\ calls'[c].previous = calls[c].previous
        /\ pc = "idle" => calls'[c] = Idle
    BY <1>0, <1>1, GotoFacts, EndFacts DEF PC, Idle
  <1>3. CallInv'
    BY <1>0, <1>1, <1>2 DEF CallInv, Making, At, Settings, Idle
  <1>4. /\ machines' \in Seq(Entry)
        /\ \A m \in Ids(machines) :
              m \in Ids(machines') \/ (Making(c) /\ m = calls[c].id)
    <2>1. CASE NotChanged(c) /\ calls[c].op # "reset"
      BY <2>1, RollbackKeeps
    <2>2. CASE NotCreated(c)
      BY <2>2, IdsWithout DEF NotCreated, Making, TypeOK
    <2>3. CASE machines' = machines
      BY <2>3 DEF TypeOK
    <2> QED
      BY <2>1, <2>2, <2>3 DEF NotProvisioned, NoFiles, Saved
  <1>5. calls'[c].op \in {"create", "clone", "delete"} =>
           calls'[c].op = calls[c].op /\ calls'[c].id = calls[c].id
    BY <1>2 DEF Idle
  <1>6. ~At(c, "save") /\ calls'[c].pc \notin {"made", "save", "saved"}
    BY <1>0, <1>1, <1>2 DEF At
  <1> QED
    BY <1>0, <1>2, <1>3, <1>4, <1>5, <1>6, CallMoves

(* createMachine or cloneMachine returns: the machine counts as made, and it
   is in the list, in library.json, in every save to come, and on the disk. *)
LEMMA CreatedInv ==
    ASSUME LibraryInv, NEW c \in Calls, Saved(c), fate' # fate
    PROVE  LibraryInv'
  <1> USE DEF LibraryInv
  <1> DEFINE n == calls[c].id
  <1>0. /\ At(c, "saved") /\ Making(c) /\ fate[n] = "pending"
        /\ fate' = [fate EXCEPT ![n] = "created"]
        /\ UNCHANGED <<machines, json, files, saves, failed>>
        /\ End(c)
    BY DEF Saved, Making
  <1>1. /\ calls' \in [Calls -> Call \union {Idle}]
        /\ calls'[c] = Idle
        /\ \A d \in Calls \ {c} : calls'[d] = calls[d]
    BY <1>0, EndFacts
  <1>2. n \in Machines /\ Promise(c)
    BY <1>0 DEF CallInv, MakingInv
  <1>3. /\ files[n] = "whole" /\ n \in Ids(machines) /\ n \in Ids(json)
        /\ \A j \in DOMAIN saves : n \in Ids(saves[j].list)
    BY <1>0, <1>2 DEF Promise, At
  <1>4. fate'[n] = "created" /\ \A m \in Machines \ {n} : fate'[m] = fate[m]
    BY <1>0, <1>2 DEF TypeOK
  <1> HIDE DEF n
  <1>5. TypeOK'
    BY <1>0, <1>1 DEF TypeOK
  <1>6. CreatedIsKept' /\ QueueInv'
    BY <1>0, <1>3, <1>4 DEF CreatedIsKept, QueueInv
  <1>7. CallInv'
    BY <1>1 DEF CallInv, Making, At, Settings, Idle
  <1>8. SavesInv'
    <2>1. \A i \in DOMAIN saves : saves[i].call \in Calls /\ saves[i].call # c
      BY <1>0, SaveFields DEF SavesInv, At
    <2> QED
      BY <1>0, <1>1, <2>1 DEF SavesInv, At, Idle
  <1>9. ASSUME NEW d \in Calls, Making(d)' \/ calls'[d].op = "delete"
        PROVE  /\ calls'[d] = calls[d] /\ calls[d].id \in Machines
               /\ calls[d].id # n
               /\ fate'[calls[d].id] = fate[calls[d].id]
    <2>1. d # c /\ calls'[d] = calls[d]
      BY <1>1, <1>9 DEF Making, Idle
    <2>2. calls[d].id \in Machines /\ calls[d].id # n
      BY <1>0, <1>9, <2>1 DEF CallInv, FateInv, Making, n
    <2> QED
      BY <1>4, <2>1, <2>2
  <1>10. FateInv'
    BY <1>9 DEF FateInv, Making
  <1>11. MakingInv'
    BY <1>0, <1>9 DEF MakingInv, Making, Promise, At
  <1> QED
    BY <1>5, <1>6, <1>7, <1>8, <1>10, <1>11

(* removeCustomInputProfile puts back the list it has taken: what it leaves out
   is no longer promised, and what it has was there before. *)
LEMMA PutBackInv ==
    ASSUME LibraryInv, NEW c \in Calls, NotChanged(c), calls[c].op = "reset"
    PROVE  LibraryInv'
  <1> USE DEF LibraryInv
  <1>0. /\ At(c, "unsaved") /\ End(c)
        /\ machines' = calls[c].previous
        /\ UNCHANGED <<json, files, saves, failed>>
        /\ fate' = [m \in Machines |-> IF m \in MadeSince(c) THEN "leftOut" ELSE fate[m]]
    BY DEF NotChanged, RolledBack
  <1>1. /\ calls' \in [Calls -> Call \union {Idle}]
        /\ calls'[c] = Idle
        /\ \A d \in Calls \ {c} : calls'[d] = calls[d]
    BY <1>0, EndFacts DEF At
  <1>2. machines' \in Seq(Entry)
    BY <1>0, CallFields DEF At, Call
  <1>3. \A m \in Machines :
           /\ fate'[m] \in {fate[m], "leftOut"}
           /\ fate[m] = "doomed" => fate'[m] = "doomed"
           /\ fate'[m] \in {"created", "pending"} /\ m \in Ids(machines) =>
                m \in Ids(machines')
    BY <1>0 DEF MadeSince
  <1>4. TypeOK'
    <2>1. fate' \in [Machines -> {"new", "pending", "created", "doomed", "leftOut"}]
      BY <1>0 DEF TypeOK
    <2> QED
      BY <1>0, <1>1, <1>2, <2>1 DEF TypeOK
  <1>5. CreatedIsKept'
    BY <1>0, <1>3 DEF CreatedIsKept
  <1>6. QueueInv'
    BY <1>0, <1>3 DEF QueueInv
  <1>7. CallInv'
    BY <1>1 DEF CallInv, Making, At, Settings, Idle
  <1>8. SavesInv'
    <2>1. \A i \in DOMAIN saves : saves[i].call \in Calls /\ saves[i].call # c
      BY <1>0, SaveFields DEF SavesInv, At
    <2> QED
      BY <1>0, <1>1, <2>1 DEF SavesInv, At, Idle
  <1>9. ASSUME NEW d \in Calls, Making(d)' \/ calls'[d].op = "delete"
        PROVE  /\ calls'[d] = calls[d] /\ calls[d].id \in Machines
               /\ Making(d) \/ calls[d].op = "delete"
    BY <1>1, <1>9 DEF Making, Idle, CallInv
  <1>10. FateInv'
    BY <1>3, <1>9 DEF FateInv, Making
  <1>11. MakingInv'
    <2> SUFFICES ASSUME NEW d \in Calls, Making(d)', (fate[calls[d].id] = "pending")'
                 PROVE  Promise(d)'
      BY DEF MakingInv
    <2>1. calls'[d] = calls[d] /\ calls[d].id \in Machines /\ Making(d)
      BY <1>9 DEF Making
    <2>2. fate[calls[d].id] = "pending"
      BY <1>3, <2>1
    <2>3. Promise(d)
      BY <2>1, <2>2 DEF MakingInv
    <2>4. calls[d].id \in Ids(machines) => calls[d].id \in Ids(machines')
      BY <1>3, <2>1
    <2> QED
      BY <1>0, <2>1, <2>3, <2>4 DEF Promise, At
  <1> QED
    BY <1>4, <1>5, <1>6, <1>7, <1>8, <1>10, <1>11

-----------------------------------------------------------------------------
(* Theorems                                                                 *)

(* Every step of the app, of its two stores and of the system preserves the
   invariant. *)
LEMMA NextInv ==
    ASSUME LibraryInv, [Next]_vars
    PROVE  LibraryInv'
  <1>1. CASE UNCHANGED vars
    BY <1>1 DEF vars, LibraryInv, TypeOK, CreatedIsKept, QueueInv, CallInv, SavesInv,
                FateInv, MakingInv, Promise, Making, At
  <1>2. CASE SaveNext \/ SaveFails
    BY <1>2, SaveInv
  <1>3. CASE Crash
    BY <1>3, RelaunchInv DEF Crash
  <1>4. ASSUME NEW c \in Calls, Press(c)
        PROVE  LibraryInv'
    <2>1. ASSUME NEW m \in Machines, Create(c, m) \/ Delete(c, m)
          PROVE  LibraryInv'
      BY <2>1, BeginInv
    <2>2. ASSUME NEW m \in Machines, NEW src \in Machines, Clone(c, src, m)
          PROVE  LibraryInv'
      BY <2>2, BeginInv
    <2>3. ASSUME NEW m \in Machines \union {"none"}, NEW op \in Settings,
                 Change(c, op, m) \/ Attach(c, m) \/ Reset(c) \/ Record(c)
          PROVE  LibraryInv'
      BY <2>3, ChangeInv
    <2>4. "none" \in Machines \union {"none"} /\ "set" \in Settings
      BY DEF Settings
    <2> QED
      BY <1>4, <2>1, <2>2, <2>3, <2>4 DEF Press
  <1>5. ASSUME NEW c \in Calls, Continue(c)
        PROVE  LibraryInv'
    <2>1. CASE ToolsPrepared(c)
      BY <2>1, AsksForSaveInv, ReturnsInv DEF ToolsPrepared
    <2>2. CASE IndexOutOfRange(c)
      BY <2>2, RelaunchInv DEF IndexOutOfRange
    <2>3. CASE Saved(c)
      BY <2>3, ReturnsInv, CreatedInv
    <2>4. CASE Made(c) \/ Removed(c) \/ TaskRuns(c)
      BY <2>4, AsksForSaveInv
    <2>5. CASE NotProvisioned(c) \/ NoFiles(c) \/ NotCreated(c) \/ NotChanged(c)
      BY <2>5, ReturnsInv, PutBackInv
    <2> QED
      BY <1>5, <2>1, <2>2, <2>3, <2>4, <2>5 DEF Continue
  <1>6. ASSUME NEW c \in Calls,
               StoreBegins(c) \/ StoreEnds(c) \/ StoreFails(c) \/ StoreUndoes(c)
        PROVE  LibraryInv'
    BY <1>6, StoreInv
  <1> QED
    BY <1>1, <1>2, <1>3, <1>4, <1>5, <1>6 DEF Next

(* Whatever operations overlap, fail or are cut short by a crash, the list,
   library.json, the saves in the queue and the directories stay related as
   LibraryInv says, for every number of machines and operations. *)
THEOREM LibraryTheorem == Spec => []LibraryInv
  <1>1. LibraryInv /\ [Next]_vars => LibraryInv'
    BY NextInv
  <1> QED
    BY <1>1, InitInv, PTL DEF Spec

(* A machine that createMachine or cloneMachine has reported as made is not
   lost by another operation, a failed save, a crash or a launch, unless a
   removeCustomInputProfile that could not save has put back a list from before
   it was made. *)
THEOREM CreatedIsKeptTheorem == Spec => []CreatedIsKept
  <1>1. LibraryInv => CreatedIsKept
    BY DEF LibraryInv
  <1> QED
    BY <1>1, LibraryTheorem, PTL

-----------------------------------------------------------------------------
(* Until the first failure                                                  *)

(* Once a save of the list shown is asked for, it is the newest. *)
LEMMA NewestIsSaved ==
    ASSUME TypeOK, NEW c \in Calls, machines' \in Seq(Entry), Persist(c, machines')
    PROVE  NewestInv'
  <1> DEFINE job == [call |-> c, list |-> machines']
             Job == [call: Calls, list: Seq(Entry)]
  <1>1. saves \in Seq(Job) /\ job \in Job /\ saves' = Append(saves, job)
    BY DEF TypeOK, Persist
  <1>2. job.list = machines'
    OBVIOUS
  <1> HIDE DEF job, Job
  <1>3. saves' # <<>> /\ saves'[Len(saves')] = job
    BY <1>1
  <1> QED
    BY <1>2, <1>3 DEF NewestInv, Newest

(* A list that is not newly made by anybody was listed before. *)
LEMMA ListedKept ==
    ASSUME TypeOK, NEW c \in Calls, NEW m,
           machines' \in Seq(Entry),
           m \in Ids(machines') => m \in Ids(machines),
           json' = json,
           Persist(c, machines') \/ saves' = saves
    PROVE  Listed(m)' => Listed(m)
  <1>1. CASE Persist(c, machines')
    <2>1. \A j \in DOMAIN saves' :
             \/ j \in DOMAIN saves /\ saves'[j] = saves[j]
             \/ saves'[j].list = machines'
      BY <1>1, SavesAppend
    <2> QED
      BY <2>1 DEF Listed
  <1>2. CASE saves' = saves
    BY <1>2 DEF Listed
  <1> QED
    BY <1>1, <1>2

(* Who is making a directory, when c begins or ends nothing of the kind. *)
LEMMA BeginningKept ==
    ASSUME NEW c \in Calls,
           \A d \in Calls \ {c} : calls'[d] = calls[d],
           \/ ~Making(c) /\ ~Making(c)'
           \/ /\ calls[c].pc \notin {"files", "half", "made"}
              /\ calls'[c].pc \notin {"files", "half", "made"}
           \/ /\ calls'[c].op = calls[c].op
              /\ calls'[c].id = calls[c].id
              /\ calls[c].pc \in {"files", "half", "made"}
              /\ calls'[c].pc \in {"files", "half", "made"}
    PROVE  \A m \in Machines : Beginning(m)' <=> Beginning(m)
  BY DEF Beginning, Making

(* A step that neither lists, begins nor completes the machines that are left. *)
LEMMA CompleteKept ==
    ASSUME CompleteInv,
           \A m \in Machines : fate'[m] # "doomed" =>
              /\ fate[m] # "doomed" /\ (fate'[m] = "new" => fate[m] = "new")
              /\ files'[m] = files[m]
              /\ Listed(m)' => Listed(m)
              /\ Beginning(m)' <=> Beginning(m)
              /\ m \in Ids(machines) => m \in Ids(machines')
    PROVE  CompleteInv'
  BY DEF CompleteInv

(* createMachine and cloneMachine take an identifier that nothing lists and
   that has no directory; deleteMachine marks its machine. *)
LEMMA BeginKeeps ==
    ASSUME LibraryInv, FailureFree,
           NEW c \in Calls, NEW m \in Machines, NEW src \in Machines,
           Create(c, m) \/ Clone(c, src, m) \/ Delete(c, m)
    PROVE  FailureFree'
  <1> USE DEF LibraryInv
  <1>1. PICK op \in {"create", "clone", "delete"}, from \in Machines \union {"none"} :
              Begin(c, op, m, from, "files")
    BY DEF Create, Clone, Delete
  <1>2. /\ calls[c] = Idle
        /\ calls'[c].pc = "files"
        /\ calls'[c].op \in {"create", "clone", "delete"}
        /\ calls'[c].id = m
        /\ \A d \in Calls \ {c} : calls'[d] = calls[d]
    BY <1>1, BeginFacts DEF Op, PC
  <1>3. /\ UNCHANGED <<machines, json, files, saves>>
        /\ \/ fate[m] = "new" /\ fate' = [fate EXCEPT ![m] = "pending"]
           \/ fate' = [fate EXCEPT ![m] = "doomed"]
    BY DEF Create, Clone, Delete
  <1>4. NewestInv'
    BY <1>2, <1>3 DEF FailureFree, NewestInv, Newest, At, Idle
  <1>5. \A n \in Machines \ {m} : Beginning(n)' <=> Beginning(n)
    BY <1>2 DEF Beginning, Making, Idle
  <1>6. \A n \in Machines : Listed(n)' <=> Listed(n)
    BY <1>3 DEF Listed
  <1>7. \A n \in Machines \ {m} : fate'[n] = fate[n]
    BY <1>3 DEF TypeOK
  <1>8. fate[m] = "new" => ~Listed(m) /\ ~Beginning(m) /\ files[m] = "none"
    <2>1. fate[m] = "new" => ~Beginning(m)
      BY DEF Beginning, FateInv
    <2> QED
      BY <2>1 DEF FailureFree, CompleteInv, Listed
  <1>9. fate'[m] = "pending" \/ fate'[m] = "doomed"
    BY <1>3 DEF TypeOK
  <1>10. fate'[m] = "pending" => fate[m] = "new"
    BY <1>3 DEF TypeOK
  <1>11. CompleteInv'
    BY <1>3, <1>5, <1>6, <1>7, <1>8, <1>9, <1>10 DEF FailureFree, CompleteInv
  <1> QED
    BY <1>2, <1>4, <1>11 DEF FailureFree

(* A setting asks for a save of its change, or is yet to do so. *)
LEMMA ChangeKeeps ==
    ASSUME LibraryInv, FailureFree,
           NEW c \in Calls, NEW m \in Machines \union {"none"}, NEW op \in Settings,
           Change(c, op, m) \/ Attach(c, m) \/ Reset(c) \/ Record(c)
    PROVE  FailureFree'
  <1> USE DEF LibraryInv
  <1>1. /\ calls[c] = Idle
        /\ calls'[c].op \notin {"create", "clone"}
        /\ \A d \in Calls \ {c} : calls'[d] = calls[d]
        /\ machines' \in Seq(Entry) /\ Ids(machines') = Ids(machines)
        /\ \/ calls'[c].pc = "save" /\ Persist(c, machines')
           \/ calls'[c].pc \in {"tools", "task"} /\ saves' = saves
        /\ UNCHANGED <<json, files, fate>>
    BY ChangeFacts
  <1>2. NewestInv'
    <2>1. CASE Persist(c, machines')
      BY <1>1, <2>1, NewestIsSaved
    <2>2. CASE calls'[c].pc \in {"tools", "task"}
      BY <2>2 DEF NewestInv, At
    <2> QED
      BY <1>1, <2>1, <2>2
  <1>3. \A n \in Machines : Beginning(n)' <=> Beginning(n)
    <2>1. ~Making(c) /\ ~Making(c)'
      BY <1>1 DEF Making, Idle
    <2> QED
      BY <1>1, <2>1, BeginningKept
  <1>4. \A n \in Machines : Listed(n)' => Listed(n)
    BY <1>1, ListedKept
  <1>5. CompleteInv'
    BY <1>1, <1>3, <1>4, CompleteKept DEF FailureFree
  <1> QED
    BY <1>1, <1>2, <1>5 DEF FailureFree

(* The ManagedMachineStore works on directories of machines that are being
   made, and not listed yet, or deleted. *)
LEMMA StoreKeeps ==
    ASSUME LibraryInv, FailureFree, ~failed', NEW c \in Calls,
           StoreBegins(c) \/ StoreEnds(c) \/ StoreFails(c) \/ StoreUndoes(c)
    PROVE  FailureFree'
  <1> USE DEF LibraryInv
  <1> DEFINE n == calls[c].id
  <1>1. /\ calls[c].pc \in {"files", "half"}
        /\ n \in Machines
        /\ ~Making(c) => fate[n] = "doomed"
        /\ UNCHANGED <<machines, json, saves, fate>>
        /\ \A m \in Machines : m # n => files'[m] = files[m]
    BY DEF StoreBegins, StoreEnds, StoreFails, StoreUndoes, At, CallInv, FateInv,
           Making, TypeOK, FailureFree
  <1>2. PICK pc \in {"half", "made", "removed"} :
           /\ Goto(c, pc)
           /\ pc = "removed" => calls[c].op = "delete"
           /\ pc = "made" => files'[n] = "whole"
    BY <1>1 DEF StoreBegins, StoreEnds, StoreFails, StoreUndoes, TypeOK, FailureFree, At
  <1>3. /\ calls'[c].pc = pc
        /\ calls'[c].op = calls[c].op
        /\ calls'[c].id = calls[c].id
        /\ \A d \in Calls \ {c} : calls'[d] = calls[d]
    BY <1>1, <1>2, GotoFacts DEF PC
  <1>4. NewestInv'
    BY <1>1, <1>2, <1>3 DEF FailureFree, NewestInv, Newest, At
  <1>5. \A m \in Machines : Listed(m)' <=> Listed(m)
    BY <1>1 DEF Listed
  <1>6. \A m \in Machines : Beginning(m)' <=> Beginning(m)
    <2>1. pc = "removed" => ~Making(c) /\ ~Making(c)'
      BY <1>2, <1>3 DEF Making
    <2> QED
      BY <1>1, <1>2, <1>3, <2>1, BeginningKept
  <1>7. Making(c) => Beginning(n)
    BY <1>1 DEF Beginning
  <1>8. CompleteInv'
    <2> HIDE DEF n
    <2> QED
      BY <1>1, <1>5, <1>6, <1>7 DEF FailureFree, CompleteInv
  <1> QED
    BY <1>2, <1>3, <1>4, <1>8 DEF FailureFree

(* The LibraryStore writes the oldest of the lists it was given. *)
LEMMA SaveKeeps ==
    ASSUME LibraryInv, FailureFree, SaveNext
    PROVE  FailureFree'
  <1> USE DEF LibraryInv
  <1> DEFINE c == saves[1].call
             Job == [call: Calls, list: Seq(Entry)]
  <1>1. saves \in Seq(Job) /\ saves # <<>>
    BY DEF SaveNext, TypeOK
  <1>2. /\ json' = saves[1].list /\ saves' = Tail(saves) /\ Goto(c, "saved")
        /\ UNCHANGED <<machines, files, fate>>
    BY <1>1 DEF SaveNext
  <1> HIDE DEF Job
  <1>3. 1 \in DOMAIN saves
    BY <1>1
  <1>4. c \in Calls /\ calls[c].pc = "save"
    BY <1>3, SaveFields DEF SavesInv, At
  <1>5. calls'[c].pc = "saved" /\ \A d \in Calls \ {c} : calls'[d] = calls[d]
    BY <1>2, <1>4, GotoFacts DEF PC
  <1>6. Newest' = Newest
    <2>0. /\ Tail(saves) \in Seq(Job) /\ Len(Tail(saves)) = Len(saves) - 1
          /\ \A s \in Seq(Job) : s # <<>> => Len(s) \in Nat \ {0}
          /\ Len(<<>>) = 0
      BY <1>1, HeadTailProperties, EmptySeq
    <2>1. CASE Len(saves) = 1
      <3>1. Tail(saves) = <<>>
        BY <2>0, <2>1
      <3>2. Newest = saves[1].list
        BY <1>1, <2>1 DEF Newest
      <3>3. Newest' = json'
        BY <1>2, <3>1 DEF Newest
      <3> QED
        BY <1>2, <3>2, <3>3
    <2>2. CASE Len(saves) # 1
      <3>1. Tail(saves) # <<>> /\ Tail(saves)[Len(Tail(saves))] = saves[Len(saves)]
        <4>1. Len(saves) \in Nat \ {0, 1}
          BY <1>1, <2>0, <2>2
        <4>2. Len(Tail(saves)) + 1 = Len(saves) /\ Len(Tail(saves)) # 0
          BY <2>0, <4>1
        <4>3. Len(Tail(saves)) \in 1..Len(Tail(saves))
          BY <2>0, <4>1
        <4>4. Tail(saves)[Len(Tail(saves))] = saves[Len(Tail(saves)) + 1]
          BY <1>1, <4>3, HeadTailProperties
        <4> QED
          BY <2>0, <4>2, <4>4, Zenon
      <3>2. Newest = saves[Len(saves)].list
        BY <1>1 DEF Newest
      <3>3. Newest' = saves'[Len(saves')].list
        BY <1>2, <3>1 DEF Newest
      <3> QED
        BY <1>2, <3>1, <3>2, <3>3
    <2> QED
      BY <2>1, <2>2
  <1>7. NewestInv'
    BY <1>2, <1>4, <1>5, <1>6 DEF FailureFree, NewestInv, At
  <1>8. \A i \in DOMAIN saves' : i + 1 \in DOMAIN saves /\ saves'[i] = saves[i + 1]
    BY <1>1, <1>2
  <1>9. \A m \in Machines : Listed(m)' => Listed(m)
    BY <1>2, <1>3, <1>8 DEF Listed
  <1> HIDE DEF c
  <1>10. \A m \in Machines : Beginning(m)' <=> Beginning(m)
    BY <1>4, <1>5, BeginningKept
  <1>11. CompleteInv'
    BY <1>2, <1>9, <1>10, CompleteKept DEF FailureFree
  <1> QED
    BY <1>5, <1>7, <1>11 DEF FailureFree

(* The launch removes what library.json does not list. *)
LEMMA RelaunchKeeps ==
    ASSUME LibraryInv, FailureFree, Relaunch
    PROVE  FailureFree'
  <1>1. \A c \in Calls : calls'[c].pc = "idle" /\ calls'[c].op = "none"
    BY DEF Relaunch, Idle
  <1>2. NewestInv'
    BY DEF Relaunch, NewestInv, Newest
  <1>3. \A m \in Machines : ~Beginning(m)'
    BY <1>1 DEF Beginning, Making
  <1>4. \A m \in Machines : Listed(m)' <=> m \in Ids(json)
    BY DEF Relaunch, Listed
  <1>5. \A m \in Machines : m \in Ids(json) => Listed(m)
    BY DEF Listed
  <1>6. CompleteInv'
    BY <1>3, <1>4, <1>5 DEF Relaunch, FailureFree, CompleteInv
  <1> QED
    BY <1>1, <1>2, <1>6 DEF FailureFree

(* createMachine and cloneMachine list the machine whose directory is whole. *)
LEMMA MadeKeeps ==
    ASSUME LibraryInv, FailureFree, NoneLeftOut, NEW c \in Calls, Made(c)
    PROVE  FailureFree'
  <1> USE DEF LibraryInv
  <1> DEFINE e == [id |-> calls[c].id, setting |-> "automatic"]
  <1>1. calls[c].pc = "made" /\ Making(c) /\ calls[c].id \in Machines
    BY DEF Made, At, CallInv
  <1>2. e \in Entry /\ e.id = calls[c].id
    BY <1>1 DEF Entry, Setting
  <1>3. /\ machines' = Append(machines, e) /\ Persist(c, machines')
        /\ Goto(c, "save") /\ UNCHANGED <<json, files, fate>>
    BY DEF Made
  <1>4. machines \in Seq(Entry)
    BY DEF TypeOK
  <1> HIDE DEF e
  <1>5. machines' \in Seq(Entry) /\ Ids(machines') = Ids(machines) \union {calls[c].id}
    BY <1>2, <1>3, <1>4, IdsAppend
  <1>6. /\ calls'[c].pc = "save"
        /\ calls'[c].op = calls[c].op
        /\ calls'[c].id = calls[c].id
        /\ \A d \in Calls \ {c} : calls'[d] = calls[d]
    BY <1>1, <1>3, GotoFacts DEF PC
  <1>7. NewestInv'
    BY <1>3, <1>5, NewestIsSaved
  <1>8. \A m \in Machines : m # calls[c].id => (Listed(m)' => Listed(m))
    BY <1>3, <1>5, ListedKept
  <1>9. \A m \in Machines : m # calls[c].id => (Beginning(m)' <=> Beginning(m))
    BY <1>6 DEF Beginning, Making
  <1>10. \A m \in Machines : m = calls[c].id => ~Beginning(m)'
    BY <1>1, <1>6 DEF Beginning, Making, FateInv
  <1>11. fate[calls[c].id] # "doomed" =>
            fate[calls[c].id] = "pending" /\ files[calls[c].id] = "whole"
    <2>1. fate[calls[c].id] # "doomed" => fate[calls[c].id] = "pending"
      BY <1>1 DEF FateInv, CallInv, NoneLeftOut
    <2> QED
      BY <1>1, <2>1 DEF MakingInv, Promise
  <1>12. CompleteInv'
    <2> SUFFICES ASSUME NEW m \in Machines, fate[m] # "doomed"
                 PROVE  /\ Listed(m)' => /\ files[m] = "whole"
                                         /\ fate[m] # "new"
                                         /\ ~Beginning(m)'
                        /\ files[m] # "none" => m \in Ids(machines') \/ Beginning(m)'
      BY <1>3 DEF CompleteInv
    <2>1. CASE m = calls[c].id
      BY <1>5, <1>10, <1>11, <2>1
    <2>2. CASE m # calls[c].id
      BY <1>5, <1>8, <1>9, <2>2 DEF FailureFree, CompleteInv
    <2> QED
      BY <2>1, <2>2
  <1> QED
    BY <1>6, <1>7, <1>12 DEF FailureFree

(* The other steps that ask for a save of the list. *)
LEMMA AsksKeeps ==
    ASSUME LibraryInv, FailureFree, ~failed', NEW c \in Calls,
           Removed(c) \/ TaskRuns(c) \/ ToolsPrepared(c)
    PROVE  FailureFree'
  <1> USE DEF LibraryInv
  <1>1. /\ calls[c].pc \in {"removed", "task", "tools"}
        /\ Goto(c, "save") /\ Persist(c, machines')
        /\ UNCHANGED <<json, files, fate>>
    BY DEF Removed, TaskRuns, ToolsPrepared, Persist, At
  <1>2. /\ calls'[c].pc = "save"
        /\ \A d \in Calls \ {c} : calls'[d] = calls[d]
    BY <1>1, GotoFacts DEF PC
  <1>3. /\ machines' \in Seq(Entry) /\ Ids(machines') \subseteq Ids(machines)
        /\ \A m \in Ids(machines) : m \in Ids(machines') \/ fate[m] = "doomed"
    <2>1. CASE Removed(c)
      <3>1. fate[calls[c].id] = "doomed"
        BY <2>1 DEF Removed, At, CallInv, FateInv
      <3> QED
        BY <2>1, <3>1, IdsWithout DEF Removed, TypeOK
    <2>2. CASE TaskRuns(c) \/ ToolsPrepared(c)
      BY <2>2 DEF TaskRuns, ToolsPrepared, TypeOK
    <2> QED
      BY <2>1, <2>2
  <1>4. NewestInv'
    BY <1>1, <1>3, NewestIsSaved
  <1>5. \A m \in Machines : Listed(m)' => Listed(m)
    BY <1>1, <1>3, ListedKept
  <1>6. \A m \in Machines : Beginning(m)' <=> Beginning(m)
    BY <1>1, <1>2, BeginningKept
  <1>7. CompleteInv'
    BY <1>1, <1>3, <1>5, <1>6, CompleteKept DEF FailureFree
  <1> QED
    BY <1>2, <1>4, <1>7 DEF FailureFree

(* An operation returns. *)
LEMMA SavedKeeps ==
    ASSUME LibraryInv, FailureFree, NEW c \in Calls, Saved(c)
    PROVE  FailureFree'
  <1> USE DEF LibraryInv
  <1>1. /\ calls[c].pc = "saved" /\ End(c)
        /\ UNCHANGED <<machines, json, files, saves>>
    BY DEF Saved, At
  <1>2. calls'[c] = Idle /\ \A d \in Calls \ {c} : calls'[d] = calls[d]
    BY <1>1, EndFacts
  <1>3. NewestInv'
    BY <1>1, <1>2 DEF FailureFree, NewestInv, Newest, At
  <1>4. \A m \in Machines : Listed(m)' <=> Listed(m)
    BY <1>1 DEF Listed
  <1>5. \A m \in Machines : Beginning(m)' <=> Beginning(m)
    BY <1>1, <1>2, BeginningKept DEF Idle
  <1>6. \A m \in Machines :
           fate'[m] = fate[m] \/ (fate[m] = "pending" /\ fate'[m] = "created")
    BY DEF Saved, TypeOK
  <1>7. CompleteInv'
    BY <1>1, <1>4, <1>5, <1>6, CompleteKept DEF FailureFree
  <1> QED
    BY <1>2, <1>3, <1>7 DEF FailureFree, Idle

LEMMA UntilFailureNext ==
    ASSUME UntilFailure, [Next]_vars
    PROVE  UntilFailure'
  <1>1. failed => failed'
    BY DEF Next, vars, Press, Continue, Create, Clone, Delete, Change, Attach, Reset,
       Record, Made, NotProvisioned, Removed, NoFiles, TaskRuns, ToolsPrepared, Saved,
       NotCreated, NotChanged, IndexOutOfRange, Relaunch, Crash, StoreBegins,
       StoreEnds, StoreFails, StoreUndoes, SaveNext, SaveFails
  <1> SUFFICES ASSUME LibraryInv, FailureFree, NoneLeftOut, ~failed'
               PROVE  UntilFailure'
    BY <1>1 DEF UntilFailure
  <1>2. LibraryInv'
    BY NextInv
  <1>a. NoneLeftOut'
    <2>1. ~\E c \in Calls : NotChanged(c)
      BY DEF NotChanged, FailureFree, At
    <2>2. \/ fate' = fate
          \/ \E m, f : f # "leftOut" /\ fate' = [fate EXCEPT ![m] = f]
      BY <2>1 DEF Next, vars, Press, Continue, Create, Clone, Delete, Change, Attach,
         Reset, Record, Made, NotProvisioned, Removed, NoFiles, TaskRuns,
         ToolsPrepared, Saved, NotCreated, IndexOutOfRange, Relaunch, Crash,
         StoreBegins, StoreEnds, StoreFails, StoreUndoes, SaveNext, SaveFails
    <2>3. fate \in [Machines -> {"new", "pending", "created", "doomed", "leftOut"}]
      BY DEF LibraryInv, TypeOK
    <2> QED
      BY <2>2, <2>3 DEF NoneLeftOut
  <1> SUFFICES FailureFree'
    BY <1>2, <1>a DEF UntilFailure
  <1>3. CASE UNCHANGED vars
    BY <1>3 DEF vars, FailureFree, NewestInv, Newest, CompleteInv, Listed, Beginning,
       Making, At
  <1>4. ASSUME NEW c \in Calls, Press(c)
        PROVE  FailureFree'
    <2>1. ASSUME NEW m \in Machines, Create(c, m) \/ Delete(c, m)
          PROVE  FailureFree'
      BY <2>1, BeginKeeps
    <2>2. ASSUME NEW m \in Machines, NEW src \in Machines, Clone(c, src, m)
          PROVE  FailureFree'
      BY <2>2, BeginKeeps
    <2>3. ASSUME NEW m \in Machines \union {"none"}, NEW op \in Settings,
                 Change(c, op, m) \/ Attach(c, m) \/ Reset(c) \/ Record(c)
          PROVE  FailureFree'
      BY <2>3, ChangeKeeps
    <2>4. "none" \in Machines \union {"none"} /\ "set" \in Settings
      BY DEF Settings
    <2> QED
      BY <1>4, <2>1, <2>2, <2>3, <2>4 DEF Press
  <1>5. ASSUME NEW c \in Calls, Continue(c)
        PROVE  FailureFree'
    <2>1. ~NotProvisioned(c) /\ ~NoFiles(c) /\ ~NotCreated(c) /\ ~NotChanged(c)
      BY DEF NotProvisioned, NoFiles, NotCreated, NotChanged, FailureFree, At
    <2>2. CASE IndexOutOfRange(c)
      BY <2>2, RelaunchKeeps DEF IndexOutOfRange
    <2> QED
      BY <1>5, <2>1, <2>2, MadeKeeps, AsksKeeps, SavedKeeps DEF Continue
  <1>6. CASE SaveNext
    BY <1>6, SaveKeeps
  <1>7. ~SaveFails
    BY DEF SaveFails
  <1>8. CASE Crash
    BY <1>8, RelaunchKeeps DEF Crash
  <1> QED
    BY <1>3, <1>4, <1>5, <1>6, <1>7, <1>8, StoreKeeps DEF Next

(* Until some operation fails, LibraryInv holds, library.json is behind the
   list shown only while a save is asked for or yet to be, and the directories
   are those of the machines. *)
LEMMA UntilFailureAlways == Spec => []UntilFailure
  <1>1. Init => UntilFailure
    <2> SUFFICES ASSUME Init PROVE FailureFree
      BY InitInv DEF UntilFailure, NoneLeftOut, Init
    <2>1. \A m \in Machines : ~Listed(m) /\ files[m] = "none"
      BY DEF Init, Listed, Ids
    <2> QED
      BY <2>1 DEF Init, FailureFree, NewestInv, Newest, CompleteInv, Idle
  <1> QED
    BY <1>1, UntilFailureNext, PTL DEF Spec

(* When every operation has returned and none has failed, what the user sees is
   what the next launch will load. *)
THEOREM QuietIsSavedTheorem == Spec => []QuietIsSaved
  <1>1. UntilFailure => QuietIsSaved
    BY DEF UntilFailure, FailureFree, NewestInv, Newest, QuietIsSaved, Quiet, At, Idle
  <1> QED
    BY <1>1, UntilFailureAlways, PTL

(* Then a machine that is listed and not deleted has its whole directory, and
   one that is not listed has none. *)
THEOREM QuietIsCompleteTheorem == Spec => []QuietIsComplete
  <1>1. UntilFailure => QuietIsComplete
    <2> SUFFICES ASSUME UntilFailure, Quiet, ~failed, NEW m \in Machines,
                        fate[m] # "doomed"
                 PROVE  files[m] = IF m \in Ids(machines) THEN "whole" ELSE "none"
      BY DEF QuietIsComplete
    <2>1. CompleteInv
      BY DEF UntilFailure, FailureFree
    <2>2. ~Beginning(m)
      BY DEF Quiet, Beginning, Making, Idle
    <2> QED
      BY <2>1, <2>2 DEF CompleteInv, Listed
  <1> QED
    BY <1>1, UntilFailureAlways, PTL

=============================================================================
