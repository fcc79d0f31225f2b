----------------------- MODULE ImageDownloads_proofs -----------------------
(***************************************************************************)
(* Proofs about ImageDownloads, for every set of images, of tasks and of   *)
(* calls, and every number of presses.                                     *)
(***************************************************************************)
EXTENDS ImageDownloads, SequenceTheorems, TLAPS

-----------------------------------------------------------------------------
(* What a step does to the calls and to the tasks                           *)

Avail == Availability \union {"none"}

(* Call c goes on to pc, or it ends. *)
CallAt(c, pc) ==
    /\ calls'[c].pc = pc
    /\ calls'[c].op = calls[c].op
    /\ calls'[c].image = calls[c].image
    /\ calls'[c].seen = calls[c].seen
    /\ \A d \in Calls \ {c} : calls'[d] = calls[d]
CallOver(c) ==
    /\ calls'[c] = Idle
    /\ \A d \in Calls \ {c} : calls'[d] = calls[d]
CallNew(c, op, i, pc) ==
    /\ calls[c] = Idle
    /\ calls'[c].op = op
    /\ calls'[c].image = i
    /\ calls'[c].pc = pc
    /\ \A d \in Calls \ {c} : calls'[d] = calls[d]

(* Task t goes on to pc, it ends, or it is made. *)
TaskAt(t, pc) ==
    /\ tasks'[t] \in Task
    /\ tasks'[t].pc = pc
    /\ tasks'[t].image = tasks[t].image
    /\ \A u \in Tasks \ {t} : tasks'[u] = tasks[u]
TaskOver(t) ==
    /\ tasks'[t] = NoTask
    /\ \A u \in Tasks \ {t} : tasks'[u] = tasks[u]
TaskNew(t, i) ==
    /\ tasks[t] = NoTask
    /\ tasks'[t] = NewTask(i)
    /\ downloads' = [downloads EXCEPT ![i] = t]
    /\ \A u \in Tasks \ {t} : tasks'[u] = tasks[u]

LEMMA CallFields ==
    ASSUME TypeOK, NEW c \in Calls, calls[c].pc # "idle"
    PROVE  calls[c] \in Call /\ calls[c].image \in Images
  BY DEF TypeOK, Idle, Call

LEMMA TaskFields ==
    ASSUME TypeOK, NEW t \in Tasks, tasks[t].pc # "ended"
    PROVE  tasks[t] \in Task /\ tasks[t].image \in Images /\ tasks[t].pending \in Seq(Transfer)
  BY DEF TypeOK, NoTask, Task

CallPC == {"copy", "copied", "remove", "removed", "undo", "make", "ran", "save", "read"}
CallOp == {"import", "refer", "retry", "delete", "export", "create", "discard", "clone",
           "start", "eject"}

LEMMA GotoFacts ==
    ASSUME TypeOK, NEW c \in Calls, calls[c].pc # "idle", NEW pc \in CallPC, Goto(c, pc)
    PROVE  calls' \in [Calls -> Call \union {Idle}] /\ CallAt(c, pc)
  <1>1. calls[c] \in Call
    BY CallFields
  <1>2. calls'[c] = [calls[c] EXCEPT !.pc = pc]
    BY DEF Goto, TypeOK
  <1>3. calls'[c] \in Call
    BY <1>1, <1>2 DEF Call, CallPC
  <1>4. \A d \in Calls \ {c} : calls'[d] = calls[d]
    BY DEF Goto, TypeOK
  <1>5. calls' \in [Calls -> Call \union {Idle}]
    BY <1>3, <1>4 DEF Goto, TypeOK
  <1> QED
    BY <1>1, <1>2, <1>4, <1>5 DEF Call, CallAt

LEMMA EndFacts ==
    ASSUME TypeOK, NEW c \in Calls, End(c)
    PROVE  calls' \in [Calls -> Call \union {Idle}] /\ CallOver(c)
  BY DEF TypeOK, End, CallOver

LEMMA BeginFacts ==
    ASSUME TypeOK, NEW c \in Calls, NEW op \in CallOp, NEW i \in Images, NEW pc \in CallPC,
           NEW seen \in Provisioning, Begin(c, op, i, pc, seen)
    PROVE  /\ calls' \in [Calls -> Call \union {Idle}]
           /\ CallNew(c, op, i, pc) /\ calls'[c].seen = seen
  <1>1. calls'[c] = [op |-> op, image |-> i, pc |-> pc, seen |-> seen]
    BY DEF Begin, TypeOK
  <1>2. calls'[c] \in Call
    BY <1>1 DEF Call, CallPC, CallOp
  <1>3. \A d \in Calls \ {c} : calls'[d] = calls[d]
    BY DEF Begin, TypeOK
  <1>4. calls' \in [Calls -> Call \union {Idle}]
    BY <1>2, <1>3 DEF Begin, TypeOK
  <1> QED
    BY <1>1, <1>3, <1>4 DEF Begin, CallNew

LEMMA StepFacts ==
    ASSUME TypeOK, NEW t \in Tasks, tasks[t].pc # "ended", NEW pc \in TaskPC, Step(t, pc)
    PROVE  /\ tasks' \in [Tasks -> Task \union {NoTask}] /\ TaskAt(t, pc)
           /\ tasks'[t].pending = tasks[t].pending
  <1>1. tasks[t] \in Task
    BY TaskFields
  <1>2. tasks'[t] = [tasks[t] EXCEPT !.pc = pc]
    BY DEF Step, TypeOK
  <1>3. tasks'[t] \in Task
    BY <1>1, <1>2 DEF Task
  <1>4. \A u \in Tasks \ {t} : tasks'[u] = tasks[u]
    BY DEF Step, TypeOK
  <1>5. tasks' \in [Tasks -> Task \union {NoTask}]
    BY <1>3, <1>4 DEF Step, TypeOK
  <1> QED
    BY <1>1, <1>2, <1>3, <1>4, <1>5 DEF Task, TaskAt

LEMMA FinishFacts ==
    ASSUME TypeOK, NEW t \in Tasks, tasks[t].pc # "ended",
           NEW result \in {"ok", "error", "cancelled"}, Finish(t, result)
    PROVE  /\ tasks' \in [Tasks -> Task \union {NoTask}] /\ TaskAt(t, "back")
           /\ tasks'[t].result = result
  <1>1. tasks[t] \in Task
    BY TaskFields
  <1>2. tasks'[t] = [tasks[t] EXCEPT !.pc = "back", !.result = result]
    BY DEF Finish, TypeOK
  <1>3. tasks'[t] \in Task
    BY <1>1, <1>2 DEF Task, TaskPC
  <1>4. \A u \in Tasks \ {t} : tasks'[u] = tasks[u]
    BY DEF Finish, TypeOK
  <1>5. tasks' \in [Tasks -> Task \union {NoTask}]
    BY <1>3, <1>4 DEF Finish, TypeOK
  <1> QED
    BY <1>1, <1>2, <1>3, <1>4, <1>5 DEF Task, TaskAt

LEMMA NewTaskFacts ==
    ASSUME TypeOK, NEW t \in Tasks, NEW i \in Images, beginDownload(t, i),
           tasks' = [tasks EXCEPT ![t] = NewTask(i)]
    PROVE  /\ tasks' \in [Tasks -> Task \union {NoTask}] /\ TaskNew(t, i)
           /\ tasks'[t].pc = "created" /\ tasks'[t].image = i /\ tasks'[t].pending = <<>>
           /\ downloads' \in [Images -> Tasks \union {"none"}]
  <1>1. NewTask(i) = [image |-> i, pc |-> "created", cancelled |-> FALSE,
                      stop |-> FALSE, result |-> "none", pending |-> <<>>]
    BY DEF NewTask, NoTask
  <1>2. <<>> \in Seq(Transfer)
    OBVIOUS
  <1>3. NewTask(i) \in Task
    BY <1>1, <1>2 DEF Task, TaskPC
  <1>4. tasks'[t] = NewTask(i) /\ \A u \in Tasks \ {t} : tasks'[u] = tasks[u]
    BY DEF TypeOK
  <1>5. tasks' \in [Tasks -> Task \union {NoTask}]
    BY <1>3, <1>4 DEF TypeOK
  <1>6. downloads' = [downloads EXCEPT ![i] = t] /\ tasks[t] = NoTask
    BY DEF beginDownload, Live
  <1>7. downloads' \in [Images -> Tasks \union {"none"}]
    BY <1>6 DEF TypeOK
  <1> QED
    BY <1>1, <1>4, <1>5, <1>6, <1>7 DEF TaskNew

(* Task.cancel() leaves every task where it is. *)
LEMMA CancelFacts ==
    ASSUME TypeOK, ShapeInv, NEW i \in Images, tasks' = Cancelled(i)
    PROVE  /\ tasks' \in [Tasks -> Task \union {NoTask}]
           /\ \A t \in Tasks :
                 /\ tasks'[t].image = tasks[t].image
                 /\ tasks'[t].pc = tasks[t].pc
                 /\ tasks'[t].result = tasks[t].result
                 /\ tasks'[t].pending = tasks[t].pending
  <1>1. ASSUME NEW t \in Tasks, t = downloads[i], ~tasks[t].cancelled
        PROVE  /\ tasks'[t] \in Task
               /\ tasks'[t].image = tasks[t].image
               /\ tasks'[t].pc = tasks[t].pc
               /\ tasks'[t].result = tasks[t].result
               /\ tasks'[t].pending = tasks[t].pending
    <2>1. tasks[t].image = i
      BY <1>1, ConstantsAssumption DEF ShapeInv
    <2>2. tasks[t] \in Task
      BY <2>1, ConstantsAssumption DEF TypeOK, NoTask
    <2>3. tasks'[t] = [tasks[t] EXCEPT !.cancelled = TRUE,
                                      !.stop = tasks[t].pc \in {"fetch", "check"}]
      BY <1>1 DEF Cancelled
    <2>4. (tasks[t].pc \in {"fetch", "check"}) \in BOOLEAN
      OBVIOUS
    <2> QED
      BY <2>2, <2>3, <2>4 DEF Task
  <1>2. ASSUME NEW t \in Tasks, ~(t = downloads[i] /\ ~tasks[t].cancelled)
        PROVE  tasks'[t] = tasks[t]
    BY <1>2 DEF Cancelled
  <1>3. \A t \in Tasks : tasks'[t] \in Task \union {NoTask}
    BY <1>1, <1>2 DEF TypeOK
  <1>4. tasks' = [t \in Tasks |-> tasks'[t]]
    BY DEF Cancelled
  <1> QED
    BY <1>1, <1>2, <1>3, <1>4

-----------------------------------------------------------------------------
(* The queue of the LibraryStore                                            *)

Job == [by: Calls \union Tasks, list: Library]

(* The list that a save takes. *)
LEMMA SnapshotFacts ==
    ASSUME images' \in [Images -> Avail], vm' \in [Images -> Provisioning]
    PROVE  /\ Snapshot \in Library
           /\ \A i \in Images :
                 /\ Snapshot.images[i] =
                       IF images'[i] \in Transfer THEN "failed" ELSE images'[i]
                 /\ Snapshot.vm[i] =
                       IF vm'[i] \in Transfer THEN "downloading" ELSE vm'[i]
  <1> DEFINE im == [i \in Images |-> IF images'[i] \in Transfer THEN "failed" ELSE images'[i]]
             vs == [i \in Images |-> IF vm'[i] \in Transfer THEN "downloading" ELSE vm'[i]]
  <1>1. im \in [Images -> Avail] /\ vs \in [Images -> Provisioning]
    BY DEF Avail, Provisioning, Availability, Transfer
  <1>2. Snapshot = [images |-> im, vm |-> vs]
    BY DEF Snapshot
  <1>3. /\ \A i \in Images :
              im[i] = IF images'[i] \in Transfer THEN "failed" ELSE images'[i]
        /\ \A i \in Images :
              vs[i] = IF vm'[i] \in Transfer THEN "downloading" ELSE vm'[i]
    OBVIOUS
  <1> HIDE DEF im, vs
  <1>4. Snapshot.images = im /\ Snapshot.vm = vs /\ Snapshot \in Library
    BY <1>1, <1>2 DEF Library, Avail
  <1> QED
    BY <1>3, <1>4

LEMMA JobFields ==
    ASSUME TypeOK
    PROVE  /\ saves \in Seq(Job)
           /\ \A k \in DOMAIN saves : saves[k].by \in Calls \union Tasks /\ saves[k].list \in Library
  <1>1. saves \in Seq(Job)
    BY DEF TypeOK, Job
  <1>2. \A k \in DOMAIN saves : saves[k] \in Job
    BY <1>1
  <1> QED
    BY <1>1, <1>2 DEF Job

LEMMA SaveFields ==
    ASSUME NEW w \in Calls \union Tasks, Snapshot \in Library
    PROVE  Save(w) \in Job /\ Save(w).by = w /\ Save(w).list = Snapshot
  BY DEF Save, Job

(* The queue as its jobs see it; popped is the process whose save is done. *)
QueueMoves(popped) ==
    /\ Lists' \subseteq Lists \union {Snapshot}
    /\ \A c \in Calls :
          /\ Since(c)' \subseteq IF Waits(c) THEN Since(c) \union {Snapshot} ELSE {Snapshot}
          /\ \A w \in Ahead(c) : w # popped => w \in Ahead(c)'
          /\ ~Waits(c) /\ Waits(c)' =>
                \A t \in Tasks : Waits(t) /\ t # popped => t \in Ahead(c)'

(* Who has no save in the queue waits for none. *)
LEMMA NoSave ==
    ASSUME QueueInv, NEW w, ~Waits(w)
    PROVE  \A k \in DOMAIN saves : saves[k].by # w
  BY DEF QueueInv

LEMMA SameQueue ==
    ASSUME TypeOK, QueueInv, saves' = saves, json' = json,
           \A w \in Calls \union Tasks : Waits(w)' <=> Waits(w)
    PROVE  QueueInv' /\ saves' \in Seq(Job) /\ QueueMoves("none")
  <1>1. QueueInv'
    BY JobFields DEF QueueInv
  <1>2. Lists' = Lists
    BY DEF Lists
  <1>3. \A c \in Calls : Since(c)' = Since(c) /\ Ahead(c)' = Ahead(c)
    BY DEF Since, Ahead
  <1>4. ASSUME NEW c \in Calls, ~Waits(c)
        PROVE  Since(c) = {}
    BY <1>4, NoSave DEF Since
  <1> QED
    BY <1>1, <1>2, <1>3, <1>4, JobFields DEF QueueMoves

(* persist() of a process that goes on to wait. *)
LEMMA JoinQueue ==
    ASSUME TypeOK, QueueInv, NEW w \in Calls \union Tasks, Snapshot \in Library,
           saves' = Append(saves, Save(w)), json' = json, ~Waits(w), Waits(w)',
           \A v \in (Calls \union Tasks) \ {w} : Waits(v)' <=> Waits(v)
    PROVE  QueueInv' /\ saves' \in Seq(Job) /\ QueueMoves("none")
  <1> DEFINE n == Len(saves) + 1
  <1>1. saves \in Seq(Job) /\ Save(w) \in Job
    BY JobFields, SaveFields
  <1>2. /\ saves' \in Seq(Job)
        /\ DOMAIN saves' = DOMAIN saves \union {n}
        /\ \A k \in DOMAIN saves : k \in Nat /\ k < n /\ saves'[k] = saves[k]
        /\ saves'[n] = Save(w)
        /\ n \in Nat
    BY <1>1
  <1>3. saves'[n].by = w /\ saves'[n].list = Snapshot
    BY <1>2, SaveFields
  <1>4. \A k \in DOMAIN saves : saves[k].by # w /\ saves[k].by \in Calls \union Tasks
    BY NoSave, JobFields
  <1> HIDE DEF n
  <1>5. QueueInv'
    <2>1. ASSUME NEW k \in DOMAIN saves'
          PROVE  \A v : v = saves'[k].by => Waits(v)'
      <3>1. CASE k \in DOMAIN saves
        <4>1. PICK v \in Calls \union Tasks : saves'[k].by = v /\ Waits(v) /\ v # w
          BY <1>2, <1>4, <3>1 DEF QueueInv
        <4>2. Waits(v)'
          BY <4>1
        <4> QED
          BY <4>1, <4>2
      <3>2. CASE k = n
        BY <3>2, <1>3
      <3> QED
        BY <3>1, <3>2, <1>2
    <2>2. \A j, k \in DOMAIN saves' : saves'[j].by = saves'[k].by => j = k
      BY <1>2, <1>3, <1>4 DEF QueueInv
    <2>3. ASSUME NEW v \in Tasks \union Calls, Waits(v)'
          PROVE  \E k \in DOMAIN saves' : saves'[k].by = v
      <3>1. CASE v = w
        BY <3>1, <1>2, <1>3
      <3>2. CASE v # w
        <4>1. PICK k \in DOMAIN saves : saves[k].by = v
          BY <2>3, <3>2 DEF QueueInv
        <4> QED
          BY <1>2, <4>1
      <3> QED
        BY <3>1, <3>2
    <2> QED
      BY <2>1, <2>2, <2>3 DEF QueueInv
  <1>6. ASSUME NEW list \in Lists'
        PROVE  list \in Lists \union {Snapshot}
    <2>1. CASE list = json'
      BY <2>1 DEF Lists
    <2>2. CASE \E m \in DOMAIN saves' : saves'[m].list = list
      <3>1. PICK m \in DOMAIN saves' : saves'[m].list = list
        BY <2>2
      <3>2. CASE m = n
        BY <1>3, <3>1, <3>2
      <3>3. CASE m \in DOMAIN saves
        BY <1>2, <3>1, <3>3 DEF Lists
      <3> QED
        BY <1>2, <3>2, <3>3
    <2> QED
      BY <2>1, <2>2, <1>6 DEF Lists
  <1>7. ASSUME NEW c \in Calls
        PROVE  /\ Since(c)' \subseteq IF Waits(c) THEN Since(c) \union {Snapshot} ELSE {Snapshot}
               /\ \A v \in Ahead(c) : v \in Ahead(c)'
               /\ ~Waits(c) /\ Waits(c)' => \A t \in Tasks : Waits(t) => t \in Ahead(c)'
    <2>1. ASSUME NEW list \in Since(c)'
          PROVE  list = Snapshot \/ (Waits(c) /\ list \in Since(c))
      <3>1. PICK m \in DOMAIN saves', j \in DOMAIN saves' :
                    saves'[m].list = list /\ j <= m /\ saves'[j].by = c
        BY <2>1 DEF Since
      <3>2. CASE m = n
        BY <1>3, <3>1, <3>2
      <3>3. CASE m \in DOMAIN saves
        <4>1. j \in DOMAIN saves
          BY <1>2, <3>1, <3>3
        <4>2. saves[m].list = list /\ saves[j].by = c
          BY <1>2, <3>1, <3>3, <4>1
        <4>3. Waits(c)
          BY <4>1, <4>2 DEF QueueInv
        <4> QED
          BY <3>1, <3>3, <4>1, <4>2, <4>3 DEF Since
      <3> QED
        BY <1>2, <3>2, <3>3
    <2>2. ASSUME NEW v \in Ahead(c)
          PROVE  v \in Ahead(c)'
      <3>1. PICK m \in DOMAIN saves, j \in DOMAIN saves :
                    saves[m].by = v /\ m < j /\ saves[j].by = c
        BY <2>2 DEF Ahead
      <3>2. /\ m \in DOMAIN saves' /\ j \in DOMAIN saves'
            /\ saves'[m].by = v /\ saves'[j].by = c
        BY <1>2, <3>1
      <3> QED
        BY <3>1, <3>2 DEF Ahead
    <2>3. ASSUME ~Waits(c), Waits(c)', NEW t \in Tasks, Waits(t)
          PROVE  t \in Ahead(c)'
      <3>1. c = w
        BY <2>3
      <3>2. PICK m \in DOMAIN saves : saves[m].by = t
        BY <2>3 DEF QueueInv
      <3>3. m \in DOMAIN saves' /\ m < n /\ saves'[m].by = t /\ n \in DOMAIN saves'
        BY <1>2, <3>2
      <3> QED
        BY <1>3, <3>1, <3>3 DEF Ahead
    <2> QED
      BY <2>1, <2>2, <2>3
  <1> QED
    BY <1>2, <1>5, <1>6, <1>7 DEF QueueMoves

(* Without its first job the queue is what it was. *)
LEMMA TailFacts ==
    ASSUME TypeOK, saves # <<>>
    PROVE  /\ Tail(saves) \in Seq(Job) /\ 1 \in DOMAIN saves
           /\ Head(saves) = saves[1] /\ Asker = saves[1].by
           /\ Asker \in Calls \union Tasks /\ Head(saves).list \in Library
           /\ \A k \in DOMAIN Tail(saves) :
                 k \in Nat /\ k >= 1 /\ k + 1 \in DOMAIN saves /\ Tail(saves)[k] = saves[k + 1]
           /\ \A k \in DOMAIN saves :
                 /\ k \in Nat
                 /\ k = 1 \/ (k - 1 \in DOMAIN Tail(saves) /\ Tail(saves)[k - 1] = saves[k])
  <1>1. saves \in Seq(Job)
    BY JobFields
  <1> HIDE DEF Job
  <1>2. Len(saves) \in Nat /\ Len(saves) >= 1 /\ DOMAIN saves = 1..Len(saves)
    BY <1>1
  <1>3. /\ Tail(saves) \in Seq(Job) /\ Head(saves) = saves[1]
        /\ DOMAIN Tail(saves) = 1..(Len(saves) - 1)
        /\ \A k \in 1..(Len(saves) - 1) : Tail(saves)[k] = saves[k + 1]
    BY <1>1
  <1>4. saves[1].by \in Calls \union Tasks /\ saves[1].list \in Library
    BY <1>2, JobFields
  <1>5. \A k \in DOMAIN Tail(saves) :
           k \in Nat /\ k >= 1 /\ k + 1 \in DOMAIN saves /\ Tail(saves)[k] = saves[k + 1]
    BY <1>2, <1>3
  <1>6. ASSUME NEW k \in DOMAIN saves, k # 1
        PROVE  k - 1 \in DOMAIN Tail(saves) /\ Tail(saves)[k - 1] = saves[k]
    <2>1. k - 1 \in 1..(Len(saves) - 1) /\ (k - 1) + 1 = k
      BY <1>2, <1>6
    <2> QED
      BY <1>3, <2>1
  <1> QED
    BY <1>2, <1>3, <1>4, <1>5, <1>6 DEF Asker

(* The process whose save is done leaves the queue. *)
LEMMA LeaveQueue ==
    ASSUME TypeOK, QueueInv, saves # <<>>, NEW w, w = Asker,
           saves' = Tail(saves), json' \in {json, Head(saves).list}, ~Waits(w)',
           \A v \in (Calls \union Tasks) \ {w} : Waits(v)' <=> Waits(v)
    PROVE  /\ QueueInv' /\ saves' \in Seq(Job) /\ QueueMoves(w)
           /\ Ahead(w) = {}
           /\ json' = Head(saves).list => Lists' \subseteq Since(w)
  <1>1. /\ saves' \in Seq(Job)
        /\ 1 \in DOMAIN saves /\ saves[1].by = w /\ Head(saves) = saves[1]
        /\ \A k \in DOMAIN saves' :
              k \in Nat /\ k >= 1 /\ k + 1 \in DOMAIN saves /\ saves'[k] = saves[k + 1]
        /\ \A k \in DOMAIN saves :
              k \in Nat /\ (k = 1 \/ (k - 1 \in DOMAIN saves' /\ saves'[k - 1] = saves[k]))
    BY TailFacts
  <1>2. \A k \in DOMAIN saves : saves[k].by = w => k = 1
    BY <1>1 DEF QueueInv
  <1>3. \A k \in DOMAIN saves : saves[k].by \in Calls \union Tasks
    BY JobFields
  <1>4. QueueInv'
    <2>1. ASSUME NEW k \in DOMAIN saves'
          PROVE  \A v : v = saves'[k].by => Waits(v)'
      <3>1. /\ k + 1 \in DOMAIN saves /\ saves'[k] = saves[k + 1] /\ k + 1 # 1
        BY <1>1
      <3>2. PICK v \in Calls \union Tasks : saves'[k].by = v /\ Waits(v) /\ v # w
        BY <3>1, <1>2, <1>3 DEF QueueInv
      <3> QED
        BY <3>2
    <2>2. \A j, k \in DOMAIN saves' : saves'[j].by = saves'[k].by => j = k
      <3> SUFFICES ASSUME NEW j \in DOMAIN saves', NEW k \in DOMAIN saves',
                          saves'[j].by = saves'[k].by
                   PROVE  j = k
        OBVIOUS
      <3>1. j + 1 = k + 1
        BY <1>1 DEF QueueInv
      <3> QED
        BY <1>1, <3>1
    <2>3. ASSUME NEW v \in Tasks \union Calls, Waits(v)'
          PROVE  \E k \in DOMAIN saves' : saves'[k].by = v
      <3>1. v # w
        BY <2>3
      <3>2. PICK k \in DOMAIN saves : saves[k].by = v
        BY <2>3, <3>1 DEF QueueInv
      <3>3. k # 1
        BY <1>1, <3>1, <3>2
      <3> QED
        BY <1>1, <3>2, <3>3
    <2> QED
      BY <2>1, <2>2, <2>3 DEF QueueInv
  <1>5. ASSUME NEW list \in Lists'
        PROVE  list \in Lists /\ (json' = Head(saves).list => list \in Since(w))
    <2>1. CASE list = json'
      BY <1>1, <2>1 DEF Lists, Since
    <2>2. CASE \E m \in DOMAIN saves' : saves'[m].list = list
      <3>1. PICK m \in DOMAIN saves' : saves'[m].list = list
        BY <2>2
      <3>2. m + 1 \in DOMAIN saves /\ saves[m + 1].list = list /\ 1 <= m + 1
        BY <1>1, <3>1
      <3> QED
        BY <1>1, <3>2 DEF Lists, Since
    <2> QED
      BY <2>1, <2>2, <1>5 DEF Lists
  <1>6. ASSUME NEW c \in Calls
        PROVE  /\ Since(c)' \subseteq Since(c)
               /\ \A v \in Ahead(c) : v # w => v \in Ahead(c)'
               /\ ~Waits(c) => Since(c) = {} /\ ~Waits(c)'
    <2>1. ASSUME NEW list \in Since(c)'
          PROVE  list \in Since(c)
      <3>1. PICK m \in DOMAIN saves', j \in DOMAIN saves' :
                    saves'[m].list = list /\ j <= m /\ saves'[j].by = c
        BY <2>1 DEF Since
      <3>2. /\ m + 1 \in DOMAIN saves /\ j + 1 \in DOMAIN saves /\ j + 1 <= m + 1
            /\ saves[m + 1].list = list /\ saves[j + 1].by = c
        BY <1>1, <3>1
      <3> QED
        BY <3>2 DEF Since
    <2>2. ASSUME NEW v \in Ahead(c), v # w
          PROVE  v \in Ahead(c)'
      <3>1. PICK m \in DOMAIN saves, j \in DOMAIN saves :
                    saves[m].by = v /\ m < j /\ saves[j].by = c
        BY <2>2 DEF Ahead
      <3>2. m # 1 /\ j # 1
        BY <1>1, <2>2, <3>1
      <3>3. /\ m - 1 \in DOMAIN saves' /\ j - 1 \in DOMAIN saves' /\ m - 1 < j - 1
            /\ saves'[m - 1].by = v /\ saves'[j - 1].by = c
        BY <1>1, <3>1, <3>2
      <3> QED
        BY <3>3 DEF Ahead
    <2>3. ~Waits(c) => Since(c) = {}
      BY NoSave DEF Since
    <2> QED
      BY <2>1, <2>2, <2>3
  <1>7. Ahead(w) = {}
    BY <1>1, <1>2 DEF Ahead
  <1> QED
    BY <1>1, <1>4, <1>5, <1>6, <1>7 DEF QueueMoves

LEMMA AppendFacts ==
    ASSUME NEW S, NEW s \in Seq(S), NEW e \in S
    PROVE  /\ Append(s, e) \in Seq(S)
           /\ DOMAIN Append(s, e) = DOMAIN s \union {Len(s) + 1}
           /\ \A k \in DOMAIN s : k \in Nat /\ k < Len(s) + 1 /\ Append(s, e)[k] = s[k]
           /\ Append(s, e)[Len(s) + 1] = e
           /\ Len(s) + 1 \in Nat
  OBVIOUS

(* A task whose save is done asks for another at once. *)
LEMMA RejoinQueue ==
    ASSUME TypeOK, QueueInv, saves # <<>>, NEW w \in Tasks, w = Asker, Snapshot \in Library,
           saves' = Append(Tail(saves), Save(w)), json' = json, Waits(w)',
           \A v \in (Calls \union Tasks) \ {w} : Waits(v)' <=> Waits(v)
    PROVE  QueueInv' /\ saves' \in Seq(Job) /\ QueueMoves(w)
  <1> DEFINE s == Tail(saves)
             n == Len(s) + 1
  <1>1. /\ s \in Seq(Job)
        /\ 1 \in DOMAIN saves /\ saves[1].by = w
        /\ \A k \in DOMAIN s :
              k \in Nat /\ k >= 1 /\ k + 1 \in DOMAIN saves /\ s[k] = saves[k + 1]
        /\ \A k \in DOMAIN saves :
              k \in Nat /\ (k = 1 \/ (k - 1 \in DOMAIN s /\ s[k - 1] = saves[k]))
    BY TailFacts
  <1>2. saves' = Append(s, Save(w)) /\ Save(w) \in Job
    BY SaveFields
  <1> HIDE DEF s
  <1>3. /\ saves' \in Seq(Job)
        /\ DOMAIN saves' = DOMAIN s \union {n}
        /\ \A k \in DOMAIN s : k \in Nat /\ k < n /\ saves'[k] = s[k]
        /\ saves'[n] = Save(w)
        /\ n \in Nat
    <2> DEFINE e == Save(w)
    <2>1. s \in Seq(Job) /\ e \in Job /\ saves' = Append(s, e)
      BY <1>1, <1>2
    <2> HIDE DEF e
    <2>2. /\ Append(s, e) \in Seq(Job)
          /\ DOMAIN Append(s, e) = DOMAIN s \union {Len(s) + 1}
          /\ \A k \in DOMAIN s : k \in Nat /\ k < Len(s) + 1 /\ Append(s, e)[k] = s[k]
          /\ Append(s, e)[Len(s) + 1] = e
          /\ Len(s) + 1 \in Nat
      BY <2>1, AppendFacts, Zenon
    <2> QED
      BY <2>1, <2>2, Zenon DEF e
  <1>4. saves'[n].by = w /\ saves'[n].list = Snapshot
    BY <1>3, SaveFields
  <1>5. /\ \A k \in DOMAIN saves : saves[k].by = w => k = 1
        /\ \A k \in DOMAIN saves : saves[k].by \in Calls \union Tasks
    BY <1>1, JobFields DEF QueueInv
  <1> HIDE DEF n
  <1>6. \A k \in DOMAIN s : /\ saves'[k] = saves[k + 1] /\ k + 1 \in DOMAIN saves
                            /\ saves'[k].by # w /\ k \in Nat /\ k < n
    <2> SUFFICES ASSUME NEW k \in DOMAIN s
                 PROVE  /\ saves'[k] = saves[k + 1] /\ k + 1 \in DOMAIN saves
                        /\ saves'[k].by # w /\ k \in Nat /\ k < n
      OBVIOUS
    <2>1. saves'[k] = saves[k + 1] /\ k + 1 \in DOMAIN saves /\ k + 1 # 1
      BY <1>1, <1>3
    <2> QED
      BY <1>3, <1>5, <2>1
  <1>7. QueueInv'
    <2>1. ASSUME NEW k \in DOMAIN saves'
          PROVE  \A v : v = saves'[k].by => Waits(v)'
      <3>1. CASE k \in DOMAIN s
        <4>1. PICK v \in Calls \union Tasks : saves'[k].by = v /\ Waits(v) /\ v # w
          BY <1>5, <1>6, <3>1 DEF QueueInv
        <4> QED
          BY <4>1
      <3>2. CASE k = n
        BY <3>2, <1>4
      <3> QED
        BY <3>1, <3>2, <1>3
    <2>2. \A j, k \in DOMAIN saves' : saves'[j].by = saves'[k].by => j = k
      <3> SUFFICES ASSUME NEW j \in DOMAIN saves', NEW k \in DOMAIN saves',
                          saves'[j].by = saves'[k].by
                   PROVE  j = k
        OBVIOUS
      <3>1. CASE j \in DOMAIN s /\ k \in DOMAIN s
        <4>1. j + 1 = k + 1
          BY <1>6, <3>1 DEF QueueInv
        <4> QED
          BY <1>6, <3>1, <4>1
      <3> QED
        BY <1>3, <1>4, <1>6, <3>1
    <2>3. ASSUME NEW v \in Tasks \union Calls, Waits(v)'
          PROVE  \E k \in DOMAIN saves' : saves'[k].by = v
      <3>1. CASE v = w
        BY <3>1, <1>3, <1>4
      <3>2. CASE v # w
        <4>1. PICK k \in DOMAIN saves : saves[k].by = v
          BY <2>3, <3>2 DEF QueueInv
        <4>2. k - 1 \in DOMAIN s /\ s[k - 1] = saves[k]
          BY <1>1, <3>2, <4>1
        <4> QED
          BY <1>3, <4>1, <4>2
      <3> QED
        BY <3>1, <3>2
    <2> QED
      BY <2>1, <2>2, <2>3 DEF QueueInv
  <1>8. ASSUME NEW list \in Lists'
        PROVE  list \in Lists \union {Snapshot}
    <2>1. CASE list = json'
      BY <2>1 DEF Lists
    <2>2. CASE \E m \in DOMAIN saves' : saves'[m].list = list
      <3>1. PICK m \in DOMAIN saves' : saves'[m].list = list
        BY <2>2
      <3>2. CASE m = n
        BY <1>4, <3>1, <3>2
      <3>3. CASE m \in DOMAIN s
        BY <1>6, <3>1, <3>3 DEF Lists
      <3> QED
        BY <1>3, <3>2, <3>3
    <2> QED
      BY <2>1, <2>2, <1>8 DEF Lists
  <1>9. ASSUME NEW c \in Calls
        PROVE  /\ \A list \in Since(c)' : list = Snapshot \/ (Waits(c) /\ list \in Since(c))
               /\ \A v \in Ahead(c) : v # w => v \in Ahead(c)'
               /\ ~Waits(c) => ~Waits(c)'
    <2>0. c # w
      BY ConstantsAssumption
    <2>1. ASSUME NEW list \in Since(c)'
          PROVE  list = Snapshot \/ (Waits(c) /\ list \in Since(c))
      <3>1. PICK m \in DOMAIN saves', j \in DOMAIN saves' :
                    saves'[m].list = list /\ j <= m /\ saves'[j].by = c
        BY <2>1 DEF Since
      <3>2. CASE m = n
        BY <1>4, <3>1, <3>2
      <3>3. CASE m \in DOMAIN s
        <4>1. j \in DOMAIN s
          BY <1>3, <1>4, <2>0, <3>1
        <4>2. /\ m + 1 \in DOMAIN saves /\ j + 1 \in DOMAIN saves /\ j + 1 <= m + 1
              /\ saves[m + 1].list = list /\ saves[j + 1].by = c
          BY <1>6, <3>1, <3>3, <4>1
        <4>3. Waits(c)
          BY <4>2 DEF QueueInv
        <4> QED
          BY <4>2, <4>3 DEF Since
      <3> QED
        BY <1>3, <3>2, <3>3
    <2>2. ASSUME NEW v \in Ahead(c), v # w
          PROVE  v \in Ahead(c)'
      <3>1. PICK m \in DOMAIN saves, j \in DOMAIN saves :
                    saves[m].by = v /\ m < j /\ saves[j].by = c
        BY <2>2 DEF Ahead
      <3>2. m # 1 /\ j # 1 /\ m \in Nat /\ j \in Nat
        BY <1>1, <2>0, <2>2, <3>1
      <3>3. m - 1 \in DOMAIN s /\ s[m - 1].by = v /\ j - 1 \in DOMAIN s /\ s[j - 1].by = c
        BY <1>1, <3>1, <3>2
      <3>4. /\ m - 1 \in DOMAIN saves' /\ j - 1 \in DOMAIN saves'
            /\ saves'[m - 1].by = v /\ saves'[j - 1].by = c
        BY <1>3, <3>3
      <3>5. m - 1 < j - 1
        BY <3>1, <3>2
      <3> QED
        BY <3>4, <3>5 DEF Ahead
    <2> QED
      BY <2>0, <2>1, <2>2
  <1> QED
    BY <1>3, <1>7, <1>8, <1>9 DEF QueueMoves

(* The app ends: nobody waits. *)
LEMMA ClearQueue ==
    ASSUME TypeOK, saves' = <<>>, json' \in {json, Snapshot},
           \A w \in Calls \union Tasks : ~Waits(w)'
    PROVE  QueueInv' /\ saves' \in Seq(Job) /\ Lists' \subseteq Lists \union {Snapshot}
  <1>1. DOMAIN saves' = {}
    OBVIOUS
  <1>2. QueueInv'
    BY <1>1 DEF QueueInv
  <1>3. \A list \in Lists' : list = json'
    BY <1>1 DEF Lists
  <1>4. json' \in Lists \union {Snapshot}
    BY DEF Lists
  <1> QED
    BY <1>2, <1>3, <1>4

-----------------------------------------------------------------------------
(* Types, the queue, and the shape of calls and tasks                       *)

(* TypeOK but for the lists that are saved. *)
Typed ==
    /\ images \in [Images -> Avail]
    /\ vm \in [Images -> Provisioning]
    /\ art \in [Images -> SUBSET {"partial", "iso"}]
    /\ downloads \in [Images -> Tasks \union {"none"}]
    /\ tasks \in [Tasks -> Task \union {NoTask}]
    /\ calls \in [Calls -> Call \union {Idle}]
    /\ presses \in 0..MaxPresses
    /\ fate \in [Images -> {"new", "listed", "doomed", "gone"}]
    /\ excused \in SUBSET Images

LEMMA TypedIsTypeOK ==
    /\ TypeOK => Typed /\ json \in Library
    /\ Typed' /\ json' \in Library /\ saves' \in Seq(Job) => TypeOK'
  BY DEF TypeOK, Typed, Avail, Job

(* A step that asks for no save. *)
LEMMA QuietStep ==
    ASSUME DownloadsInv, UNCHANGED <<json, saves>>, Typed', ShapeInv',
           \A w \in Calls \union Tasks : Waits(w)' <=> Waits(w)
    PROVE  DownloadsInv' /\ QueueMoves("none")
  BY SameQueue, TypedIsTypeOK DEF DownloadsInv

(* A step in which w asks for one. *)
LEMMA JoinStep ==
    ASSUME DownloadsInv, UNCHANGED json, Typed', ShapeInv', NEW w \in Calls \union Tasks,
           Persist(w), ~Waits(w), Waits(w)',
           \A v \in (Calls \union Tasks) \ {w} : Waits(v)' <=> Waits(v)
    PROVE  DownloadsInv' /\ QueueMoves("none")
  <1>1. Snapshot \in Library
    BY SnapshotFacts DEF Typed
  <1>2. QueueInv' /\ saves' \in Seq(Job) /\ QueueMoves("none")
    BY <1>1, JoinQueue DEF DownloadsInv, Persist
  <1> QED
    BY <1>2, TypedIsTypeOK DEF DownloadsInv

(* The end of a save. *)
LEMMA LeaveStep ==
    ASSUME DownloadsInv, Typed', ShapeInv', saves # <<>>, NEW w, w = Asker,
           saves' = Tail(saves), json' \in {json, Head(saves).list}, ~Waits(w)',
           \A v \in (Calls \union Tasks) \ {w} : Waits(v)' <=> Waits(v)
    PROVE  /\ DownloadsInv' /\ QueueMoves(w)
           /\ Ahead(w) = {}
           /\ json' = Head(saves).list => Lists' \subseteq Since(w)
  <1>1. /\ QueueInv' /\ saves' \in Seq(Job) /\ QueueMoves(w)
        /\ Ahead(w) = {}
        /\ json' = Head(saves).list => Lists' \subseteq Since(w)
    BY LeaveQueue DEF DownloadsInv
  <1>2. json' \in Library
    BY TailFacts DEF DownloadsInv, TypeOK
  <1> QED
    BY <1>1, <1>2, TypedIsTypeOK DEF DownloadsInv

(* The failure of one, after which the task asks for another. *)
LEMMA RejoinStep ==
    ASSUME DownloadsInv, Typed', ShapeInv', saves # <<>>, NEW w \in Tasks, w = Asker,
           saves' = Append(Tail(saves), Save(w)), json' = json, Waits(w)',
           \A v \in (Calls \union Tasks) \ {w} : Waits(v)' <=> Waits(v)
    PROVE  DownloadsInv' /\ QueueMoves(w)
  <1>1. Snapshot \in Library
    BY SnapshotFacts DEF Typed
  <1>2. QueueInv' /\ saves' \in Seq(Job) /\ QueueMoves(w)
    BY <1>1, RejoinQueue DEF DownloadsInv
  <1> QED
    BY <1>2, TypedIsTypeOK DEF DownloadsInv, TypeOK

(* ShapeInv by its parts. *)
CallShape(c) ==
    /\ calls[c].pc \in {"copy", "copied"} => calls[c].op = "import"
    /\ calls[c].pc = "undo" => calls[c].op = "import"
    /\ calls[c].pc \in {"remove", "removed"} => calls[c].op \in {"retry", "delete"}
    /\ calls[c].pc = "make" =>
          calls[c].op \in {"create", "clone", "start"} /\ calls[c].seen # "none"
    /\ calls[c].pc = "ran" => calls[c].op = "start"
    /\ calls[c].op = "import" => calls[c].pc \in {"copy", "copied", "undo", "save"}
    /\ calls[c].op \in {"retry", "delete"} => calls[c].pc \in {"remove", "removed", "save"}
TaskShape(t) == tasks[t].pending # <<>> => tasks[t].pc \in {"fetch", "check", "back"}
DownloadShape == \A i \in Images : downloads[i] # "none" => tasks[downloads[i]].image = i

LEMMA ShapeParts ==
    ShapeInv <=> /\ \A c \in Calls : CallShape(c)
                 /\ \A t \in Tasks : TaskShape(t)
                 /\ DownloadShape
  BY DEF ShapeInv, CallShape, TaskShape, DownloadShape

(* Only call c moves: it keeps its place in the queue, or it has none. *)
LEMMA CallMoves ==
    ASSUME DownloadsInv, NEW c \in Calls, \A d \in Calls \ {c} : calls'[d] = calls[d],
           UNCHANGED tasks
    PROVE  /\ \A w \in (Calls \union Tasks) \ {c} : Waits(w)' <=> Waits(w)
           /\ Waits(c)' <=> calls'[c].pc = "save"
           /\ Waits(c) <=> calls[c].pc = "save"
           /\ CallShape(c)' /\ UNCHANGED downloads => ShapeInv'
  <1>1. \A w \in (Calls \union Tasks) \ {c} : Waits(w)' <=> Waits(w)
    BY DEF Waits
  <1>2. c \notin Tasks
    BY ConstantsAssumption
  <1>3. (Waits(c)' <=> calls'[c].pc = "save") /\ (Waits(c) <=> calls[c].pc = "save")
    BY <1>2 DEF Waits
  <1>4. ASSUME CallShape(c)', UNCHANGED downloads
        PROVE  ShapeInv'
    BY <1>4 DEF DownloadsInv, ShapeInv, CallShape
  <1> QED
    BY <1>1, <1>3, <1>4

(* Only task t moves. *)
LEMMA TaskMoves ==
    ASSUME DownloadsInv, NEW t \in Tasks, \A u \in Tasks \ {t} : tasks'[u] = tasks[u],
           UNCHANGED calls
    PROVE  /\ \A w \in (Calls \union Tasks) \ {t} : Waits(w)' <=> Waits(w)
           /\ Waits(t)' <=> tasks'[t].pc \in {"first", "last", "failed"}
           /\ Waits(t) <=> tasks[t].pc \in {"first", "last", "failed"}
           /\ TaskShape(t)' /\ DownloadShape' => ShapeInv'
           /\ tasks'[t].image = tasks[t].image /\ UNCHANGED downloads => DownloadShape'
  <1>1. \A w \in (Calls \union Tasks) \ {t} : Waits(w)' <=> Waits(w)
    BY DEF Waits
  <1>2. /\ Waits(t)' <=> tasks'[t].pc \in {"first", "last", "failed"}
        /\ Waits(t) <=> tasks[t].pc \in {"first", "last", "failed"}
    BY DEF Waits
  <1>3. ASSUME TaskShape(t)', DownloadShape'
        PROVE  ShapeInv'
    BY <1>3 DEF DownloadsInv, ShapeInv, TaskShape, DownloadShape
  <1>4. ASSUME tasks'[t].image = tasks[t].image, UNCHANGED downloads
        PROVE  DownloadShape'
    <2> SUFFICES ASSUME NEW i \in Images, downloads[i] # "none"
                 PROVE  tasks'[downloads[i]].image = i
      BY <1>4 DEF DownloadShape
    <2>1. downloads[i] \in Tasks /\ tasks[downloads[i]].image = i
      BY DEF DownloadsInv, TypeOK, ShapeInv
    <2> QED
      BY <1>4, <2>1
  <1> QED
    BY <1>1, <1>2, <1>3, <1>4

-----------------------------------------------------------------------------
(* Every step keeps DownloadsInv; what it does to the calls, to the tasks and
   to the queue.                                                            *)

LEMMA PressesStay == DownloadsInv /\ UNCHANGED presses => presses' \in 0..MaxPresses
  BY DEF DownloadsInv, TypeOK

(* downloads holds a new task; what it held is not another's. *)
LEMMA NewDownload ==
    ASSUME TypeOK, ShapeInv, NEW t \in Tasks, NEW i \in Images, TaskNew(t, i)
    PROVE  DownloadShape'
  <1>1. tasks[t].image = "none" /\ tasks'[t].image = i
    BY DEF TaskNew, NoTask, NewTask
  <1>2. SUFFICES ASSUME NEW j \in Images, downloads'[j] # "none"
                 PROVE  tasks'[downloads'[j]].image = j
    BY DEF DownloadShape
  <1>3. CASE j = i
    BY <1>1, <1>3 DEF TaskNew, TypeOK
  <1>4. CASE j # i
    <2>1. downloads'[j] = downloads[j]
      BY <1>4 DEF TaskNew, TypeOK
    <2>2. downloads[j] \in Tasks /\ tasks[downloads[j]].image = j
      BY <1>2, <2>1 DEF ShapeInv, TypeOK
    <2>3. downloads[j] # t
      BY <1>1, <2>2, ConstantsAssumption
    <2> QED
      BY <2>1, <2>2, <2>3 DEF TaskNew
  <1> QED
    BY <1>3, <1>4

LEMMA RetryFacts ==
    ASSUME DownloadsInv, presses' \in 0..MaxPresses, NEW c \in Calls, NEW i \in Images,
           Retry(c, i)
    PROVE  /\ DownloadsInv' /\ QueueMoves("none") /\ CallNew(c, "retry", i, "remove")
           /\ calls'[c].seen = "none"
           /\ UNCHANGED tasks
  <1>0. "none" \in Provisioning /\ "retry" \in CallOp /\ "remove" \in CallPC
    BY DEF Provisioning, CallOp, CallPC
  <1>1. /\ calls' \in [Calls -> Call \union {Idle}] /\ calls'[c].seen = "none"
        /\ CallNew(c, "retry", i, "remove")
    BY <1>0, BeginFacts DEF Retry, DownloadsInv
  <1>2. calls[c].pc = "idle"
    BY <1>1 DEF CallNew, Idle
  <1>3. UNCHANGED <<tasks, downloads, json>>
    BY DEF Retry
  <1>4. Typed'
    BY <1>1, <1>3 DEF Retry, DownloadsInv, TypeOK, Typed, Avail, Availability
  <1>5. CallShape(c)'
    BY <1>1 DEF CallNew, CallShape
  <1>6. /\ \A w \in (Calls \union Tasks) \ {c} : Waits(w)' <=> Waits(w)
        /\ Waits(c)' <=> "remove" = "save"
        /\ ~Waits(c)
        /\ ShapeInv'
    BY <1>1, <1>2, <1>3, <1>5, CallMoves DEF CallNew
  <1>7. DownloadsInv' /\ QueueMoves("none")
    <2>1. \A w \in Calls \union Tasks : Waits(w)' <=> Waits(w)
      BY <1>6
    <2> QED
      BY <1>3, <1>4, <1>6, <2>1, QuietStep DEF Retry
  <1> QED
    BY <1>1, <1>3, <1>7

LEMMA DeleteFacts ==
    ASSUME DownloadsInv, presses' \in 0..MaxPresses, NEW c \in Calls, NEW i \in Images,
           Delete(c, i)
    PROVE  /\ DownloadsInv' /\ QueueMoves("none") /\ CallNew(c, "delete", i, "remove")
           /\ calls'[c].seen = "none"
           /\ \A t \in Tasks :
                 /\ tasks'[t].image = tasks[t].image /\ tasks'[t].pc = tasks[t].pc
                 /\ tasks'[t].result = tasks[t].result
  <1>0. "none" \in Provisioning /\ "delete" \in CallOp /\ "remove" \in CallPC
    BY DEF Provisioning, CallOp, CallPC
  <1>1. /\ calls' \in [Calls -> Call \union {Idle}] /\ calls'[c].seen = "none"
        /\ CallNew(c, "delete", i, "remove")
    BY <1>0, BeginFacts DEF Delete, DownloadsInv
  <1>2. calls[c].pc = "idle"
    BY <1>1 DEF CallNew, Idle
  <1>3. /\ tasks' \in [Tasks -> Task \union {NoTask}]
        /\ \A t \in Tasks :
              /\ tasks'[t].image = tasks[t].image
              /\ tasks'[t].pc = tasks[t].pc
              /\ tasks'[t].result = tasks[t].result
              /\ tasks'[t].pending = tasks[t].pending
    BY CancelFacts DEF Delete, DownloadsInv
  <1>4. Typed'
    BY <1>1, <1>3 DEF Delete, DownloadsInv, TypeOK, Typed, Avail
  <1>5. ShapeInv'
    <2>1. \A d \in Calls : CallShape(d)'
      BY <1>1 DEF CallNew, CallShape, DownloadsInv, ShapeInv
    <2>2. \A t \in Tasks : TaskShape(t)'
      BY <1>3 DEF TaskShape, DownloadsInv, ShapeInv
    <2>3. DownloadShape'
      BY <1>3 DEF DownloadShape, DownloadsInv, ShapeInv, TypeOK, Delete
    <2> QED
      BY <2>1, <2>2, <2>3 DEF CallShape, TaskShape, DownloadShape, ShapeInv
  <1>6. \A w \in Calls \union Tasks : Waits(w)' <=> Waits(w)
    BY <1>1, <1>2, <1>3, ConstantsAssumption DEF CallNew, Waits
  <1>7. DownloadsInv' /\ QueueMoves("none")
    BY <1>4, <1>5, <1>6, QuietStep DEF Delete
  <1> QED
    BY <1>1, <1>3, <1>7

LEMMA ExportFacts ==
    ASSUME DownloadsInv, presses' \in 0..MaxPresses, NEW c \in Calls, NEW i \in Images,
           Export(c, i)
    PROVE  /\ DownloadsInv' /\ QueueMoves("none") /\ CallNew(c, "export", i, "read")
           /\ calls'[c].seen = "none"
           /\ UNCHANGED tasks
  <1>0. "none" \in Provisioning /\ "export" \in CallOp /\ "read" \in CallPC
    BY DEF Provisioning, CallOp, CallPC
  <1>1. /\ calls' \in [Calls -> Call \union {Idle}] /\ calls'[c].seen = "none"
        /\ CallNew(c, "export", i, "read")
    BY <1>0, BeginFacts DEF Export, DownloadsInv
  <1>2. calls[c].pc = "idle"
    BY <1>1 DEF CallNew, Idle
  <1>3. UNCHANGED <<tasks, downloads, json>>
    BY DEF Export
  <1>4. Typed'
    BY <1>1, <1>3 DEF Export, DownloadsInv, TypeOK, Typed, Avail, Availability
  <1>5. CallShape(c)'
    BY <1>1 DEF CallNew, CallShape
  <1>6. /\ \A w \in (Calls \union Tasks) \ {c} : Waits(w)' <=> Waits(w)
        /\ Waits(c)' <=> "read" = "save"
        /\ ~Waits(c)
        /\ ShapeInv'
    BY <1>1, <1>2, <1>3, <1>5, CallMoves DEF CallNew
  <1>7. DownloadsInv' /\ QueueMoves("none")
    <2>1. \A w \in Calls \union Tasks : Waits(w)' <=> Waits(w)
      BY <1>6
    <2> QED
      BY <1>3, <1>4, <1>6, <2>1, QuietStep DEF Export
  <1> QED
    BY <1>1, <1>3, <1>7

LEMMA ImportFacts ==
    ASSUME DownloadsInv, presses' \in 0..MaxPresses, NEW c \in Calls, NEW i \in Images,
           Import(c, i)
    PROVE  /\ DownloadsInv' /\ QueueMoves("none") /\ CallNew(c, "import", i, "copy")
           /\ calls'[c].seen = "none"
           /\ UNCHANGED tasks
  <1>0. "none" \in Provisioning /\ "import" \in CallOp /\ "copy" \in CallPC
    BY DEF Provisioning, CallOp, CallPC
  <1>1. /\ calls' \in [Calls -> Call \union {Idle}] /\ calls'[c].seen = "none"
        /\ CallNew(c, "import", i, "copy")
    BY <1>0, BeginFacts DEF Import, DownloadsInv
  <1>2. calls[c].pc = "idle"
    BY <1>1 DEF CallNew, Idle
  <1>3. UNCHANGED <<tasks, downloads, json>>
    BY DEF Import
  <1>4. Typed'
    BY <1>1, <1>3 DEF Import, DownloadsInv, TypeOK, Typed, Avail, Availability
  <1>5. CallShape(c)'
    BY <1>1 DEF CallNew, CallShape
  <1>6. /\ \A w \in (Calls \union Tasks) \ {c} : Waits(w)' <=> Waits(w)
        /\ Waits(c)' <=> "copy" = "save"
        /\ ~Waits(c)
        /\ ShapeInv'
    BY <1>1, <1>2, <1>3, <1>5, CallMoves DEF CallNew
  <1>7. DownloadsInv' /\ QueueMoves("none")
    <2>1. \A w \in Calls \union Tasks : Waits(w)' <=> Waits(w)
      BY <1>6
    <2> QED
      BY <1>3, <1>4, <1>6, <2>1, QuietStep DEF Import
  <1> QED
    BY <1>1, <1>3, <1>7

LEMMA ReferFacts ==
    ASSUME DownloadsInv, presses' \in 0..MaxPresses, NEW c \in Calls, NEW i \in Images,
           addOCIReference(c, i)
    PROVE  /\ DownloadsInv' /\ QueueMoves("none") /\ CallNew(c, "refer", i, "save")
           /\ calls'[c].seen = "none"
           /\ UNCHANGED tasks
  <1>0. "none" \in Provisioning /\ "refer" \in CallOp /\ "save" \in CallPC
    BY DEF Provisioning, CallOp, CallPC
  <1>1. /\ calls' \in [Calls -> Call \union {Idle}] /\ calls'[c].seen = "none"
        /\ CallNew(c, "refer", i, "save")
    BY <1>0, BeginFacts DEF addOCIReference, DownloadsInv
  <1>2. calls[c].pc = "idle"
    BY <1>1 DEF CallNew, Idle
  <1>3. UNCHANGED <<tasks, downloads, json>>
    BY DEF addOCIReference
  <1>4. Typed'
    BY <1>1, <1>3 DEF addOCIReference, DownloadsInv, TypeOK, Typed, Avail, Availability
  <1>5. CallShape(c)'
    BY <1>1 DEF CallNew, CallShape
  <1>6. /\ \A w \in (Calls \union Tasks) \ {c} : Waits(w)' <=> Waits(w)
        /\ Waits(c)' <=> "save" = "save"
        /\ ~Waits(c)
        /\ ShapeInv'
    BY <1>1, <1>2, <1>3, <1>5, CallMoves DEF CallNew
  <1>7. DownloadsInv' /\ QueueMoves("none")
    <2>1. Persist(c)
      BY DEF addOCIReference
    <2> QED
      BY <1>3, <1>4, <1>6, <2>1, JoinStep
  <1> QED
    BY <1>1, <1>3, <1>7

(* A call goes on, or ends, without a save. *)
LEMMA CallStepQuiet ==
    ASSUME DownloadsInv, NEW c \in Calls, calls[c].pc # "save", calls'[c].pc # "save",
           \A d \in Calls \ {c} : calls'[d] = calls[d], CallShape(c)',
           UNCHANGED <<tasks, downloads, json, saves>>, Typed'
    PROVE  DownloadsInv' /\ QueueMoves("none")
  <1>1. /\ \A w \in (Calls \union Tasks) \ {c} : Waits(w)' <=> Waits(w)
        /\ ~Waits(c)' /\ ~Waits(c) /\ ShapeInv'
    BY CallMoves
  <1>2. \A w \in Calls \union Tasks : Waits(w)' <=> Waits(w)
    BY <1>1
  <1> QED
    BY <1>1, <1>2, QuietStep

(* A call asks for a save. *)
LEMMA CallStepJoins ==
    ASSUME DownloadsInv, NEW c \in Calls, calls[c].pc # "save", calls'[c].pc = "save",
           \A d \in Calls \ {c} : calls'[d] = calls[d], CallShape(c)',
           UNCHANGED <<tasks, downloads, json>>, Persist(c), Typed'
    PROVE  DownloadsInv' /\ QueueMoves("none")
  <1>1. /\ \A w \in (Calls \union Tasks) \ {c} : Waits(w)' <=> Waits(w)
        /\ Waits(c)' /\ ~Waits(c) /\ ShapeInv'
    BY CallMoves
  <1> QED
    BY <1>1, JoinStep

(* A button that has files made, or looks for them, and one that saves what it
   does with the machine. *)
MakeButton(c, i) == CreateMachine(c, i) \/ CloneMachine(c, i) \/ Start(c, i)
DropButton(c, i) == DeleteMachine(c, i) \/ Eject(c, i)

LEMMA MakeFacts ==
    ASSUME DownloadsInv, presses' \in 0..MaxPresses, NEW c \in Calls, NEW i \in Images,
           MakeButton(c, i)
    PROVE  /\ DownloadsInv' /\ QueueMoves("none")
           /\ \E op \in {"create", "clone", "start"} : CallNew(c, op, i, "make")
           /\ UNCHANGED <<images, vm, art, downloads, tasks, fate, excused>>
           /\ Listed(i) \/ vm[i] # "none"
  <1>1. UNCHANGED <<images, vm, art, json, saves, downloads, tasks, fate, excused>>
    BY DEF MakeButton, CreateMachine, CloneMachine, Start
  <1>2. PICK op \in {"create", "clone", "start"}, seen \in Provisioning \ {"none"} :
           Begin(c, op, i, "make", seen)
    <2>1. images[i] \in Availability \union {"none"} /\ vm[i] \in Provisioning
      BY DEF DownloadsInv, TypeOK
    <2>2. ASSUME CreateMachine(c, i)
          PROVE  \E seen \in Provisioning \ {"none"} : Begin(c, "create", i, "make", seen)
      <3>1. CASE Begin(c, "create", i, "make", images[i])
        BY <2>1, <2>2, <3>1 DEF CreateMachine, Listed, Provisioning
      <3>2. CASE Begin(c, "create", i, "make", "ready")
        BY <3>2 DEF Provisioning
      <3> QED
        BY <2>2, <3>1, <3>2 DEF CreateMachine
    <2>3. ASSUME CloneMachine(c, i)
          PROVE  \E seen \in Provisioning \ {"none"} : Begin(c, "clone", i, "make", seen)
      BY <2>1, <2>3 DEF CloneMachine
    <2>4. ASSUME Start(c, i)
          PROVE  \E seen \in Provisioning \ {"none"} : Begin(c, "start", i, "make", seen)
      BY <2>1, <2>4 DEF Start
    <2> QED
      BY <2>2, <2>3, <2>4 DEF MakeButton
  <1>3. op \in CallOp /\ "make" \in CallPC
    BY DEF CallOp, CallPC
  <1>4. /\ calls' \in [Calls -> Call \union {Idle}] /\ calls'[c].seen = seen
        /\ CallNew(c, op, i, "make")
    BY <1>2, <1>3, BeginFacts DEF DownloadsInv
  <1>5. calls[c].pc = "idle" /\ calls'[c].pc = "make"
    BY <1>4 DEF CallNew, Idle
  <1>6. Typed'
    BY <1>1, <1>4 DEF DownloadsInv, TypeOK, Typed, Avail
  <1>7. CallShape(c)'
    BY <1>2, <1>4 DEF CallNew, CallShape
  <1>8. DownloadsInv' /\ QueueMoves("none")
    BY <1>1, <1>4, <1>5, <1>6, <1>7, CallStepQuiet DEF CallNew
  <1>9. Listed(i) \/ vm[i] # "none"
    BY DEF MakeButton, CreateMachine, CloneMachine, Start
  <1> QED
    BY <1>1, <1>4, <1>8, <1>9

LEMMA DropFacts ==
    ASSUME DownloadsInv, presses' \in 0..MaxPresses, NEW c \in Calls, NEW i \in Images,
           DropButton(c, i)
    PROVE  /\ DownloadsInv' /\ QueueMoves("none")
           /\ \E op \in {"discard", "eject"} : CallNew(c, op, i, "save")
           /\ UNCHANGED <<images, art, downloads, tasks, fate, excused>>
           /\ vm[i] # "none" /\ vm'[i] \in {"none", "ready"}
           /\ \A k \in Images \ {i} : vm'[k] = vm[k]
  <1>1. /\ UNCHANGED <<images, art, json, downloads, tasks, fate, excused>>
        /\ Persist(c) /\ vm[i] # "none"
    BY DEF DropButton, DeleteMachine, Eject
  <1>2. PICK op \in {"discard", "eject"}, v \in {"none", "ready"} :
           Begin(c, op, i, "save", "none") /\ vm' = [vm EXCEPT ![i] = v]
    BY DEF DropButton, DeleteMachine, Eject
  <1>3. op \in CallOp /\ "save" \in CallPC /\ "none" \in Provisioning
    BY DEF CallOp, CallPC, Provisioning
  <1>4. calls' \in [Calls -> Call \union {Idle}] /\ CallNew(c, op, i, "save")
    BY <1>2, <1>3, BeginFacts DEF DownloadsInv
  <1>5. calls[c].pc = "idle" /\ calls'[c].pc = "save"
    BY <1>4 DEF CallNew, Idle
  <1>6. vm' \in [Images -> Provisioning] /\ vm'[i] = v /\ \A k \in Images \ {i} : vm'[k] = vm[k]
    BY <1>2 DEF DownloadsInv, TypeOK, Provisioning
  <1>7. Typed'
    BY <1>1, <1>4, <1>6 DEF DownloadsInv, TypeOK, Typed, Avail
  <1>8. CallShape(c)'
    BY <1>4 DEF CallNew, CallShape
  <1>9. DownloadsInv' /\ QueueMoves("none")
    BY <1>1, <1>4, <1>5, <1>7, <1>8, CallStepJoins DEF CallNew
  <1> QED
    BY <1>1, <1>4, <1>6, <1>9

LEMMA DownloadFacts ==
    ASSUME DownloadsInv, presses' \in 0..MaxPresses, NEW t \in Tasks, NEW i \in Images,
           Download(t, i)
    PROVE  /\ DownloadsInv' /\ QueueMoves("none") /\ UNCHANGED calls
           /\ TaskNew(t, i) /\ tasks'[t].pc = "created" /\ tasks'[t].image = i
  <1>1. /\ tasks' \in [Tasks -> Task \union {NoTask}] /\ TaskNew(t, i)
        /\ tasks'[t].pc = "created" /\ tasks'[t].image = i /\ tasks'[t].pending = <<>>
        /\ downloads' \in [Images -> Tasks \union {"none"}]
    BY NewTaskFacts DEF Download, DownloadsInv
  <1>2. tasks[t].pc = "ended" /\ tasks[t].image = "none"
    BY <1>1 DEF TaskNew, NoTask
  <1>3. Typed'
    BY <1>1 DEF Download, DownloadsInv, TypeOK, Typed, Avail, Availability, Transfer
  <1>4. TaskShape(t)'
    BY <1>1 DEF TaskShape
  <1>5. DownloadShape'
    BY <1>1, <1>2, NewDownload DEF DownloadsInv
  <1>6. /\ \A w \in (Calls \union Tasks) \ {t} : Waits(w)' <=> Waits(w)
        /\ ~Waits(t)' /\ ~Waits(t) /\ ShapeInv' /\ UNCHANGED calls
    BY <1>1, <1>2, <1>4, <1>5, TaskMoves DEF Download, TaskNew
  <1>7. \A w \in Calls \union Tasks : Waits(w)' <=> Waits(w)
    BY <1>6
  <1> QED
    BY <1>1, <1>3, <1>6, <1>7, QuietStep DEF Download

LEMMA CancelStepFacts ==
    ASSUME DownloadsInv, presses' \in 0..MaxPresses, NEW i \in Images, Cancel(i)
    PROVE  /\ DownloadsInv' /\ QueueMoves("none") /\ UNCHANGED calls
           /\ \A t \in Tasks :
                 /\ tasks'[t].image = tasks[t].image /\ tasks'[t].pc = tasks[t].pc
                 /\ tasks'[t].result = tasks[t].result
  <1>1. /\ tasks' \in [Tasks -> Task \union {NoTask}]
        /\ \A t \in Tasks :
              /\ tasks'[t].image = tasks[t].image
              /\ tasks'[t].pc = tasks[t].pc
              /\ tasks'[t].result = tasks[t].result
              /\ tasks'[t].pending = tasks[t].pending
    BY CancelFacts DEF Cancel, DownloadsInv
  <1>2. Typed'
    BY <1>1 DEF Cancel, DownloadsInv, TypeOK, Typed, Avail
  <1>3. ShapeInv'
    <2>1. \A d \in Calls : CallShape(d)'
      BY DEF CallShape, DownloadsInv, ShapeInv, Cancel
    <2>2. \A t \in Tasks : TaskShape(t)'
      BY <1>1 DEF TaskShape, DownloadsInv, ShapeInv
    <2>3. DownloadShape'
      BY <1>1 DEF DownloadShape, DownloadsInv, ShapeInv, TypeOK, Cancel
    <2> QED
      BY <2>1, <2>2, <2>3 DEF CallShape, TaskShape, DownloadShape, ShapeInv
  <1>4. \A w \in Calls \union Tasks : Waits(w)' <=> Waits(w)
    BY <1>1 DEF Cancel, Waits
  <1> QED
    BY <1>1, <1>2, <1>3, <1>4, QuietStep DEF Cancel

(* A task goes on, or ends, without a save. *)
LEMMA TaskStepQuiet ==
    ASSUME DownloadsInv, NEW t \in Tasks, tasks[t].pc \notin {"first", "last", "failed"},
           tasks'[t].pc \notin {"first", "last", "failed"},
           tasks'[t].image = tasks[t].image, TaskShape(t)',
           \A u \in Tasks \ {t} : tasks'[u] = tasks[u],
           UNCHANGED <<calls, downloads, json, saves>>, Typed'
    PROVE  DownloadsInv' /\ QueueMoves("none")
  <1>1. /\ \A w \in (Calls \union Tasks) \ {t} : Waits(w)' <=> Waits(w)
        /\ ~Waits(t)' /\ ~Waits(t) /\ ShapeInv'
    BY TaskMoves
  <1>2. \A w \in Calls \union Tasks : Waits(w)' <=> Waits(w)
    BY <1>1
  <1> QED
    BY <1>1, <1>2, QuietStep

LEMMA TaskStepJoins ==
    ASSUME DownloadsInv, NEW t \in Tasks, tasks[t].pc \notin {"first", "last", "failed"},
           tasks'[t].pc \in {"first", "last", "failed"},
           tasks'[t].image = tasks[t].image, TaskShape(t)',
           \A u \in Tasks \ {t} : tasks'[u] = tasks[u],
           UNCHANGED <<calls, downloads, json>>, Persist(t), Typed'
    PROVE  DownloadsInv' /\ QueueMoves("none")
  <1>1. /\ \A w \in (Calls \union Tasks) \ {t} : Waits(w)' <=> Waits(w)
        /\ Waits(t)' /\ ~Waits(t) /\ ShapeInv'
    BY TaskMoves
  <1> QED
    BY <1>1, JoinStep

(* updateImage and updateMachinesForImage keep the lists what they are. *)
LEMMA UpdateTyped ==
    ASSUME TypeOK, NEW i \in Images, NEW a \in Availability, Update(i, a)
    PROVE  images' \in [Images -> Avail] /\ vm' \in [Images -> Provisioning]
  BY DEF TypeOK, Update, updateImage, updateMachinesForImage, Avail, Provisioning

LEMMA StoreCopiesFacts ==
    ASSUME DownloadsInv, presses' \in 0..MaxPresses, NEW c \in Calls, StoreCopies(c)
    PROVE  /\ DownloadsInv' /\ QueueMoves("none") /\ UNCHANGED tasks
           /\ calls[c] \in Call /\ calls[c].op = "import"
           /\ \/ CallAt(c, "copied") /\ art' = [art EXCEPT ![calls[c].image] = {"iso"}]
              \/ CallAt(c, "undo") /\ UNCHANGED art
  <1>1. calls[c].pc = "copy" /\ calls[c].op = "import" /\ calls[c] \in Call
        /\ calls[c].image \in Images
    BY CallFields DEF StoreCopies, DownloadsInv, ShapeInv
  <1>2. /\ calls' \in [Calls -> Call \union {Idle}]
        /\ \/ CallAt(c, "copied") /\ art' = [art EXCEPT ![calls[c].image] = {"iso"}]
           \/ CallAt(c, "undo") /\ UNCHANGED art
    BY <1>1, GotoFacts DEF StoreCopies, DownloadsInv, CallPC
  <1>3. Typed'
    BY <1>1, <1>2 DEF StoreCopies, DownloadsInv, TypeOK, Typed, Avail
  <1>4. CallShape(c)' /\ calls'[c].pc # "save"
    BY <1>1, <1>2 DEF CallAt, CallShape
  <1>5. \A d \in Calls \ {c} : calls'[d] = calls[d]
    BY <1>2 DEF CallAt
  <1> QED
    BY <1>1, <1>2, <1>3, <1>4, <1>5, CallStepQuiet DEF StoreCopies

LEMMA StoreRemovesFacts ==
    ASSUME DownloadsInv, presses' \in 0..MaxPresses, NEW c \in Calls, StoreRemoves(c)
    PROVE  /\ DownloadsInv' /\ QueueMoves("none") /\ UNCHANGED tasks
           /\ calls[c] \in Call /\ calls[c].image \in Images
           /\ calls[c].op \in {"import", "retry", "delete"}
           /\ calls[c].op = "import" => calls[c].pc = "undo"
           /\ CallOver(c) \/ (CallAt(c, "removed") /\ calls[c].op # "import")
  <1>1. calls[c].pc \in {"remove", "undo"} /\ calls[c] \in Call /\ calls[c].image \in Images
    BY CallFields DEF StoreRemoves, DownloadsInv
  <1>2. /\ calls[c].pc = "undo" => calls[c].op = "import"
        /\ calls[c].pc = "remove" => calls[c].op \in {"retry", "delete"}
        /\ calls[c].op = "import" => calls[c].pc = "undo"
    BY <1>1 DEF DownloadsInv, ShapeInv
  <1>3. End(c) \/ (Goto(c, "removed") /\ calls[c].op \in {"retry", "delete"})
    BY <1>1, <1>2 DEF StoreRemoves
  <1>4. /\ calls' \in [Calls -> Call \union {Idle}]
        /\ CallOver(c) \/ (CallAt(c, "removed") /\ calls[c].op \in {"retry", "delete"})
    BY <1>1, <1>3, EndFacts, GotoFacts DEF DownloadsInv, CallPC
  <1>5. Typed'
    BY <1>1, <1>4 DEF StoreRemoves, DownloadsInv, TypeOK, Typed, Avail
  <1>6. CallShape(c)' /\ calls'[c].pc # "save"
    BY <1>4 DEF CallAt, CallOver, CallShape, Idle
  <1>7. \A d \in Calls \ {c} : calls'[d] = calls[d]
    BY <1>4 DEF CallAt, CallOver
  <1>8. DownloadsInv' /\ QueueMoves("none")
    BY <1>1, <1>5, <1>6, <1>7, CallStepQuiet DEF StoreRemoves
  <1> QED
    BY <1>1, <1>2, <1>4, <1>8 DEF StoreRemoves

LEMMA ExportedFacts ==
    ASSUME DownloadsInv, presses' \in 0..MaxPresses, NEW c \in Calls, Exported(c)
    PROVE  DownloadsInv' /\ QueueMoves("none") /\ UNCHANGED tasks /\ CallOver(c)
  <1>1. calls' \in [Calls -> Call \union {Idle}] /\ CallOver(c)
    BY EndFacts DEF Exported, DownloadsInv
  <1>2. Typed'
    BY <1>1 DEF Exported, DownloadsInv, TypeOK, Typed, Avail
  <1>3. CallShape(c)' /\ calls'[c].pc # "save"
    BY <1>1 DEF CallOver, CallShape, Idle
  <1>4. \A d \in Calls \ {c} : calls'[d] = calls[d]
    BY <1>1 DEF CallOver
  <1> QED
    BY <1>1, <1>2, <1>3, <1>4, CallStepQuiet DEF Exported

LEMMA ImportedFacts ==
    ASSUME DownloadsInv, presses' \in 0..MaxPresses, NEW c \in Calls, Imported(c)
    PROVE  /\ DownloadsInv' /\ QueueMoves("none") /\ UNCHANGED tasks
           /\ calls[c] \in Call /\ calls[c].image \in Images /\ calls[c].op = "import"
           /\ \/ CallAt(c, "save") /\ images' = [images EXCEPT ![calls[c].image] = "available"]
              \/ CallAt(c, "undo") /\ UNCHANGED images
  <1>1. calls[c].pc = "copied" /\ calls[c] \in Call /\ calls[c].image \in Images
        /\ calls[c].op = "import"
    BY CallFields DEF Imported, DownloadsInv, ShapeInv
  <1>2. CASE images' = [images EXCEPT ![calls[c].image] = "available"] /\ Persist(c)
             /\ Goto(c, "save")
    <2>1. calls' \in [Calls -> Call \union {Idle}] /\ CallAt(c, "save")
      BY <1>1, <1>2, GotoFacts DEF DownloadsInv, CallPC
    <2>2. Typed'
      BY <1>1, <1>2, <2>1 DEF Imported, DownloadsInv, TypeOK, Typed, Avail, Availability
    <2>3. CallShape(c)' /\ calls'[c].pc = "save" /\ \A d \in Calls \ {c} : calls'[d] = calls[d]
      BY <1>1, <2>1 DEF CallAt, CallShape
    <2>4. DownloadsInv' /\ QueueMoves("none")
      BY <1>1, <1>2, <2>2, <2>3, CallStepJoins DEF Imported
    <2> QED
      BY <1>1, <1>2, <2>1, <2>4 DEF Imported
  <1>3. CASE Goto(c, "undo") /\ UNCHANGED <<images, saves>>
    <2>1. calls' \in [Calls -> Call \union {Idle}] /\ CallAt(c, "undo")
      BY <1>1, <1>3, GotoFacts DEF DownloadsInv, CallPC
    <2>2. Typed'
      BY <1>1, <1>3, <2>1 DEF Imported, DownloadsInv, TypeOK, Typed, Avail
    <2>3. CallShape(c)' /\ calls'[c].pc # "save" /\ \A d \in Calls \ {c} : calls'[d] = calls[d]
      BY <1>1, <2>1 DEF CallAt, CallShape
    <2>4. DownloadsInv' /\ QueueMoves("none")
      BY <1>1, <1>3, <2>2, <2>3, CallStepQuiet DEF Imported
    <2> QED
      BY <1>1, <1>3, <2>1, <2>4 DEF Imported
  <1> QED
    BY <1>2, <1>3 DEF Imported

LEMMA RemovedFacts ==
    ASSUME DownloadsInv, presses' \in 0..MaxPresses, NEW c \in Calls, Removed(c)
    PROVE  /\ DownloadsInv' /\ QueueMoves("none") /\ UNCHANGED tasks
           /\ calls[c] \in Call /\ calls[c].image \in Images /\ CallAt(c, "save")
           /\ \/ /\ calls[c].op = "delete"
                 /\ images' = [images EXCEPT ![calls[c].image] = "none"] /\ UNCHANGED vm
              \/ calls[c].op = "retry" /\ Update(calls[c].image, "downloading")
  <1>1. calls[c].pc = "removed" /\ calls[c] \in Call /\ calls[c].image \in Images
        /\ calls[c].op \in {"delete", "retry"}
    BY CallFields DEF Removed, DownloadsInv, ShapeInv
  <1>2. \/ /\ calls[c].op = "delete"
           /\ images' = [images EXCEPT ![calls[c].image] = "none"] /\ UNCHANGED vm
        \/ calls[c].op = "retry" /\ Update(calls[c].image, "downloading")
    BY <1>1 DEF Removed
  <1>3. images' \in [Images -> Avail] /\ vm' \in [Images -> Provisioning]
    BY <1>1, <1>2, UpdateTyped DEF DownloadsInv, TypeOK, Avail, Availability, Transfer
  <1>4. calls' \in [Calls -> Call \union {Idle}] /\ CallAt(c, "save")
    BY <1>1, GotoFacts DEF DownloadsInv, CallPC, Removed
  <1>5. Typed'
    BY <1>3, <1>4 DEF Removed, DownloadsInv, TypeOK, Typed
  <1>6. CallShape(c)' /\ calls'[c].pc = "save" /\ \A d \in Calls \ {c} : calls'[d] = calls[d]
    BY <1>1, <1>4 DEF CallAt, CallShape
  <1>7. DownloadsInv' /\ QueueMoves("none")
    BY <1>1, <1>5, <1>6, CallStepJoins DEF Removed
  <1> QED
    BY <1>1, <1>2, <1>4, <1>7 DEF Removed

LEMMA MachineMadeFacts ==
    ASSUME DownloadsInv, presses' \in 0..MaxPresses, NEW c \in Calls, MachineMade(c)
    PROVE  /\ DownloadsInv' /\ QueueMoves("none") /\ UNCHANGED tasks
           /\ calls[c] \in Call /\ calls[c].image \in Images
           /\ calls[c].op \in {"create", "clone"} /\ calls[c].pc = "make"
           /\ \/ CallAt(c, "save") /\ vm' = [vm EXCEPT ![calls[c].image] = calls[c].seen]
                 /\ excused' = IF Fits(calls[c].seen, images[calls[c].image]) THEN excused
                               ELSE excused \union {calls[c].image}
              \/ (CallAt(c, "save") \/ CallOver(c)) /\ UNCHANGED <<vm, excused>>
  <1> DEFINE i == calls[c].image
  <1>1. /\ calls[c].pc = "make" /\ calls[c] \in Call /\ i \in Images
        /\ calls[c].op \in {"create", "clone"} /\ calls[c].seen \in Provisioning
    <2>1. calls[c].pc = "make" /\ calls[c].op # "start" /\ calls[c] \in Call /\ i \in Images
      BY CallFields DEF MachineMade, DownloadsInv
    <2>2. calls[c].op \in {"create", "clone", "start"}
      BY <2>1 DEF DownloadsInv, ShapeInv
    <2> QED
      BY <2>1, <2>2 DEF Call
  <1>2. UNCHANGED <<images, art, json, downloads, tasks, fate>>
    BY DEF MachineMade
  <1>3. /\ vm' = [vm EXCEPT ![i] = calls[c].seen] \/ UNCHANGED vm
        /\ excused' \in {excused, excused \union {i}}
    BY DEF MachineMade
  <1> HIDE DEF i
  <1>4. vm' \in [Images -> Provisioning] /\ excused' \in SUBSET Images
    BY <1>1, <1>3 DEF DownloadsInv, TypeOK
  <1>5. ASSUME Persist(c), Goto(c, "save")
        PROVE  DownloadsInv' /\ QueueMoves("none") /\ CallAt(c, "save")
    <2>1. calls' \in [Calls -> Call \union {Idle}] /\ CallAt(c, "save")
      BY <1>1, <1>5, GotoFacts DEF DownloadsInv, CallPC
    <2>2. Typed'
      BY <1>2, <1>4, <2>1 DEF DownloadsInv, TypeOK, Typed, Avail
    <2>3. CallShape(c)' /\ calls'[c].pc = "save" /\ \A d \in Calls \ {c} : calls'[d] = calls[d]
      BY <1>1, <2>1 DEF CallAt, CallShape
    <2> QED
      BY <1>1, <1>2, <1>5, <2>1, <2>2, <2>3, CallStepJoins
  <1>6. ASSUME End(c), UNCHANGED saves
        PROVE  DownloadsInv' /\ QueueMoves("none") /\ CallOver(c)
    <2>1. calls' \in [Calls -> Call \union {Idle}] /\ CallOver(c)
      BY <1>6, EndFacts DEF DownloadsInv
    <2>2. Typed'
      BY <1>2, <1>4, <2>1 DEF DownloadsInv, TypeOK, Typed, Avail
    <2>3. CallShape(c)' /\ calls'[c].pc # "save" /\ \A d \in Calls \ {c} : calls'[d] = calls[d]
      BY <2>1 DEF CallOver, CallShape, Idle
    <2> QED
      BY <1>1, <1>2, <1>6, <2>1, <2>2, <2>3, CallStepQuiet
  <1>7. \/ /\ Persist(c) /\ Goto(c, "save")
           /\ \/ UNCHANGED <<vm, excused>>
              \/ /\ vm' = [vm EXCEPT ![i] = calls[c].seen]
                 /\ excused' = IF Fits(calls[c].seen, images[i]) THEN excused
                               ELSE excused \union {i}
        \/ End(c) /\ UNCHANGED <<images, vm, saves, excused>>
    BY DEF MachineMade, i
  <1> QED
    BY <1>1, <1>2, <1>5, <1>6, <1>7 DEF i

(* start(_:) after its awaits. *)
StartStep(c) == Started(c) \/ RuntimeRecorded(c)

LEMMA StartStepFacts ==
    ASSUME DownloadsInv, presses' \in 0..MaxPresses, NEW c \in Calls, StartStep(c)
    PROVE  /\ DownloadsInv' /\ QueueMoves("none")
           /\ UNCHANGED <<images, art, downloads, tasks, fate, excused>>
           /\ calls[c].image \in Images /\ calls[c].op = "start"
           /\ calls[c].pc \in {"make", "ran"}
           /\ CallOver(c) \/ CallAt(c, "ran") \/ CallAt(c, "save")
           /\ \/ UNCHANGED vm
              \/ /\ vm' = [vm EXCEPT ![calls[c].image] = "installing"]
                 /\ images[calls[c].image] = "available"
  <1> DEFINE i == calls[c].image
  <1>1. /\ calls[c].pc \in {"make", "ran"} /\ calls[c].op = "start"
        /\ calls[c] \in Call /\ i \in Images
    <2>1. calls[c].pc \in {"make", "ran"}
      BY DEF StartStep, Started, RuntimeRecorded
    <2>2. calls[c].op = "start"
      BY DEF StartStep, Started, RuntimeRecorded, DownloadsInv, ShapeInv
    <2> QED
      BY <2>1, <2>2, CallFields DEF DownloadsInv
  <1>2. /\ UNCHANGED <<images, art, json, downloads, tasks, fate, excused>>
        /\ \/ UNCHANGED vm
           \/ vm' = [vm EXCEPT ![i] = "installing"] /\ images[i] = "available"
    BY DEF StartStep, Started, RuntimeRecorded
  <1>3. \/ End(c) /\ UNCHANGED saves
        \/ Goto(c, "ran") /\ UNCHANGED saves
        \/ Goto(c, "save") /\ Persist(c)
    BY DEF StartStep, Started, RuntimeRecorded
  <1> HIDE DEF i
  <1>4. vm' \in [Images -> Provisioning]
    BY <1>1, <1>2 DEF DownloadsInv, TypeOK, Provisioning
  <1>5. /\ calls' \in [Calls -> Call \union {Idle}]
        /\ \/ CallOver(c) /\ UNCHANGED saves
           \/ CallAt(c, "ran") /\ UNCHANGED saves
           \/ CallAt(c, "save") /\ Persist(c)
    BY <1>1, <1>3, GotoFacts, EndFacts DEF DownloadsInv, CallPC
  <1>6. Typed'
    BY <1>2, <1>4, <1>5 DEF DownloadsInv, TypeOK, Typed, Avail
  <1>7. CallShape(c)' /\ \A d \in Calls \ {c} : calls'[d] = calls[d]
    BY <1>1, <1>5 DEF CallOver, CallAt, CallShape, Idle
  <1>8. DownloadsInv' /\ QueueMoves("none")
    <2>1. CASE CallAt(c, "save") /\ Persist(c)
      BY <1>1, <1>2, <1>6, <1>7, <2>1, CallStepJoins DEF CallAt
    <2>2. CASE (CallOver(c) \/ CallAt(c, "ran")) /\ UNCHANGED saves
      BY <1>1, <1>2, <1>6, <1>7, <2>2, CallStepQuiet DEF CallOver, CallAt, Idle
    <2> QED
      BY <1>5, <2>1, <2>2
  <1> QED
    BY <1>1, <1>2, <1>5, <1>8 DEF i

(* The steps of a transfer, of the store for a task and of the checksum move
   the task and its files. *)
TransferStep(t) ==
    \/ StorePlaces(t) \/ StoreUndoes(t) \/ didWriteData(t) \/ Received(t)
    \/ Checked(t) \/ didCompleteWithError(t)

LEMMA TransferFacts ==
    ASSUME DownloadsInv, presses' \in 0..MaxPresses, NEW t \in Tasks, TransferStep(t)
    PROVE  /\ DownloadsInv' /\ QueueMoves("none")
           /\ UNCHANGED <<images, vm, calls, downloads, fate, excused>>
           /\ tasks[t].pc \in {"place", "undo", "fetch", "check"}
           /\ tasks[t].image \in Images
           /\ TaskAt(t, tasks'[t].pc) /\ tasks'[t].pc \in {"fetch", "check", "back", "undone"}
           /\ \A i \in Images \ {tasks[t].image} : art'[i] = art[i]
           /\ "iso" \in art[tasks[t].image] /\ tasks[t].pc # "undo" =>
                 "iso" \in art'[tasks[t].image]
           /\ tasks'[t].pc = "back" /\ tasks'[t].result = "ok" =>
                 "iso" \in art'[tasks[t].image]
  <1> DEFINE i == tasks[t].image
  <1>1. /\ tasks[t].pc \in {"place", "undo", "fetch", "check"}
        /\ UNCHANGED <<images, vm, json, saves, calls, downloads, fate, excused>>
    BY DEF TransferStep, StorePlaces, StoreUndoes, didWriteData, Received, Checked,
           didCompleteWithError
  <1>2. tasks[t] \in Task /\ i \in Images /\ tasks[t].pending \in Seq(Transfer)
    BY <1>1, TaskFields DEF DownloadsInv
  <1>3. tasks[t].pending # <<>> => tasks[t].pc \in {"fetch", "check", "back"}
    BY DEF DownloadsInv, ShapeInv
  <1> DEFINE Moved == /\ tasks' \in [Tasks -> Task \union {NoTask}]
                      /\ TaskAt(t, tasks'[t].pc)
                      /\ tasks'[t].pc \in {"fetch", "check", "back", "undone"}
                      /\ TaskShape(t)'
                      /\ art' \in [Images -> SUBSET {"partial", "iso"}]
                      /\ \A j \in Images \ {i} : art'[j] = art[j]
                      /\ "iso" \in art[i] /\ tasks[t].pc # "undo" => "iso" \in art'[i]
                      /\ tasks'[t].pc = "back" /\ tasks'[t].result = "ok" => "iso" \in art'[i]
  <1> HIDE DEF i
  <1>4. ASSUME StorePlaces(t)
        PROVE  Moved
    <2>1. tasks[t].pc = "place" /\ UNCHANGED art
      BY <1>4 DEF StorePlaces
    <2>2. CASE Step(t, "fetch")
      <3>1. tasks' \in [Tasks -> Task \union {NoTask}] /\ TaskAt(t, "fetch")
            /\ tasks'[t].pending = tasks[t].pending
        BY <2>1, <2>2, StepFacts DEF DownloadsInv, TaskPC
      <3> QED
        BY <1>2, <2>1, <3>1 DEF TaskAt, TaskShape, DownloadsInv, TypeOK
    <2>3. CASE Finish(t, "error")
      <3>1. tasks' \in [Tasks -> Task \union {NoTask}] /\ TaskAt(t, "back")
            /\ tasks'[t].result = "error"
        BY <2>1, <2>3, FinishFacts DEF DownloadsInv
      <3> QED
        BY <1>2, <2>1, <3>1 DEF TaskAt, TaskShape, DownloadsInv, TypeOK
    <2> QED
      BY <1>4, <2>2, <2>3 DEF StorePlaces, Finish
  <1>5. ASSUME StoreUndoes(t)
        PROVE  Moved
    <2>1. tasks[t].pc = "undo" /\ Step(t, "undone")
      BY <1>5 DEF StoreUndoes
    <2>2. art' = [art EXCEPT ![i] = {}] \/ UNCHANGED art
      BY <1>5 DEF StoreUndoes, i
    <2>3. /\ tasks' \in [Tasks -> Task \union {NoTask}] /\ TaskAt(t, "undone")
          /\ tasks'[t].pending = <<>>
      BY <1>3, <2>1, StepFacts DEF DownloadsInv, TaskPC
    <2> QED
      BY <1>2, <2>1, <2>2, <2>3 DEF TaskAt, TaskShape, DownloadsInv, TypeOK
  <1>6. ASSUME didWriteData(t)
        PROVE  Moved
    <2> DEFINE p == <<"downloading">>
    <2>1. tasks[t].pc = "fetch" /\ tasks' = [tasks EXCEPT ![t].pending = p] /\ UNCHANGED art
      BY <1>6 DEF didWriteData
    <2>2. p \in Seq(Transfer)
      BY DEF Transfer
    <2> HIDE DEF p
    <2>3. tasks'[t] = [tasks[t] EXCEPT !.pending = p]
          /\ \A u \in Tasks \ {t} : tasks'[u] = tasks[u]
      BY <2>1 DEF DownloadsInv, TypeOK
    <2>4. tasks'[t] \in Task /\ tasks'[t].pc = "fetch" /\ tasks'[t].image = tasks[t].image
      BY <1>2, <2>1, <2>2, <2>3 DEF Task
    <2>5. tasks' \in [Tasks -> Task \union {NoTask}]
      BY <2>1, <2>3, <2>4 DEF DownloadsInv, TypeOK
    <2> QED
      BY <1>2, <2>1, <2>3, <2>4, <2>5 DEF TaskAt, TaskShape, DownloadsInv, TypeOK
  <1>7. ASSUME Received(t)
        PROVE  Moved
    <2>1. tasks[t].pc = "fetch"
      BY <1>7 DEF Received
    <2>2. CASE /\ tasks' = [tasks EXCEPT ![t].pc = "check",
                                         ![t].pending = Append(@, "verifying")]
               /\ art' = [art EXCEPT ![i] = @ \union {"partial"}]
      <3> DEFINE p == Append(tasks[t].pending, "verifying")
      <3>1. p \in Seq(Transfer)
        BY <1>2 DEF Transfer
      <3>2. tasks'[t] = [tasks[t] EXCEPT !.pc = "check", !.pending = p]
            /\ \A u \in Tasks \ {t} : tasks'[u] = tasks[u]
        BY <2>2 DEF DownloadsInv, TypeOK
      <3> HIDE DEF p
      <3>3. tasks'[t] \in Task /\ tasks'[t].pc = "check" /\ tasks'[t].image = tasks[t].image
        BY <1>2, <3>1, <3>2 DEF Task, TaskPC
      <3>4. DOMAIN tasks' = Tasks /\ tasks' = [u \in Tasks |-> tasks'[u]]
        BY <2>2 DEF DownloadsInv, TypeOK
      <3>5. tasks' \in [Tasks -> Task \union {NoTask}]
        BY <3>2, <3>3, <3>4 DEF DownloadsInv, TypeOK
      <3>6. /\ art' \in [Images -> SUBSET {"partial", "iso"}]
            /\ \A j \in Images \ {i} : art'[j] = art[j]
            /\ "iso" \in art[i] => "iso" \in art'[i]
        BY <1>2, <2>2 DEF DownloadsInv, TypeOK
      <3> QED
        BY <2>1, <3>2, <3>3, <3>5, <3>6 DEF TaskAt, TaskShape
    <2>3. CASE Finish(t, "error") /\ UNCHANGED art
      <3>1. tasks' \in [Tasks -> Task \union {NoTask}] /\ TaskAt(t, "back")
            /\ tasks'[t].result = "error"
        BY <2>1, <2>3, FinishFacts DEF DownloadsInv
      <3> QED
        BY <1>2, <2>3, <3>1 DEF TaskAt, TaskShape, DownloadsInv, TypeOK
    <2> QED
      BY <1>7, <2>2, <2>3 DEF Received, i
  <1>8. ASSUME Checked(t) \/ didCompleteWithError(t)
        PROVE  Moved
    <2>1. tasks[t].pc \in {"fetch", "check"}
      BY <1>8 DEF Checked, didCompleteWithError
    <2>2. PICK result \in {"ok", "error", "cancelled"} :
              /\ Finish(t, result)
              /\ \/ art' = [art EXCEPT ![i] = {"iso"}]
                 \/ result # "ok" /\ art' = [art EXCEPT ![i] = @ \ {"partial"}]
                 \/ result # "ok" /\ UNCHANGED art
      BY <1>8 DEF Checked, didCompleteWithError, i
    <2>3. tasks' \in [Tasks -> Task \union {NoTask}] /\ TaskAt(t, "back")
          /\ tasks'[t].result = result
      BY <2>1, <2>2, FinishFacts DEF DownloadsInv
    <2>4. /\ art' \in [Images -> SUBSET {"partial", "iso"}]
          /\ \A j \in Images \ {i} : art'[j] = art[j]
          /\ "iso" \in art[i] => "iso" \in art'[i]
          /\ result = "ok" => "iso" \in art'[i]
      BY <1>2, <2>2 DEF DownloadsInv, TypeOK
    <2> QED
      BY <2>1, <2>3, <2>4 DEF TaskAt, TaskShape
  <1>9. Moved
    BY <1>4, <1>5, <1>6, <1>7, <1>8 DEF TransferStep
  <1>10. Typed'
    BY <1>1, <1>9 DEF DownloadsInv, TypeOK, Typed, Avail
  <1>11. DownloadsInv' /\ QueueMoves("none")
    BY <1>1, <1>9, <1>10, TaskStepQuiet DEF TaskAt
  <1> QED
    BY <1>1, <1>2, <1>9, <1>11 DEF i

LEMMA RecordFacts ==
    ASSUME DownloadsInv, presses' \in 0..MaxPresses, NEW t \in Tasks, Record(t)
    PROVE  /\ DownloadsInv' /\ QueueMoves("none")
           /\ UNCHANGED <<art, calls, downloads, fate, excused>>
           /\ tasks[t].pc \in {"fetch", "check", "back"} /\ tasks[t].image \in Images
           /\ TaskAt(t, tasks[t].pc) /\ tasks'[t].result = tasks[t].result
           /\ \E a \in Transfer : Update(tasks[t].image, a)
  <1>1. tasks[t].pc \in {"fetch", "check", "back"} /\ tasks[t].pending # <<>>
    BY DEF Record, DownloadsInv, ShapeInv
  <1>2. tasks[t] \in Task /\ tasks[t].image \in Images /\ tasks[t].pending \in Seq(Transfer)
    BY <1>1, TaskFields DEF DownloadsInv
  <1> DEFINE a == Head(tasks[t].pending)
             p == Tail(tasks[t].pending)
  <1>3. a \in Transfer /\ p \in Seq(Transfer)
    BY <1>1, <1>2
  <1>4. Update(tasks[t].image, a) /\ tasks' = [tasks EXCEPT ![t].pending = p]
    BY DEF Record
  <1> HIDE DEF a, p
  <1>5. tasks'[t] = [tasks[t] EXCEPT !.pending = p] /\ \A u \in Tasks \ {t} : tasks'[u] = tasks[u]
    BY <1>4 DEF DownloadsInv, TypeOK
  <1>6. /\ tasks'[t] \in Task /\ tasks'[t].pc = tasks[t].pc /\ tasks'[t].image = tasks[t].image
        /\ tasks'[t].result = tasks[t].result
    BY <1>2, <1>3, <1>5 DEF Task
  <1>7. tasks' \in [Tasks -> Task \union {NoTask}]
    BY <1>4, <1>5, <1>6 DEF DownloadsInv, TypeOK
  <1>8. images' \in [Images -> Avail] /\ vm' \in [Images -> Provisioning]
    BY <1>2, <1>3, <1>4, UpdateTyped DEF DownloadsInv, Availability
  <1>9. Typed'
    BY <1>7, <1>8 DEF Record, DownloadsInv, TypeOK, Typed
  <1>10. TaskShape(t)'
    BY <1>1, <1>6 DEF TaskShape
  <1>11. DownloadsInv' /\ QueueMoves("none")
    BY <1>1, <1>5, <1>6, <1>9, <1>10, TaskStepQuiet DEF Record
  <1> QED
    BY <1>1, <1>2, <1>3, <1>4, <1>5, <1>6, <1>11 DEF Record, TaskAt

LEMMA TaskRunsFacts ==
    ASSUME DownloadsInv, presses' \in 0..MaxPresses, NEW t \in Tasks, TaskRuns(t)
    PROVE  /\ DownloadsInv' /\ QueueMoves("none")
           /\ UNCHANGED <<images, vm, art, calls, downloads, fate, excused>>
           /\ tasks[t].pc = "created" /\ TaskAt(t, "first")
  <1>1. tasks[t].pc = "created" /\ Step(t, "first") /\ Persist(t)
        /\ UNCHANGED <<images, vm, art, json, calls, downloads, fate, excused>>
    BY DEF TaskRuns
  <1>2. /\ tasks' \in [Tasks -> Task \union {NoTask}] /\ TaskAt(t, "first")
        /\ tasks'[t].pending = <<>>
    BY <1>1, StepFacts DEF DownloadsInv, TaskPC, ShapeInv
  <1>3. Typed'
    BY <1>1, <1>2 DEF DownloadsInv, TypeOK, Typed, Avail
  <1>4. TaskShape(t)'
    BY <1>2 DEF TaskShape
  <1> QED
    BY <1>1, <1>2, <1>3, <1>4, TaskStepJoins DEF TaskAt

(* The steps of a task that show its outcome. *)
LEMMA OutcomeFacts ==
    ASSUME DownloadsInv, presses' \in 0..MaxPresses, NEW t \in Tasks, Resumed(t) \/ Undone(t)
    PROVE  /\ DownloadsInv' /\ QueueMoves("none")
           /\ UNCHANGED <<art, calls, downloads, fate, excused>>
           /\ tasks[t].pc \in {"back", "undone"} /\ tasks[t].image \in Images
           /\ \/ /\ tasks[t].pc = "back" /\ tasks[t].result = "ok"
                 /\ Update(tasks[t].image, "available") /\ TaskAt(t, "last")
              \/ Update(tasks[t].image, "failed") /\ TaskAt(t, "failed")
              \/ UNCHANGED <<images, vm>> /\ TaskAt(t, "undo")
  <1> DEFINE i == tasks[t].image
  <1>1. /\ tasks[t].pc \in {"back", "undone"} /\ tasks[t].pending = <<>>
        /\ UNCHANGED <<art, json, calls, downloads, fate, excused>>
    BY DEF Resumed, Undone, DownloadsInv, ShapeInv
  <1>2. tasks[t] \in Task /\ i \in Images
    BY <1>1, TaskFields DEF DownloadsInv
  <1>3. \/ /\ tasks[t].pc = "back" /\ tasks[t].result = "ok"
           /\ Update(i, "available") /\ Persist(t) /\ Step(t, "last")
        \/ Update(i, "failed") /\ Persist(t) /\ Step(t, "failed")
        \/ UNCHANGED <<images, vm, saves>> /\ Step(t, "undo")
    BY DEF Resumed, Undone, Catch
  <1> HIDE DEF i
  <1>4. CASE UNCHANGED <<images, vm, saves>> /\ Step(t, "undo")
    <2>1. /\ tasks' \in [Tasks -> Task \union {NoTask}] /\ TaskAt(t, "undo")
          /\ tasks'[t].pending = <<>>
      BY <1>1, <1>4, StepFacts DEF DownloadsInv, TaskPC
    <2>2. Typed'
      BY <1>1, <1>4, <2>1 DEF DownloadsInv, TypeOK, Typed, Avail
    <2>3. TaskShape(t)'
      BY <2>1 DEF TaskShape
    <2>4. DownloadsInv' /\ QueueMoves("none")
      BY <1>1, <1>4, <2>1, <2>2, <2>3, TaskStepQuiet DEF TaskAt
    <2> QED
      BY <1>1, <1>2, <1>4, <2>1, <2>4 DEF i
  <1>5. ASSUME NEW a \in {"available", "failed"}, NEW pc \in {"last", "failed"},
               Update(i, a), Persist(t), Step(t, pc)
        PROVE  DownloadsInv' /\ QueueMoves("none") /\ TaskAt(t, pc)
    <2>1. /\ tasks' \in [Tasks -> Task \union {NoTask}] /\ TaskAt(t, pc)
          /\ tasks'[t].pending = <<>>
      BY <1>1, <1>5, StepFacts DEF DownloadsInv, TaskPC
    <2>2. images' \in [Images -> Avail] /\ vm' \in [Images -> Provisioning]
      BY <1>2, <1>5, UpdateTyped DEF DownloadsInv, Availability
    <2>3. Typed'
      BY <1>1, <2>1, <2>2 DEF DownloadsInv, TypeOK, Typed
    <2>4. TaskShape(t)'
      BY <2>1 DEF TaskShape
    <2> QED
      BY <1>1, <1>5, <2>1, <2>3, <2>4, TaskStepJoins DEF TaskAt
  <1>6. CASE ~(UNCHANGED <<images, vm, saves>> /\ Step(t, "undo"))
    <2>1. \/ /\ tasks[t].pc = "back" /\ tasks[t].result = "ok"
             /\ Update(i, "available") /\ Persist(t) /\ Step(t, "last")
          \/ Update(i, "failed") /\ Persist(t) /\ Step(t, "failed")
      BY <1>3, <1>6
    <2> QED
      BY <1>1, <1>2, <1>5, <2>1 DEF i
  <1> QED
    BY <1>4, <1>6

(* What follows a save that was done, or failed. *)
SaveEnds(ok, i) ==
    /\ saves # <<>>
    /\ IF ok THEN json' = Head(saves).list /\ excused' = excused
       ELSE json' = json /\ excused' = excused \union {i}

LEMMA TaskContinuesFacts ==
    ASSUME DownloadsInv, presses' \in 0..MaxPresses, NEW t \in Tasks, t = Asker, NEW ok \in BOOLEAN,
           SaveEnds(ok, tasks[t].image), TaskContinues(t, ok), UNCHANGED <<art, calls, fate>>
    PROVE  /\ DownloadsInv' /\ QueueMoves(t)
           /\ tasks[t].pc \in {"first", "last", "failed"} /\ tasks[t].image \in Images
           /\ \/ UNCHANGED <<images, vm, downloads>> /\ TaskAt(t, "place") /\ tasks[t].pc = "first"
              \/ /\ UNCHANGED <<images, vm>> /\ TaskOver(t)
                 /\ downloads' = [downloads EXCEPT ![tasks[t].image] = "none"]
              \/ ~ok /\ UNCHANGED <<images, vm, downloads>> /\ TaskAt(t, "undo")
              \/ /\ ~ok /\ UNCHANGED downloads
                 /\ Update(tasks[t].image, "failed") /\ TaskAt(t, "failed")
  <1> DEFINE i == tasks[t].image
  <1>1. saves # <<>> /\ 1 \in DOMAIN saves /\ saves[1].by = t /\ Head(saves).list \in Library
    BY TailFacts DEF SaveEnds, DownloadsInv
  <1>2. Waits(t)
    BY <1>1 DEF DownloadsInv, QueueInv
  <1>3. tasks[t].pc \in {"first", "last", "failed"}
    BY <1>2 DEF Waits
  <1>4. tasks[t] \in Task /\ i \in Images /\ tasks[t].pending = <<>>
    BY <1>3, TaskFields DEF DownloadsInv, ShapeInv
  <1>5. json' \in {json, Head(saves).list} /\ excused' \in SUBSET Images
    BY <1>4 DEF SaveEnds, DownloadsInv, TypeOK
  <1>6. \/ /\ tasks[t].pc = "first" /\ Step(t, "place") /\ saves' = Tail(saves)
           /\ UNCHANGED <<images, vm, downloads>>
        \/ TaskEnds(t) /\ saves' = Tail(saves) /\ UNCHANGED <<images, vm>>
        \/ /\ ~ok /\ Step(t, "undo") /\ saves' = Tail(saves)
           /\ UNCHANGED <<images, vm, downloads>>
        \/ /\ ~ok /\ Update(i, "failed") /\ saves' = Append(Tail(saves), Save(t))
           /\ Step(t, "failed") /\ UNCHANGED downloads
    BY <1>3 DEF TaskContinues
  <1> HIDE DEF i
  <1>7. ASSUME NEW pc \in {"place", "undo"}, Step(t, pc), saves' = Tail(saves),
               UNCHANGED <<images, vm, downloads>>
        PROVE  DownloadsInv' /\ QueueMoves(t) /\ TaskAt(t, pc)
    <2>1. /\ tasks' \in [Tasks -> Task \union {NoTask}] /\ TaskAt(t, pc)
          /\ tasks'[t].pending = <<>>
      BY <1>3, <1>4, <1>7, StepFacts DEF DownloadsInv, TaskPC
    <2>2. Typed'
      BY <1>5, <1>7, <2>1 DEF DownloadsInv, TypeOK, Typed, Avail
    <2>3. TaskShape(t)'
      BY <2>1 DEF TaskShape
    <2>4. /\ \A w \in (Calls \union Tasks) \ {t} : Waits(w)' <=> Waits(w)
          /\ ~Waits(t)' /\ ShapeInv'
      BY <1>7, <2>1, <2>3, TaskMoves DEF TaskAt
    <2> QED
      BY <1>1, <1>5, <1>7, <2>1, <2>2, <2>4, LeaveStep
  <1>8. ASSUME TaskEnds(t), saves' = Tail(saves), UNCHANGED <<images, vm>>
        PROVE  /\ DownloadsInv' /\ QueueMoves(t) /\ TaskOver(t)
               /\ downloads' = [downloads EXCEPT ![i] = "none"]
    <2>1. /\ tasks' \in [Tasks -> Task \union {NoTask}] /\ TaskOver(t)
          /\ downloads' = [downloads EXCEPT ![i] = "none"]
      BY <1>8 DEF TaskEnds, TaskOver, DownloadsInv, TypeOK, i
    <2>2. Typed'
      BY <1>5, <1>8, <2>1 DEF DownloadsInv, TypeOK, Typed, Avail
    <2>3. tasks'[t].pc = "ended" /\ TaskShape(t)'
      BY <2>1 DEF TaskShape, TaskOver, NoTask
    <2>4. DownloadShape'
      <3> SUFFICES ASSUME NEW j \in Images, downloads'[j] # "none"
                   PROVE  tasks'[downloads'[j]].image = j
        BY DEF DownloadShape
      <3>1. j # i /\ downloads'[j] = downloads[j]
        BY <1>4, <2>1 DEF DownloadsInv, TypeOK
      <3>2. downloads[j] \in Tasks /\ tasks[downloads[j]].image = j
        BY <3>1 DEF DownloadsInv, TypeOK, ShapeInv
      <3>3. downloads[j] # t
        BY <3>1, <3>2 DEF i
      <3> QED
        BY <2>1, <3>1, <3>2, <3>3 DEF TaskOver
    <2>5. /\ \A w \in (Calls \union Tasks) \ {t} : Waits(w)' <=> Waits(w)
          /\ ~Waits(t)' /\ ShapeInv'
      BY <2>1, <2>3, <2>4, TaskMoves DEF TaskOver
    <2> QED
      BY <1>1, <1>5, <1>8, <2>1, <2>2, <2>5, LeaveStep
  <1>9. ASSUME ~ok, Update(i, "failed"), saves' = Append(Tail(saves), Save(t)),
               Step(t, "failed"), UNCHANGED downloads
        PROVE  DownloadsInv' /\ QueueMoves(t) /\ TaskAt(t, "failed")
    <2>1. /\ tasks' \in [Tasks -> Task \union {NoTask}] /\ TaskAt(t, "failed")
          /\ tasks'[t].pending = <<>>
      BY <1>3, <1>4, <1>9, StepFacts DEF DownloadsInv, TaskPC
    <2>2. images' \in [Images -> Avail] /\ vm' \in [Images -> Provisioning]
      BY <1>4, <1>9, UpdateTyped DEF DownloadsInv, Availability
    <2>3. Typed'
      BY <1>5, <1>9, <2>1, <2>2 DEF DownloadsInv, TypeOK, Typed
    <2>4. TaskShape(t)'
      BY <2>1 DEF TaskShape
    <2>5. /\ \A w \in (Calls \union Tasks) \ {t} : Waits(w)' <=> Waits(w)
          /\ Waits(t)' /\ ShapeInv'
      BY <1>9, <2>1, <2>4, TaskMoves DEF TaskAt
    <2>6. json' = json
      BY <1>9 DEF SaveEnds
    <2> QED
      BY <1>1, <1>9, <2>1, <2>3, <2>5, <2>6, RejoinStep
  <1> QED
    BY <1>3, <1>4, <1>6, <1>7, <1>8, <1>9 DEF i

LEMMA CallContinuesFacts ==
    ASSUME DownloadsInv, presses' \in 0..MaxPresses, NEW c \in Calls, c = Asker, NEW ok \in BOOLEAN,
           SaveEnds(ok, calls[c].image), CallContinues(c, ok), UNCHANGED art,
           fate' \in [Images -> {"new", "listed", "doomed", "gone"}]
    PROVE  /\ DownloadsInv' /\ QueueMoves(c) /\ Ahead(c) = {}
           /\ ok => Lists' \subseteq Since(c)
           /\ calls[c].pc = "save" /\ calls[c].image \in Images
           /\ UNCHANGED images
           /\ vm' = IF calls[c].op = "create" /\ ~ok THEN [vm EXCEPT ![calls[c].image] = "none"]
                    ELSE vm
           /\ \/ CallAt(c, "undo") /\ calls[c].op = "import" /\ ~ok
              \/ CallOver(c)
           /\ \/ /\ calls[c].op = "retry"
                 /\ \E t \in Tasks : /\ TaskNew(t, calls[c].image)
                                     /\ tasks'[t].pc = "created" /\ tasks'[t].image = calls[c].image
              \/ calls[c].op # "retry" /\ UNCHANGED <<downloads, tasks>>
  <1> DEFINE i == calls[c].image
  <1>1. saves # <<>> /\ 1 \in DOMAIN saves /\ saves[1].by = c /\ Head(saves).list \in Library
    BY TailFacts DEF SaveEnds, DownloadsInv
  <1>2. calls[c].pc = "save" /\ c \notin Tasks
    BY <1>1, ConstantsAssumption DEF DownloadsInv, QueueInv, Waits
  <1>3. calls[c] \in Call /\ i \in Images
    BY <1>2, CallFields DEF DownloadsInv
  <1>4. json' \in {json, Head(saves).list} /\ excused' \in SUBSET Images
    BY <1>3 DEF SaveEnds, DownloadsInv, TypeOK
  <1>5. /\ UNCHANGED images
        /\ vm' = IF calls[c].op = "create" /\ ~ok THEN [vm EXCEPT ![i] = "none"] ELSE vm
        /\ saves' = Tail(saves)
        /\ (Goto(c, "undo") /\ calls[c].op = "import" /\ ~ok) \/ End(c)
    BY DEF CallContinues
  <1>6. /\ calls' \in [Calls -> Call \union {Idle}]
        /\ (CallAt(c, "undo") /\ calls[c].op = "import" /\ ~ok) \/ CallOver(c)
    BY <1>2, <1>5, GotoFacts, EndFacts DEF DownloadsInv, CallPC
  <1>7. /\ calls'[c].pc # "save" /\ CallShape(c)'
        /\ \A d \in Calls \ {c} : calls'[d] = calls[d]
    BY <1>6 DEF CallAt, CallOver, CallShape, Idle
  <1>8. vm' \in [Images -> Provisioning]
    BY <1>3, <1>5 DEF DownloadsInv, TypeOK, Provisioning
  <1> HIDE DEF i
  <1>9. ASSUME UNCHANGED <<downloads, tasks>>
        PROVE  /\ DownloadsInv' /\ QueueMoves(c) /\ Ahead(c) = {}
               /\ json' = Head(saves).list => Lists' \subseteq Since(c)
    <2>1. Typed'
      BY <1>4, <1>5, <1>6, <1>8, <1>9 DEF DownloadsInv, TypeOK, Typed, Avail
    <2>2. /\ \A w \in (Calls \union Tasks) \ {c} : Waits(w)' <=> Waits(w)
          /\ ~Waits(c)' /\ ShapeInv'
      BY <1>7, <1>9, CallMoves
    <2> QED
      BY <1>1, <1>4, <1>5, <2>1, <2>2, LeaveStep
  <1>10. ASSUME NEW t \in Tasks, beginDownload(t, i), tasks' = [tasks EXCEPT ![t] = NewTask(i)]
         PROVE  /\ DownloadsInv' /\ QueueMoves(c) /\ Ahead(c) = {}
                /\ json' = Head(saves).list => Lists' \subseteq Since(c)
                /\ TaskNew(t, i) /\ tasks'[t].pc = "created" /\ tasks'[t].image = i
    <2>1. /\ tasks' \in [Tasks -> Task \union {NoTask}] /\ TaskNew(t, i)
          /\ tasks'[t].pc = "created" /\ tasks'[t].image = i /\ tasks'[t].pending = <<>>
          /\ downloads' \in [Images -> Tasks \union {"none"}]
      BY <1>3, <1>10, NewTaskFacts DEF DownloadsInv, i
    <2>2. tasks[t].pc = "ended" /\ \A u \in Tasks \ {t} : tasks'[u] = tasks[u]
      BY <2>1 DEF TaskNew, NoTask
    <2>3. Typed'
      BY <1>4, <1>5, <1>6, <1>8, <2>1 DEF DownloadsInv, TypeOK, Typed, Avail
    <2>4. ShapeInv'
      <3>1. \A d \in Calls : CallShape(d)'
        BY <1>7 DEF CallShape, DownloadsInv, ShapeInv
      <3>2. \A u \in Tasks : TaskShape(u)'
        BY <2>1, <2>2 DEF TaskShape, DownloadsInv, ShapeInv
      <3>3. DownloadShape'
        BY <1>3, <2>1, NewDownload DEF DownloadsInv, i
      <3> QED
        BY <3>1, <3>2, <3>3 DEF CallShape, TaskShape, DownloadShape, ShapeInv
    <2>5. \A w \in (Calls \union Tasks) \ {c} : Waits(w)' <=> Waits(w)
      BY <1>7, <2>1, <2>2 DEF Waits
    <2>6. ~Waits(c)'
      BY <1>2, <1>7 DEF Waits
    <2> QED
      BY <1>1, <1>4, <1>5, <2>1, <2>3, <2>4, <2>5, <2>6, LeaveStep
  <1>11. ok => json' = Head(saves).list
    BY DEF SaveEnds
  <1>12. \/ calls[c].op # "retry" /\ UNCHANGED <<downloads, tasks>>
         \/ /\ calls[c].op = "retry"
            /\ \E t \in Tasks : beginDownload(t, i) /\ tasks' = [tasks EXCEPT ![t] = NewTask(i)]
    BY DEF CallContinues, i
  <1> QED
    BY <1>2, <1>3, <1>5, <1>6, <1>9, <1>10, <1>11, <1>12 DEF i

LEMMA RelaunchFacts ==
    ASSUME DownloadsInv, Relaunch
    PROVE  /\ DownloadsInv' /\ Lists' \subseteq Lists \union {Snapshot}
           /\ \A t \in Tasks : tasks'[t] = NoTask
           /\ \A c \in Calls : calls'[c] = Idle
           /\ json \in Library
  <1>1. json \in Library /\ json.images \in [Images -> Avail] /\ json.vm \in [Images -> Provisioning]
    BY DEF DownloadsInv, TypeOK, Library, Avail
  <1>2. images' \in [Images -> Avail] /\ vm' \in [Images -> Provisioning]
    BY <1>1 DEF Relaunch, Avail, Availability, Provisioning
  <1>3. (\A t \in Tasks : tasks'[t] = NoTask) /\ \A c \in Calls : calls'[c] = Idle
    BY DEF Relaunch
  <1>4. Typed'
    <2>1. art' \in [Images -> SUBSET {"partial", "iso"}]
      BY DEF Relaunch, DownloadsInv, TypeOK
    <2> QED
      BY <1>2, <2>1 DEF Relaunch, DownloadsInv, TypeOK, Typed
  <1>5. Snapshot \in Library
    BY <1>2, SnapshotFacts
  <1>6. \A w \in Calls \union Tasks : ~Waits(w)'
    BY <1>3, ConstantsAssumption DEF Waits, Idle, NoTask
  <1>7. QueueInv' /\ saves' \in Seq(Job) /\ Lists' \subseteq Lists \union {Snapshot}
    BY <1>6, ClearQueue DEF Relaunch, DownloadsInv
  <1>8. ShapeInv'
    <2>1. \A d \in Calls : CallShape(d)'
      BY <1>3 DEF CallShape, Idle
    <2>2. \A u \in Tasks : TaskShape(u)'
      BY <1>3 DEF TaskShape, NoTask
    <2>3. DownloadShape'
      BY DEF DownloadShape, Relaunch
    <2> QED
      BY <2>1, <2>2, <2>3 DEF CallShape, TaskShape, DownloadShape, ShapeInv
  <1>9. json' \in Library
    BY <1>1, <1>5 DEF Relaunch
  <1> QED
    BY <1>1, <1>3, <1>4, <1>7, <1>8, <1>9, TypedIsTypeOK DEF DownloadsInv

-----------------------------------------------------------------------------
(* The steps                                                                *)

TaskSaved(t, ok) ==
    /\ t = Asker
    /\ SaveEnds(ok, tasks[t].image)
    /\ TaskContinues(t, ok)
    /\ UNCHANGED <<art, calls, fate>>

CallSaved(c, ok) ==
    /\ c = Asker
    /\ SaveEnds(ok, calls[c].image)
    /\ CallContinues(c, ok)
    /\ fate' = IF ok /\ calls[c].op = "delete"
               THEN [fate EXCEPT ![calls[c].image] = "gone"] ELSE fate
    /\ UNCHANGED art

TaskNext(t) ==
    \/ TransferStep(t) \/ Record(t) \/ TaskRuns(t) \/ Resumed(t) \/ Undone(t)
    \/ \E ok \in BOOLEAN : TaskSaved(t, ok)

CallNext(c) ==
    \/ StoreCopies(c) \/ StoreRemoves(c) \/ Imported(c) \/ Removed(c)
    \/ MachineMade(c) \/ Exported(c) \/ StartStep(c)
    \/ \E ok \in BOOLEAN : CallSaved(c, ok)

ButtonNext(c, i) ==
    \/ Retry(c, i) \/ Delete(c, i) \/ Export(c, i) \/ Import(c, i)
    \/ addOCIReference(c, i) \/ MakeButton(c, i) \/ DropButton(c, i)

LEMMA NextCases ==
    ASSUME DownloadsInv, Next
    PROVE  /\ presses' \in 0..MaxPresses
           /\ \/ \E t \in Tasks, i \in Images : Download(t, i)
              \/ \E i \in Images : Cancel(i)
              \/ \E c \in Calls, i \in Images : ButtonNext(c, i)
              \/ \E t \in Tasks : TaskNext(t)
              \/ \E c \in Calls : CallNext(c)
              \/ Relaunch
  <1>1. presses \in 0..MaxPresses /\ MaxPresses \in Nat
    BY ConstantsAssumption DEF DownloadsInv, TypeOK
  <1>2. CASE Press
    <2>1. presses' \in 0..MaxPresses
      BY <1>1, <1>2 DEF Press
    <2> QED
      BY <1>2, <2>1, Zenon DEF Press, ButtonNext, MakeButton, DropButton
  <1>3. ASSUME NEW t \in Tasks, TaskStep(t) \/ Transferred(t) \/ Recorded(t) \/ Progress(t)
        PROVE  presses' \in 0..MaxPresses /\ TaskNext(t)
    BY <1>1, <1>3 DEF TaskStep, Transferred, Recorded, Progress, TaskNext, TransferStep
  <1>4. ASSUME NEW c \in Calls, CallStep(c)
        PROVE  presses' \in 0..MaxPresses /\ CallNext(c)
    BY <1>1, <1>4 DEF CallStep, CallNext, StartStep
  <1>5. CASE SaveStep
    <2>1. presses' \in 0..MaxPresses /\ saves # <<>>
      BY <1>1, <1>5 DEF SaveStep, SaveNext, SaveFails
    <2>2. Asker \in Calls \union Tasks
      BY <2>1, TailFacts DEF DownloadsInv
    <2>3. CASE Asker \in Tasks
      <3>1. PICK t \in Tasks : t = Asker
        BY <2>3
      <3>2. CASE SaveNext
        <4>1. TaskSaved(t, TRUE)
          BY <2>1, <2>3, <3>1, <3>2 DEF SaveNext, TaskSaved, SaveEnds
        <4> QED
          BY <2>1, <4>1 DEF TaskNext
      <3>3. CASE SaveFails
        <4>1. TaskSaved(t, FALSE)
          BY <2>1, <2>3, <3>1, <3>3 DEF SaveFails, TaskSaved, SaveEnds
        <4> QED
          BY <2>1, <4>1 DEF TaskNext
      <3> QED
        BY <1>5, <3>2, <3>3 DEF SaveStep
    <2>4. CASE Asker \notin Tasks
      <3>1. PICK c \in Calls : c = Asker
        BY <2>2, <2>4
      <3>2. CASE SaveNext
        <4>1. CallSaved(c, TRUE)
          BY <2>1, <2>4, <3>1, <3>2 DEF SaveNext, CallSaved, SaveEnds
        <4> QED
          BY <2>1, <4>1 DEF CallNext
      <3>3. CASE SaveFails
        <4>1. CallSaved(c, FALSE)
          BY <2>1, <2>4, <3>1, <3>3 DEF SaveFails, CallSaved, SaveEnds
        <4> QED
          BY <2>1, <4>1 DEF CallNext
      <3> QED
        BY <1>5, <3>2, <3>3 DEF SaveStep
    <2> QED
      BY <2>3, <2>4
  <1>6. CASE Relaunch
    BY <1>1, <1>6 DEF Relaunch
  <1> QED
    BY <1>2, <1>3, <1>4, <1>5, <1>6, Zenon DEF Next

LEMMA TaskNextInv ==
    ASSUME DownloadsInv, presses' \in 0..MaxPresses, NEW t \in Tasks, TaskNext(t)
    PROVE  DownloadsInv'
  <1>1. CASE \E ok \in BOOLEAN : TaskSaved(t, ok)
    BY <1>1, TaskContinuesFacts DEF TaskSaved
  <1> QED
    BY <1>1, TransferFacts, RecordFacts, TaskRunsFacts, OutcomeFacts DEF TaskNext

LEMMA FateTyped ==
    ASSUME DownloadsInv, NEW c \in Calls, NEW ok \in BOOLEAN, CallSaved(c, ok)
    PROVE  fate' \in [Images -> {"new", "listed", "doomed", "gone"}]
  BY DEF CallSaved, DownloadsInv, TypeOK

LEMMA CallNextInv ==
    ASSUME DownloadsInv, presses' \in 0..MaxPresses, NEW c \in Calls, CallNext(c)
    PROVE  DownloadsInv'
  <1>1. ASSUME NEW ok \in BOOLEAN, CallSaved(c, ok)
        PROVE  DownloadsInv'
    <2>1. fate' \in [Images -> {"new", "listed", "doomed", "gone"}]
      BY <1>1, FateTyped
    <2> QED
      BY <1>1, <2>1, CallContinuesFacts DEF CallSaved
  <1> QED
    BY <1>1, StoreCopiesFacts, StoreRemovesFacts, ImportedFacts, RemovedFacts, MachineMadeFacts,
       ExportedFacts, StartStepFacts DEF CallNext

LEMMA DownloadsNext == DownloadsInv /\ [Next]_vars => DownloadsInv'
  <1> SUFFICES ASSUME DownloadsInv, [Next]_vars PROVE DownloadsInv'
    OBVIOUS
  <1>1. CASE UNCHANGED vars
    <2>1. Typed' /\ ShapeInv' /\ \A w \in Calls \union Tasks : Waits(w)' <=> Waits(w)
      BY <1>1, TypedIsTypeOK DEF vars, DownloadsInv, Typed, ShapeInv, Waits
    <2> QED
      BY <1>1, <2>1, QuietStep DEF vars
  <1>2. CASE Next
    <2>1. CASE \E t \in Tasks, i \in Images : Download(t, i)
      BY <1>2, <2>1, NextCases, DownloadFacts
    <2>2. CASE \E i \in Images : Cancel(i)
      BY <1>2, <2>2, NextCases, CancelStepFacts
    <2>3. CASE \E c \in Calls, i \in Images : ButtonNext(c, i)
      BY <1>2, <2>3, NextCases, RetryFacts, DeleteFacts, ExportFacts, ImportFacts, ReferFacts,
         MakeFacts, DropFacts DEF ButtonNext
    <2>4. CASE \E t \in Tasks : TaskNext(t)
      BY <1>2, <2>4, NextCases, TaskNextInv
    <2>5. CASE \E c \in Calls : CallNext(c)
      BY <1>2, <2>5, NextCases, CallNextInv
    <2>6. CASE Relaunch
      BY <2>6, RelaunchFacts
    <2> QED
      BY <1>2, <2>1, <2>2, <2>3, <2>4, <2>5, <2>6, NextCases
  <1> QED
    BY <1>1, <1>2

(* Nothing is listed, and nothing runs. *)
LEMMA DownloadsInit == Init => DownloadsInv
  <1> SUFFICES ASSUME Init PROVE DownloadsInv
    OBVIOUS
  <1>1. saves \in Seq([by: Calls \union Tasks, list: Library]) /\ DOMAIN saves = {}
    BY DEF Init
  <1>2. json \in Library
    BY DEF Init, Library, Provisioning
  <1>3. TypeOK
    BY <1>1, <1>2, ConstantsAssumption DEF Init, TypeOK, Provisioning
  <1>4. \A w \in Calls \union Tasks : ~Waits(w)
    BY DEF Init, Waits, Idle, NoTask
  <1>5. QueueInv
    BY <1>1, <1>4 DEF QueueInv
  <1>6. ShapeInv
    BY DEF Init, ShapeInv, Idle, NoTask
  <1> QED
    BY <1>3, <1>5, <1>6 DEF DownloadsInv

(* TypeOK: every variable has its type; a transfer is stopped and a
   continuation resumed only of a task that is there. *)
THEOREM TypeTheorem == Spec => []TypeOK
  <1>1. DownloadsInv => TypeOK
    BY DEF DownloadsInv
  <1> QED
    BY <1>1, DownloadsInit, DownloadsNext, PTL DEF Spec

-----------------------------------------------------------------------------
(* A deleted image is gone: FateInv                                         *)

LEMMA ListsTyped ==
    ASSUME DownloadsInv
    PROVE  \A list \in Lists : list \in Library
  BY JobFields DEF Lists, DownloadsInv, TypeOK

(* The list that is saved has what the step leaves. *)
LEMMA SnapshotShows ==
    ASSUME DownloadsInv', NEW i \in Images
    PROVE  /\ Snapshot.images[i] = IF images'[i] \in Transfer THEN "failed" ELSE images'[i]
           /\ Snapshot.vm[i] = IF vm'[i] \in Transfer THEN "downloading" ELSE vm'[i]
           /\ images'[i] \in Avail /\ vm'[i] \in Provisioning
  <1>1. images' \in [Images -> Avail] /\ vm' \in [Images -> Provisioning]
    BY DEF DownloadsInv, TypeOK, Avail
  <1> QED
    BY <1>1, SnapshotFacts

DeleteAt(c) ==
    calls[c].op = "delete" =>
        /\ fate[calls[c].image] \in {"doomed", "gone"}
        /\ calls[c].pc = "save" =>
              /\ images[calls[c].image] = "none"
              /\ \A list \in Since(c) : list.images[calls[c].image] = "none"

(* What holds of the image of a step, or of another. *)
FateOf(i) ==
    /\ fate[i] = "new" => Untouched(i)
    /\ fate[i] = "gone" => Unlisted(i)
    /\ \A c \in Calls : calls[c].image = i =>
          /\ calls[c].pc \in {"copy", "copied"} => Alone(c)
          /\ DeleteAt(c)

LEMMA FateParts ==
    ASSUME DownloadsInv
    PROVE  FateInv <=> \A i \in Images : FateOf(i)
  <1>1. \A c \in Calls : calls[c].pc # "idle" => calls[c].image \in Images
    BY CallFields DEF DownloadsInv
  <1>2. \A c \in Calls : calls[c].op = "delete" => calls[c].pc # "idle"
    BY DEF DownloadsInv, ShapeInv
  <1> QED
    BY <1>1, <1>2 DEF FateInv, FateOf, DeleteInv, DeleteAt

(* An image that a step is not about. *)
Apart(j) ==
    /\ \A i \in Images \ {j} :
          images'[i] = images[i] /\ vm'[i] = vm[i] /\ fate'[i] = fate[i]
    /\ \A t \in Tasks : tasks'[t].image \in {tasks[t].image, j, "none"}
    /\ \A c \in Calls : calls'[c] = calls[c] \/ calls'[c].image \in {j, "none"}

LEMMA FateApart ==
    ASSUME DownloadsInv, DownloadsInv', NEW p, QueueMoves(p), NEW j, Apart(j),
           NEW i \in Images, i # j, FateOf(i)
    PROVE  FateOf(i)'
  <1>1. images'[i] = images[i] /\ vm'[i] = vm[i] /\ fate'[i] = fate[i]
    BY DEF Apart
  <1>2. images[i] = "none" => Snapshot.images[i] = "none"
    BY <1>1, SnapshotShows DEF Transfer
  <1>3. vm[i] = "none" => Snapshot.vm[i] = "none"
    BY <1>1, SnapshotShows DEF Transfer
  <1>4. \A t \in Tasks : tasks[t].image # i => tasks'[t].image # i
    BY ConstantsAssumption DEF Apart
  <1>5. \A c \in Calls : calls'[c].image = i => calls'[c] = calls[c] /\ calls[c].image = i
    BY ConstantsAssumption DEF Apart
  <1>6. Lists' \subseteq Lists \union {Snapshot}
    BY DEF QueueMoves
  <1>7. Unlisted(i) => Unlisted(i)'
    BY <1>1, <1>2, <1>6 DEF Unlisted
  <1>8. Untouched(i) => Untouched(i)'
    BY <1>1, <1>3, <1>4, <1>5, <1>6, <1>7 DEF Untouched
  <1>9. ASSUME NEW c \in Calls, calls'[c].image = i, calls'[c].pc \in {"copy", "copied"}
        PROVE  Alone(c)'
    <2>1. calls'[c] = calls[c] /\ calls[c].image = i
      BY <1>5, <1>9
    <2>2. Alone(c)
      BY <1>9, <2>1 DEF FateOf
    <2> QED
      BY <1>1, <1>4, <1>5, <2>1, <2>2 DEF Alone
  <1>10. ASSUME NEW c \in Calls, calls'[c].image = i
         PROVE  DeleteAt(c)'
    <2>1. calls'[c] = calls[c] /\ calls[c].image = i /\ DeleteAt(c)
      BY <1>5, <1>10 DEF FateOf
    <2>2. ASSUME calls[c].op = "delete", calls[c].pc = "save"
          PROVE  \A list \in Since(c)' : list.images[i] = "none"
      <3>1. Since(c)' \subseteq Since(c) \union {Snapshot}
        BY DEF QueueMoves
      <3> QED
        BY <1>2, <2>1, <2>2, <3>1 DEF DeleteAt
    <2> QED
      BY <1>1, <2>1, <2>2 DEF DeleteAt
  <1> QED
    BY <1>1, <1>7, <1>8, <1>9, <1>10 DEF FateOf

(* The image of a step: something is done with it already, and c is the call
   that does it, or "none". *)
LEMMA FateHere ==
    ASSUME DownloadsInv, DownloadsInv', NEW p, QueueMoves(p), NEW j \in Images, FateOf(j),
           NEW c, \A d \in Calls \ {c} : calls'[d] = calls[d],
           \/ Listed(j) \/ vm[j] # "none"
           \/ \E t \in Tasks : tasks[t].image = j
           \/ c \in Calls /\ calls[c].image = j,
           fate'[j] \in {fate[j], "doomed", "gone"},
           fate'[j] = "gone" /\ fate[j] # "gone" => Unlisted(j)',
           images[j] = "none" => images'[j] = "none",
           c \in Calls =>
              /\ calls'[c].image = j /\ calls'[c].pc \in {"copy", "copied"} => Alone(c)'
              /\ calls'[c].image = j => DeleteAt(c)'
    PROVE  FateOf(j)'
  <1>1. fate[j] # "new"
    BY DEF FateOf, Untouched, Unlisted, Listed
  <1>2. images[j] = "none" => Snapshot.images[j] = "none"
    BY SnapshotShows DEF Transfer
  <1>3. Lists' \subseteq Lists \union {Snapshot}
    BY DEF QueueMoves
  <1>4. Unlisted(j) => Unlisted(j)'
    BY <1>2, <1>3 DEF Unlisted
  <1>5. ASSUME NEW d \in Calls \ {c}, calls'[d].image = j
        PROVE  calls'[d].pc \notin {"copy", "copied"} /\ DeleteAt(d)'
    <2>1. calls'[d] = calls[d] /\ calls[d].image = j
      BY <1>5
    <2>2. ~Alone(d)
      BY <2>1 DEF Alone, Listed
    <2>3. calls[d].op = "delete" /\ calls[d].pc = "save" =>
             \A list \in Since(d)' : list.images[j] = "none"
      <3>1. Since(d)' \subseteq Since(d) \union {Snapshot}
        BY DEF QueueMoves
      <3> QED
        BY <1>2, <2>1, <3>1 DEF FateOf, DeleteAt
    <2>4. DeleteAt(d)'
      BY <2>1, <2>3 DEF FateOf, DeleteAt
    <2> QED
      BY <2>1, <2>2, <2>4 DEF FateOf
  <1> QED
    BY <1>1, <1>4, <1>5 DEF FateOf

(* The first thing that is done with an image; c is the call, or "none". *)
LEMMA FateFirst ==
    ASSUME DownloadsInv, DownloadsInv', NEW j \in Images, FateOf(j), fate[j] = "new",
           fate'[j] = "listed", NEW c, \A d \in Calls \ {c} : calls'[d] = calls[d],
           c \in Calls =>
              /\ calls'[c].image = j /\ calls'[c].pc \in {"copy", "copied"} => Alone(c)'
              /\ calls'[c].op # "delete"
    PROVE  FateOf(j)'
  <1>1. \A d \in Calls \ {c} : calls'[d].image # j
    BY DEF FateOf, Untouched
  <1> QED
    BY <1>1 DEF FateOf, DeleteAt

LEMMA FateTogether ==
    ASSUME DownloadsInv', \A i \in Images : FateOf(i)'
    PROVE  FateInv'
  <1>1. \A c \in Calls : calls'[c] = Idle \/ calls'[c].image \in Images
    BY DEF DownloadsInv, TypeOK, Call
  <1>2. \A c \in Calls : calls'[c] # Idle =>
           /\ calls'[c].pc \in {"copy", "copied"} => Alone(c)'
           /\ DeleteAt(c)'
    BY <1>1 DEF FateOf
  <1>3. Idle.pc \notin {"copy", "copied"} /\ Idle.op # "delete"
    BY DEF Idle
  <1> QED
    BY <1>2, <1>3 DEF FateInv, FateOf, DeleteInv, DeleteAt

LEMMA FateStep ==
    ASSUME DownloadsInv, DownloadsInv', FateInv, NEW p, QueueMoves(p), NEW j \in Images, Apart(j),
           FateOf(j)'
    PROVE  FateInv'
  <1>1. ASSUME NEW i \in Images, i # j
        PROVE  FateOf(i)'
    BY <1>1, FateParts, FateApart
  <1> QED
    BY <1>1, FateTogether

(* updateImage lists nothing. *)
LEMMA UpdateFacts ==
    ASSUME DownloadsInv, NEW j \in Images, NEW a, Update(j, a)
    PROVE  /\ \A i \in Images \ {j} : images'[i] = images[i] /\ vm'[i] = vm[i]
           /\ images[j] = "none" => images'[j] = "none"
           /\ images[j] # "none" => images'[j] = a
           /\ vm[j] = "none" => vm'[j] = "none"
           /\ vm[j] # "none" => vm'[j] = a
  BY DEF Update, updateImage, updateMachinesForImage, Listed, DownloadsInv, TypeOK

(* The steps of task t, whose image is j, change no fate and list no image. *)
LEMMA TaskNextFacts ==
    ASSUME DownloadsInv, presses' \in 0..MaxPresses, NEW t \in Tasks, TaskNext(t)
    PROVE  /\ DownloadsInv' /\ \E p \in {"none", t} : QueueMoves(p)
           /\ tasks[t].image \in Images /\ Apart(tasks[t].image)
           /\ UNCHANGED <<calls, fate>>
           /\ images[tasks[t].image] = "none" => images'[tasks[t].image] = "none"
  <1> DEFINE j == tasks[t].image
  <1>1. \E p \in {"none", t} : QueueMoves(p)
    BY TransferFacts, RecordFacts, TaskRunsFacts, OutcomeFacts, TaskContinuesFacts
       DEF TaskNext, TaskSaved
  <1>2. /\ j \in Images /\ UNCHANGED <<calls, fate>>
        /\ (\E pc \in TaskPC : TaskAt(t, pc)) \/ TaskOver(t)
        /\ UNCHANGED <<images, vm>> \/ \E a \in Availability : Update(j, a)
    <2>1. CASE TransferStep(t)
      BY <2>1, TransferFacts DEF TaskPC
    <2>2. CASE Record(t)
      BY <2>2, RecordFacts DEF TaskPC, Availability
    <2>3. CASE TaskRuns(t)
      <3>1. tasks[t].pc = "created" /\ TaskAt(t, "first") /\ UNCHANGED <<images, vm, calls, fate>>
        BY <2>3, TaskRunsFacts
      <3>2. j \in Images
        BY <3>1, TaskFields DEF DownloadsInv
      <3> QED
        BY <3>1, <3>2 DEF TaskPC
    <2>4. CASE Resumed(t) \/ Undone(t)
      BY <2>4, OutcomeFacts DEF TaskPC, Availability
    <2>5. CASE \E ok \in BOOLEAN : TaskSaved(t, ok)
      BY <2>5, TaskContinuesFacts DEF TaskPC, TaskSaved, Availability
    <2> QED
      BY <2>1, <2>2, <2>3, <2>4, <2>5 DEF TaskNext
  <1>3. /\ \A i \in Images \ {j} : images'[i] = images[i] /\ vm'[i] = vm[i]
        /\ images[j] = "none" => images'[j] = "none"
    BY <1>2, UpdateFacts
  <1>4. \A u \in Tasks : tasks'[u].image \in {tasks[u].image, j, "none"}
    BY <1>2 DEF TaskAt, TaskOver, NoTask
  <1>5. Apart(j)
    BY <1>2, <1>3, <1>4 DEF Apart
  <1> QED
    BY <1>1, <1>2, <1>3, <1>5, TaskNextInv

LEMMA TaskFate ==
    ASSUME DownloadsInv, presses' \in 0..MaxPresses, FateInv, NEW t \in Tasks, TaskNext(t)
    PROVE  FateInv'
  <1>0. tasks[t].image \in Images
    BY TaskNextFacts
  <1>j. PICK j \in Images : j = tasks[t].image
    BY <1>0
  <1>1. /\ DownloadsInv' /\ Apart(j) /\ UNCHANGED <<calls, fate>>
        /\ images[j] = "none" => images'[j] = "none"
    BY <1>j, TaskNextFacts
  <1>2. PICK p : QueueMoves(p)
    BY TaskNextFacts
  <1>3. t \notin Calls
    BY ConstantsAssumption
  <1>4. \E u \in Tasks : tasks[u].image = j
    BY <1>j
  <1>5. FateOf(j)'
    BY <1>1, <1>2, <1>3, <1>4, FateParts, FateHere
  <1> QED
    BY <1>1, <1>2, <1>5, FateStep

(* The buttons. *)
LEMMA ButtonFate ==
    ASSUME DownloadsInv, presses' \in 0..MaxPresses, FateInv, NEW c \in Calls, NEW i \in Images,
           ButtonNext(c, i)
    PROVE  FateInv'
  <1> USE DEF ButtonNext
  <1>1. DownloadsInv' /\ QueueMoves("none") /\ \A t \in Tasks : tasks'[t].image = tasks[t].image
    BY RetryFacts, DeleteFacts, ExportFacts, ImportFacts, ReferFacts, MakeFacts, DropFacts
  <1>2. \E op \in CallOp, pc \in CallPC : CallNew(c, op, i, pc)
    BY RetryFacts, DeleteFacts, ExportFacts, ImportFacts, ReferFacts, MakeFacts, DropFacts
       DEF CallOp, CallPC
  <1>3. \A d \in Calls \ {c} : calls'[d] = calls[d]
    BY <1>2 DEF CallNew
  <1>4. Apart(i)
    <2>1. \A k \in Images \ {i} : images'[k] = images[k] /\ vm'[k] = vm[k] /\ fate'[k] = fate[k]
      BY MakeFacts, DropFacts
         DEF Retry, Delete, Export, Import, addOCIReference, DownloadsInv, TypeOK
    <2>2. \A d \in Calls : calls'[d] = calls[d] \/ calls'[d].image \in {i, "none"}
      BY <1>2 DEF CallNew
    <2> QED
      BY <1>1, <2>1, <2>2 DEF Apart
  <1>5. FateOf(i)
    BY FateParts
  <1>6. CASE Import(c, i)
    <2>1. CallNew(c, "import", i, "copy") /\ UNCHANGED tasks
      BY <1>6, ImportFacts
    <2>2. fate[i] = "new" /\ fate'[i] = "listed" /\ UNCHANGED <<images, vm>>
      BY <1>6 DEF Import, DownloadsInv, TypeOK
    <2>3. Untouched(i)
      BY <1>5, <2>2 DEF FateOf
    <2>4. Alone(c)' /\ calls'[c].op # "delete"
      BY <1>3, <2>1, <2>2, <2>3 DEF Alone, CallNew, Untouched, Unlisted
    <2>5. FateOf(i)'
      BY <1>1, <1>3, <1>5, <2>2, <2>4, FateFirst
    <2> QED
      BY <1>1, <1>4, <2>5, FateStep
  <1>7. CASE addOCIReference(c, i)
    <2>1. CallNew(c, "refer", i, "save")
      BY <1>7, ReferFacts
    <2>2. fate[i] = "new" /\ fate'[i] = "listed"
      BY <1>7 DEF addOCIReference, DownloadsInv, TypeOK
    <2>3. FateOf(i)'
      BY <1>1, <1>3, <1>5, <2>1, <2>2, FateFirst DEF CallNew
    <2> QED
      BY <1>1, <1>4, <2>3, FateStep
  <1>8. CASE Delete(c, i)
    <2>1. CallNew(c, "delete", i, "remove")
      BY <1>8, DeleteFacts
    <2>2. fate'[i] = "doomed" /\ UNCHANGED images /\ Listed(i)
      BY <1>8 DEF Delete, DownloadsInv, TypeOK
    <2>3. calls'[c].pc \notin {"copy", "copied"} /\ DeleteAt(c)'
      BY <2>1, <2>2 DEF CallNew, DeleteAt
    <2>4. FateOf(i)'
      BY <1>1, <1>3, <1>5, <2>2, <2>3, FateHere
    <2> QED
      BY <1>1, <1>4, <2>4, FateStep
  <1>9. CASE Retry(c, i) \/ Export(c, i) \/ MakeButton(c, i)
    <2>1. calls'[c].op # "delete" /\ calls'[c].pc \notin {"copy", "copied"}
      BY <1>9, RetryFacts, ExportFacts, MakeFacts DEF CallNew
    <2>2. UNCHANGED <<fate, images>> /\ (Listed(i) \/ vm[i] # "none")
      BY <1>9, MakeFacts DEF Retry, Export, Listed
    <2>3. DeleteAt(c)'
      BY <2>1 DEF DeleteAt
    <2>4. FateOf(i)'
      BY <1>1, <1>3, <1>5, <2>1, <2>2, <2>3, FateHere
    <2> QED
      BY <1>1, <1>4, <2>4, FateStep
  <1>10. CASE DropButton(c, i)
    <2>1. \E op \in {"discard", "eject"} : CallNew(c, op, i, "save")
      BY <1>10, DropFacts
    <2>2. UNCHANGED <<fate, images>> /\ vm[i] # "none"
      BY <1>10, DropFacts
    <2>3. FateOf(i)'
      <3>1. fate[i] # "new"
        BY <1>5, <2>2 DEF FateOf, Untouched
      <3>2. images[i] = "none" => Snapshot.images[i] = "none"
        BY <1>1, <2>2, SnapshotShows DEF Transfer
      <3>3. Lists' \subseteq Lists \union {Snapshot}
        BY <1>1 DEF QueueMoves
      <3>4. Unlisted(i) => Unlisted(i)'
        BY <2>2, <3>2, <3>3 DEF Unlisted
      <3>5. ASSUME NEW d \in Calls \ {c}, calls'[d].image = i
            PROVE  calls'[d].pc \notin {"copy", "copied"} /\ DeleteAt(d)'
        <4>1. calls'[d] = calls[d] /\ calls[d].image = i
          BY <1>3, <3>5
        <4>2. ~Alone(d)
          BY <2>2, <4>1 DEF Alone
        <4>3. calls[d].op = "delete" /\ calls[d].pc = "save" =>
                 \A list \in Since(d)' : list.images[i] = "none"
          <5>1. Since(d)' \subseteq Since(d) \union {Snapshot}
            BY <1>1 DEF QueueMoves
          <5> QED
            BY <1>5, <3>2, <4>1, <5>1 DEF FateOf, DeleteAt
        <4>4. DeleteAt(d)'
          BY <1>5, <2>2, <4>1, <4>3 DEF FateOf, DeleteAt
        <4> QED
          BY <1>5, <4>1, <4>2, <4>4 DEF FateOf
      <3>6. calls'[c].pc \notin {"copy", "copied"} /\ DeleteAt(c)'
        BY <2>1 DEF CallNew, DeleteAt
      <3>7. fate'[i] = fate[i]
        BY <2>2
      <3> QED
        BY <1>5, <3>1, <3>4, <3>5, <3>6, <3>7 DEF FateOf
    <2> QED
      BY <1>1, <1>4, <2>3, FateStep
  <1> QED
    BY <1>6, <1>7, <1>8, <1>9, <1>10

LEMMA CallFate ==
    ASSUME DownloadsInv, presses' \in 0..MaxPresses, FateInv, NEW c \in Calls, CallNext(c)
    PROVE  FateInv'
  <1>0. DownloadsInv'
    BY CallNextInv
  <1>1. calls[c].pc # "idle"
    BY CallContinuesFacts, FateTyped
       DEF CallNext, StoreCopies, StoreRemoves, Imported, Removed, MachineMade, Exported,
           StartStep, Started, RuntimeRecorded, CallSaved
  <1>2. PICK j \in Images : j = calls[c].image
    BY <1>1, CallFields DEF DownloadsInv
  <1>3. FateOf(j)
    BY FateParts
  <1>4. ASSUME NEW p, QueueMoves(p), \A i \in Images \ {j} : images'[i] = images[i] /\ vm'[i] = vm[i],
               UNCHANGED fate, \A t \in Tasks : tasks'[t].image \in {tasks[t].image, j, "none"},
               CallOver(c) \/ \E pc \in CallPC : CallAt(c, pc),
               images[j] = "none" => images'[j] = "none",
               calls'[c].pc \in {"copy", "copied"} => calls[c].pc = "copy" /\ UNCHANGED <<images, vm, tasks>>,
               calls'[c].pc = "save" /\ calls'[c].op = "delete" =>
                  calls[c].pc # "save" /\ images'[j] = "none"
        PROVE  FateInv'
    <2>1. Apart(j)
      BY <1>2, <1>4 DEF Apart, CallAt, CallOver, Idle
    <2>2. /\ \A d \in Calls \ {c} : calls'[d] = calls[d]
          /\ calls'[c].image = j => calls'[c].op = calls[c].op
          /\ calls'[c].image \in {j, "none"}
      BY <1>2, <1>4, ConstantsAssumption DEF CallAt, CallOver, Idle
    <2>3. calls'[c].image = j /\ calls'[c].pc \in {"copy", "copied"} => Alone(c)'
      <3> SUFFICES ASSUME calls'[c].image = j, calls'[c].pc \in {"copy", "copied"}
                   PROVE  Alone(c)'
        OBVIOUS
      <3>1. Alone(c) /\ UNCHANGED <<images, vm, tasks>>
        BY <1>2, <1>3, <1>4 DEF FateOf
      <3> QED
        BY <1>2, <1>4, <2>2, <3>1 DEF Alone
    <2>4. calls'[c].image = j => DeleteAt(c)'
      <3> SUFFICES ASSUME calls'[c].image = j, calls'[c].op = "delete"
                   PROVE  DeleteAt(c)'
        BY DEF DeleteAt
      <3>1. fate'[j] \in {"doomed", "gone"}
        BY <1>2, <1>3, <1>4, <2>2 DEF FateOf, DeleteAt
      <3>2. calls'[c].pc = "save" => \A list \in Since(c)' : list.images[j] = "none"
        <4> SUFFICES ASSUME calls'[c].pc = "save"
                     PROVE  \A list \in Since(c)' : list.images[j] = "none"
          OBVIOUS
        <4>1. ~Waits(c) /\ images'[j] = "none"
          BY <1>4, ConstantsAssumption DEF Waits
        <4>2. Since(c)' \subseteq {Snapshot}
          BY <1>4, <4>1 DEF QueueMoves
        <4>3. Snapshot.images[j] = "none"
          BY <1>0, <4>1, SnapshotShows DEF Transfer
        <4> QED
          BY <4>2, <4>3
      <3> QED
        BY <1>4, <3>1, <3>2 DEF DeleteAt
    <2>5. FateOf(j)'
      BY <1>0, <1>2, <1>3, <1>4, <2>2, <2>3, <2>4, FateHere
    <2> QED
      BY <1>0, <1>4, <2>1, <2>5, FateStep
  <1>5. CASE StoreCopies(c)
    BY <1>5, <1>4, StoreCopiesFacts DEF StoreCopies, CallAt, CallPC
  <1>6. CASE StoreRemoves(c)
    BY <1>6, <1>4, StoreRemovesFacts DEF StoreRemoves, CallAt, CallOver, CallPC, Idle
  <1>7. CASE Imported(c)
    <2>1. /\ QueueMoves("none") /\ UNCHANGED <<tasks, vm, fate>>
          /\ \/ CallAt(c, "save") /\ images' = [images EXCEPT ![j] = "available"]
             \/ CallAt(c, "undo") /\ UNCHANGED images
      BY <1>2, <1>7, ImportedFacts DEF Imported
    <2>2. calls[c].pc = "copied" /\ calls[c].op = "import"
      BY <1>7 DEF Imported, DownloadsInv, ShapeInv
    <2>3. Alone(c)
      BY <1>2, <1>3, <2>2 DEF FateOf
    <2>4. Apart(j)
      BY <1>2, <2>1 DEF Apart, CallAt, DownloadsInv, TypeOK
    <2>5. fate'[j] = "listed" /\ \A d \in Calls \ {c} : calls'[d].image # j
      BY <1>2, <2>1, <2>3 DEF Alone, CallAt
    <2>6. calls'[c].pc \notin {"copy", "copied"} /\ calls'[c].op # "delete"
      BY <2>1, <2>2 DEF CallAt
    <2>7. FateOf(j)'
      BY <2>5, <2>6 DEF FateOf, DeleteAt
    <2> QED
      BY <1>0, <2>1, <2>4, <2>7, FateStep
  <1>8. CASE Removed(c)
    <2>1. /\ QueueMoves("none") /\ UNCHANGED <<tasks, fate>> /\ CallAt(c, "save")
          /\ \/ /\ calls[c].op = "delete"
                /\ images' = [images EXCEPT ![j] = "none"] /\ UNCHANGED vm
             \/ calls[c].op = "retry" /\ Update(j, "downloading")
      BY <1>2, <1>8, RemovedFacts DEF Removed
    <2>2. /\ \A i \in Images \ {j} : images'[i] = images[i] /\ vm'[i] = vm[i]
          /\ images[j] = "none" => images'[j] = "none"
          /\ calls[c].op = "delete" => images'[j] = "none"
      <3>1. CASE Update(j, "downloading") /\ calls[c].op = "retry"
        BY <3>1, UpdateFacts
      <3>2. CASE images' = [images EXCEPT ![j] = "none"] /\ UNCHANGED vm
        BY <3>2 DEF DownloadsInv, TypeOK
      <3> QED
        BY <2>1, <3>1, <3>2
    <2>3. calls[c].pc = "removed"
      BY <1>8 DEF Removed
    <2> QED
      BY <1>4, <2>1, <2>2, <2>3 DEF CallAt, CallPC
  <1>9. CASE MachineMade(c)
    <2>1. /\ QueueMoves("none") /\ UNCHANGED <<tasks, fate, images>>
          /\ calls[c].op \in {"create", "clone"}
          /\ CallAt(c, "save") \/ CallOver(c)
          /\ vm' = [vm EXCEPT ![j] = calls[c].seen] \/ UNCHANGED vm
      BY <1>2, <1>9, MachineMadeFacts DEF MachineMade
    <2>2. \A i \in Images \ {j} : images'[i] = images[i] /\ vm'[i] = vm[i]
      BY <2>1 DEF DownloadsInv, TypeOK
    <2> QED
      BY <1>4, <2>1, <2>2 DEF CallAt, CallOver, CallPC, Idle
  <1>10. CASE Exported(c)
    BY <1>10, <1>4, ExportedFacts DEF Exported, CallOver, Idle
  <1>11. CASE \E ok \in BOOLEAN : CallSaved(c, ok)
    <2>1. PICK ok \in BOOLEAN : CallSaved(c, ok)
      BY <1>11
    <2>2. /\ QueueMoves(c) /\ calls[c].pc = "save" /\ UNCHANGED images
          /\ ok => Lists' \subseteq Since(c)
          /\ vm' = IF calls[c].op = "create" /\ ~ok THEN [vm EXCEPT ![j] = "none"] ELSE vm
          /\ (CallAt(c, "undo") /\ calls[c].op = "import") \/ CallOver(c)
          /\ (\E t \in Tasks : TaskNew(t, j) /\ tasks'[t].image = j) \/ UNCHANGED tasks
      BY <1>2, <2>1, CallContinuesFacts, FateTyped DEF CallSaved
    <2>3. \A i \in Images \ {j} : images'[i] = images[i] /\ vm'[i] = vm[i]
      BY <2>2 DEF DownloadsInv, TypeOK
    <2>4. \A t \in Tasks : tasks'[t].image \in {tasks[t].image, j, "none"}
      BY <2>2 DEF TaskNew
    <2>5. CASE UNCHANGED fate
      BY <1>4, <2>2, <2>3, <2>4, <2>5 DEF CallAt, CallOver, CallPC, Idle
    <2>6. CASE ok /\ calls[c].op = "delete" /\ fate' = [fate EXCEPT ![j] = "gone"]
      <3>1. CallOver(c) /\ fate'[j] = "gone"
        BY <2>2, <2>6 DEF DownloadsInv, TypeOK
      <3>2. DeleteAt(c)
        BY <1>2, <1>3 DEF FateOf
      <3>3. Unlisted(j)'
        BY <1>2, <2>2, <2>6, <3>2 DEF DeleteAt, Unlisted
      <3>4. Apart(j)
        BY <1>2, <2>3, <2>4, <2>6, <3>1 DEF Apart, CallOver, Idle, DownloadsInv, TypeOK
      <3>5. calls'[c].image # j /\ \A d \in Calls \ {c} : calls'[d] = calls[d]
        BY <3>1, ConstantsAssumption DEF CallOver, Idle
      <3>6. FateOf(j)'
        BY <1>0, <1>2, <1>3, <2>2, <3>1, <3>3, <3>5, FateHere
      <3> QED
        BY <1>0, <2>2, <3>4, <3>6, FateStep
    <2> QED
      BY <1>2, <2>1, <2>5, <2>6 DEF CallSaved
  <1>12. CASE StartStep(c)
    <2>1. /\ QueueMoves("none") /\ UNCHANGED <<tasks, fate, images>> /\ calls[c].op = "start"
          /\ CallOver(c) \/ CallAt(c, "ran") \/ CallAt(c, "save")
          /\ vm' = [vm EXCEPT ![j] = "installing"] \/ UNCHANGED vm
      BY <1>2, <1>12, StartStepFacts
    <2>2. \A i \in Images \ {j} : images'[i] = images[i] /\ vm'[i] = vm[i]
      BY <2>1 DEF DownloadsInv, TypeOK
    <2> QED
      BY <1>4, <2>1, <2>2 DEF CallAt, CallOver, CallPC, Idle
  <1> QED
    BY <1>5, <1>6, <1>7, <1>8, <1>9, <1>10, <1>11, <1>12 DEF CallNext

LEMMA FateNext == DownloadsInv /\ FateInv /\ [Next]_vars => FateInv'
  <1> SUFFICES ASSUME DownloadsInv, FateInv, [Next]_vars PROVE FateInv'
    OBVIOUS
  <1>0. DownloadsInv'
    BY DownloadsNext
  <1>1. CASE UNCHANGED vars
    <2>1. Lists' = Lists /\ \A c \in Calls : Since(c)' = Since(c)
      BY <1>1 DEF vars, Lists, Since
    <2> QED
      BY <1>1, <2>1 DEF vars, FateInv, DeleteInv, Untouched, Unlisted, Alone
  <1>2. CASE Next
    <2>1. ASSUME NEW t \in Tasks, NEW i \in Images, Download(t, i)
          PROVE  FateInv'
      <3>1. /\ QueueMoves("none") /\ UNCHANGED calls /\ TaskNew(t, i)
            /\ tasks'[t].image = i
        BY <1>2, <2>1, NextCases, DownloadFacts
      <3>2. fate[i] = "new" /\ fate'[i] = "listed"
        BY <2>1 DEF Download, DownloadsInv, TypeOK
      <3>3. Apart(i)
        BY <2>1, <3>1 DEF Download, Apart, TaskNew, DownloadsInv, TypeOK
      <3>4. t \notin Calls
        BY ConstantsAssumption
      <3>5. FateOf(i)'
        BY <1>0, <3>1, <3>2, <3>4, FateParts, FateFirst
      <3> QED
        BY <1>0, <3>1, <3>3, <3>5, FateStep
    <2>2. ASSUME NEW i \in Images, Cancel(i)
          PROVE  FateInv'
      <3>1. /\ QueueMoves("none") /\ UNCHANGED <<calls, images, vm, fate>>
            /\ \A t \in Tasks : tasks'[t].image = tasks[t].image
        BY <1>2, <2>2, NextCases, CancelStepFacts DEF Cancel
      <3>2. Listed(i) /\ downloads[i] \in Tasks
        BY <2>2 DEF Cancel, Listed, DownloadsInv, TypeOK
      <3>3. PICK t \in Tasks : t \notin Calls
        BY <3>2, ConstantsAssumption
      <3>4. Apart(i)
        BY <3>1 DEF Apart
      <3>5. FateOf(i)'
        BY <1>0, <3>1, <3>2, <3>3, FateParts, FateHere
      <3> QED
        BY <1>0, <3>1, <3>4, <3>5, FateStep
    <2>3. CASE \E c \in Calls, i \in Images : ButtonNext(c, i)
      BY <1>2, <2>3, NextCases, ButtonFate
    <2>4. CASE \E t \in Tasks : TaskNext(t)
      BY <1>2, <2>4, NextCases, TaskFate
    <2>5. CASE \E c \in Calls : CallNext(c)
      BY <1>2, <2>5, NextCases, CallFate
    <2>6. CASE Relaunch
      <3>1. /\ Lists' \subseteq Lists \union {Snapshot} /\ json \in Library /\ UNCHANGED fate
            /\ \A t \in Tasks : tasks'[t].image = "none"
            /\ \A c \in Calls : calls'[c] = Idle
        BY <2>6, RelaunchFacts DEF Relaunch, NoTask
      <3>2. ASSUME NEW i \in Images
            PROVE  FateOf(i)'
        <4>1. json \in Lists
          BY DEF Lists
        <4>2. images'[i] = json.images[i] /\ (json.vm[i] = "none" => vm'[i] = "none")
          BY <2>6 DEF Relaunch
        <4>3. /\ images'[i] = "none" => Snapshot.images[i] = "none"
              /\ vm'[i] = "none" => Snapshot.vm[i] = "none"
          BY <1>0, SnapshotShows DEF Transfer
        <4>4. Unlisted(i) => Unlisted(i)'
          BY <3>1, <4>1, <4>2, <4>3 DEF Unlisted
        <4>5. Untouched(i) => Untouched(i)'
          BY <3>1, <4>1, <4>2, <4>3, <4>4, ConstantsAssumption DEF Untouched, Idle
        <4>6. \A c \in Calls : calls'[c].image # i
          BY <3>1, ConstantsAssumption DEF Idle
        <4> QED
          BY <3>1, <4>4, <4>5, <4>6, FateParts DEF FateOf
      <3> QED
        BY <1>0, <3>2, FateTogether
    <2> QED
      BY <1>2, <2>1, <2>2, <2>3, <2>4, <2>5, <2>6, NextCases
  <1> QED
    BY <1>1, <1>2

LEMMA FateInit == Init => FateInv
  <1> SUFFICES ASSUME Init PROVE FateInv
    OBVIOUS
  <1>1. json = [images |-> [i \in Images |-> "none"], vm |-> [i \in Images |-> "none"]]
        /\ DOMAIN saves = {}
    BY DEF Init
  <1>2. \A list \in Lists : list = json
    BY <1>1 DEF Lists
  <1>3. \A i \in Images : json.images[i] = "none" /\ json.vm[i] = "none"
    BY <1>1
  <1>4. \A i \in Images : Untouched(i)
    BY <1>2, <1>3, ConstantsAssumption DEF Init, Untouched, Unlisted, NoTask, Idle
  <1> QED
    BY <1>4 DEF Init, FateInv, DeleteInv, Untouched, Idle

(* DeletedIsGone: no task that outlives removeImage, no retry and no save that
   was asked for before it brings a deleted image back. *)
THEOREM DeletedIsGoneTheorem == Spec => []DeletedIsGone
  <1>1. DownloadsInv /\ FateInv => DeletedIsGone
    BY DEF FateInv, Unlisted, DeletedIsGone, Lists
  <1> QED
    BY <1>1, DownloadsInit, DownloadsNext, FateInit, FateNext, PTL DEF Spec

-----------------------------------------------------------------------------
(* What a step leaves alone, for the invariants below                       *)

(* The step does nothing to image i, to its tasks and to its calls. *)
Same(i) ==
    /\ images'[i] = images[i] /\ vm'[i] = vm[i] /\ art'[i] = art[i]
    /\ fate'[i] = fate[i] /\ downloads'[i] = downloads[i]
    /\ i \in excused' <=> i \in excused
    /\ \A t \in Tasks :
          /\ tasks'[t].image = i <=> tasks[t].image = i
          /\ tasks[t].image = i =>
                tasks'[t].pc = tasks[t].pc /\ tasks'[t].result = tasks[t].result
    /\ \A c \in Calls :
          /\ calls'[c].image = i <=> calls[c].image = i
          /\ calls[c].image = i => calls'[c] = calls[c]

Others(j) == \A i \in Images \ {j} : Same(i)

(* Others by its parts. *)
LEMMA OthersParts ==
    ASSUME DownloadsInv, NEW j \in Images,
           \A i \in Images \ {j} : images'[i] = images[i] /\ vm'[i] = vm[i],
           \A i \in Images \ {j} : art'[i] = art[i],
           \A i \in Images \ {j} : fate'[i] = fate[i],
           \A i \in Images \ {j} : downloads'[i] = downloads[i],
           excused' \in {excused, excused \union {j}},
           \A t \in Tasks :
              \/ /\ tasks'[t].image = tasks[t].image /\ tasks'[t].pc = tasks[t].pc
                 /\ tasks'[t].result = tasks[t].result
              \/ tasks[t].image \in {j, "none"} /\ tasks'[t].image \in {j, "none"},
           \A c \in Calls :
              \/ calls'[c] = calls[c]
              \/ calls[c].image \in {j, "none"} /\ calls'[c].image \in {j, "none"}
    PROVE  Others(j)
  <1> SUFFICES ASSUME NEW i \in Images, i # j PROVE Same(i)
    BY DEF Others
  <1>1. i # "none"
    BY ConstantsAssumption
  <1> QED
    BY <1>1 DEF Same

LEMMA TaskOthers ==
    ASSUME DownloadsInv, presses' \in 0..MaxPresses, NEW t \in Tasks, TaskNext(t)
    PROVE  Others(tasks[t].image)
  <1>1. PICK j \in Images : j = tasks[t].image
    BY TaskNextFacts
  <1>2. UNCHANGED <<calls, fate>> /\ Apart(j)
    BY <1>1, TaskNextFacts
  <1>3. /\ \A i \in Images \ {j} : art'[i] = art[i] /\ downloads'[i] = downloads[i]
        /\ excused' \in {excused, excused \union {j}}
    <2>1. CASE TransferStep(t)
      BY <1>1, <2>1, TransferFacts
    <2>2. CASE Record(t) \/ TaskRuns(t) \/ Resumed(t) \/ Undone(t)
      BY <2>2, RecordFacts, TaskRunsFacts, OutcomeFacts
    <2>3. CASE \E ok \in BOOLEAN : TaskSaved(t, ok)
      <3>1. UNCHANGED art /\ excused' \in {excused, excused \union {j}}
        BY <1>1, <2>3 DEF TaskSaved, SaveEnds
      <3>2. UNCHANGED downloads \/ downloads' = [downloads EXCEPT ![j] = "none"]
        BY <1>1, <2>3, TaskContinuesFacts DEF TaskSaved
      <3>3. \A i \in Images \ {j} : downloads'[i] = downloads[i]
        BY <3>2 DEF DownloadsInv, TypeOK
      <3> QED
        BY <3>1, <3>3
    <2> QED
      BY <2>1, <2>2, <2>3 DEF TaskNext
  <1>4. tasks'[t].image \in {j, "none"} /\ \A u \in Tasks \ {t} : tasks'[u] = tasks[u]
    <2>1. (\E pc : TaskAt(t, pc)) \/ TaskOver(t)
      BY TransferFacts, RecordFacts, TaskRunsFacts, OutcomeFacts, TaskContinuesFacts
         DEF TaskNext, TaskSaved
    <2> QED
      BY <1>1, <2>1 DEF TaskAt, TaskOver, NoTask
  <1>5. \A i \in Images \ {j} : images'[i] = images[i] /\ vm'[i] = vm[i]
    BY <1>2 DEF Apart
  <1> QED
    BY <1>1, <1>2, <1>3, <1>4, <1>5, OthersParts

LEMMA ButtonOthers ==
    ASSUME DownloadsInv, presses' \in 0..MaxPresses, NEW c \in Calls, NEW i \in Images,
           ButtonNext(c, i)
    PROVE  Others(i)
  <1>1. /\ calls[c].image = "none" /\ calls'[c].image = i
        /\ \A d \in Calls \ {c} : calls'[d] = calls[d]
    <2>1. \E op, pc : CallNew(c, op, i, pc)
      BY RetryFacts, DeleteFacts, ExportFacts, ImportFacts, ReferFacts, MakeFacts, DropFacts
         DEF ButtonNext
    <2> QED
      BY <2>1 DEF CallNew, Idle
  <1>2. \A t \in Tasks : /\ tasks'[t].image = tasks[t].image /\ tasks'[t].pc = tasks[t].pc
                         /\ tasks'[t].result = tasks[t].result
    BY RetryFacts, DeleteFacts, ExportFacts, ImportFacts, ReferFacts, MakeFacts, DropFacts
       DEF ButtonNext
  <1>3. UNCHANGED <<art, downloads>> /\ excused' \in {excused, excused \union {i}}
    BY MakeFacts, DropFacts DEF ButtonNext, Retry, Delete, Export, Import, addOCIReference
  <1>4. \A k \in Images \ {i} : images'[k] = images[k] /\ vm'[k] = vm[k] /\ fate'[k] = fate[k]
    BY MakeFacts, DropFacts
       DEF ButtonNext, Retry, Delete, Export, Import, addOCIReference, DownloadsInv, TypeOK
  <1> QED
    BY <1>1, <1>2, <1>3, <1>4, OthersParts

LEMMA DownloadOthers ==
    ASSUME DownloadsInv, presses' \in 0..MaxPresses, NEW t \in Tasks, NEW i \in Images,
           Download(t, i)
    PROVE  Others(i)
  <1>1. TaskNew(t, i) /\ tasks'[t].image = i /\ UNCHANGED calls
    BY DownloadFacts
  <1>2. tasks[t].image = "none" /\ \A u \in Tasks \ {t} : tasks'[u] = tasks[u]
    BY <1>1 DEF TaskNew, NoTask
  <1>3. \A k \in Images \ {i} : downloads'[k] = downloads[k]
    BY <1>1 DEF TaskNew, DownloadsInv, TypeOK
  <1>4. /\ UNCHANGED <<vm, art, excused>>
        /\ \A k \in Images \ {i} : images'[k] = images[k] /\ fate'[k] = fate[k]
    BY DEF Download, DownloadsInv, TypeOK
  <1> QED
    BY <1>1, <1>2, <1>3, <1>4, OthersParts

(* Cancelling moves nothing. *)
LEMMA CancelSame ==
    ASSUME DownloadsInv, presses' \in 0..MaxPresses, NEW i \in Images, Cancel(i)
    PROVE  \A k \in Images : Same(k)
  <1>1. UNCHANGED <<calls, images, vm, art, downloads, fate, excused>>
    BY DEF Cancel
  <1>2. \A t \in Tasks : /\ tasks'[t].image = tasks[t].image /\ tasks'[t].pc = tasks[t].pc
                         /\ tasks'[t].result = tasks[t].result
    BY CancelStepFacts
  <1> QED
    BY <1>1, <1>2 DEF Same

LEMMA CallOthers ==
    ASSUME DownloadsInv, presses' \in 0..MaxPresses, NEW c \in Calls, CallNext(c)
    PROVE  calls[c].image \in Images /\ Others(calls[c].image)
  <1>1. calls[c].pc # "idle"
    BY CallContinuesFacts, FateTyped
       DEF CallNext, StoreCopies, StoreRemoves, Imported, Removed, MachineMade, Exported,
           StartStep, Started, RuntimeRecorded, CallSaved
  <1>2. PICK j \in Images : j = calls[c].image
    BY <1>1, CallFields DEF DownloadsInv
  <1>3. ASSUME \A i \in Images \ {j} : images'[i] = images[i] /\ vm'[i] = vm[i],
               \A i \in Images \ {j} : art'[i] = art[i],
               \A i \in Images \ {j} : fate'[i] = fate[i],
               excused' \in {excused, excused \union {j}},
               UNCHANGED <<downloads, tasks>> \/ \E t \in Tasks : TaskNew(t, j) /\ tasks'[t].image = j,
               CallOver(c) \/ \E pc : CallAt(c, pc)
        PROVE  Others(j)
    <2>1. \A i \in Images \ {j} : downloads'[i] = downloads[i]
      BY <1>3 DEF TaskNew, DownloadsInv, TypeOK
    <2>2. \A t \in Tasks : \/ tasks'[t] = tasks[t]
                           \/ tasks[t].image \in {j, "none"} /\ tasks'[t].image \in {j, "none"}
      BY <1>3 DEF TaskNew, NoTask
    <2>3. \A d \in Calls : \/ calls'[d] = calls[d]
                           \/ calls[d].image \in {j, "none"} /\ calls'[d].image \in {j, "none"}
      BY <1>2, <1>3 DEF CallOver, CallAt, Idle
    <2> QED
      BY <1>3, <2>1, <2>2, <2>3, OthersParts
  <1>4. CASE StoreCopies(c)
    <2>1. UNCHANGED <<images, vm, downloads, tasks, fate, excused>>
      BY <1>4 DEF StoreCopies
    <2>2. CallAt(c, "copied") \/ CallAt(c, "undo")
      BY <1>4, StoreCopiesFacts
    <2>3. \A i \in Images \ {j} : art'[i] = art[i]
      BY <1>2, <1>4 DEF StoreCopies, DownloadsInv, TypeOK
    <2> QED
      BY <1>2, <1>3, <2>1, <2>2, <2>3
  <1>5. CASE StoreRemoves(c)
    <2>1. UNCHANGED <<images, vm, downloads, tasks, fate>> /\ excused' \in {excused, excused \union {j}}
      BY <1>2, <1>5 DEF StoreRemoves
    <2>2. CallOver(c) \/ CallAt(c, "removed")
      BY <1>5, StoreRemovesFacts
    <2>3. \A i \in Images \ {j} : art'[i] = art[i]
      BY <1>2, <1>5 DEF StoreRemoves, DownloadsInv, TypeOK
    <2> QED
      BY <1>2, <1>3, <2>1, <2>2, <2>3
  <1>6. CASE Imported(c)
    <2>1. UNCHANGED <<vm, art, downloads, tasks, fate, excused>>
      BY <1>6 DEF Imported
    <2>2. \/ CallAt(c, "save") /\ images' = [images EXCEPT ![j] = "available"]
          \/ CallAt(c, "undo") /\ UNCHANGED images
      BY <1>2, <1>6, ImportedFacts
    <2>3. \A i \in Images \ {j} : images'[i] = images[i]
      BY <2>2 DEF DownloadsInv, TypeOK
    <2> QED
      BY <1>2, <1>3, <2>1, <2>2, <2>3
  <1>7. CASE Removed(c)
    <2>1. UNCHANGED <<art, downloads, tasks, fate, excused>>
      BY <1>7 DEF Removed
    <2>2. /\ CallAt(c, "save")
          /\ \/ images' = [images EXCEPT ![j] = "none"] /\ UNCHANGED vm
             \/ Update(j, "downloading")
      BY <1>2, <1>7, RemovedFacts
    <2>3. \A i \in Images \ {j} : images'[i] = images[i] /\ vm'[i] = vm[i]
      BY <2>2, UpdateFacts DEF DownloadsInv, TypeOK
    <2> QED
      BY <1>2, <1>3, <2>1, <2>2, <2>3
  <1>8. CASE MachineMade(c)
    <2>1. UNCHANGED <<art, downloads, tasks, fate>>
      BY <1>8 DEF MachineMade
    <2>2. UNCHANGED images
      BY <1>8 DEF MachineMade
    <2>3. /\ CallAt(c, "save") \/ CallOver(c)
          /\ vm' = [vm EXCEPT ![j] = calls[c].seen] \/ UNCHANGED vm
          /\ excused' \in {excused, excused \union {j}}
      BY <1>2, <1>8, MachineMadeFacts
    <2>4. \A i \in Images \ {j} : vm'[i] = vm[i]
      BY <2>3 DEF DownloadsInv, TypeOK
    <2> QED
      BY <1>2, <1>3, <2>1, <2>2, <2>3, <2>4
  <1>9. CASE Exported(c)
    <2>1. CallOver(c) /\ UNCHANGED <<images, vm, art, downloads, tasks, fate, excused>>
      BY <1>9, ExportedFacts DEF Exported
    <2> QED
      BY <1>2, <1>3, <2>1
  <1>10. CASE \E ok \in BOOLEAN : CallSaved(c, ok)
    <2>1. PICK ok \in BOOLEAN : CallSaved(c, ok)
      BY <1>10
    <2>2. /\ UNCHANGED images
          /\ vm' = IF calls[c].op = "create" /\ ~ok THEN [vm EXCEPT ![j] = "none"] ELSE vm
          /\ CallAt(c, "undo") \/ CallOver(c)
          /\ (\E t \in Tasks : TaskNew(t, j) /\ tasks'[t].image = j) \/ UNCHANGED <<downloads, tasks>>
      BY <1>2, <2>1, CallContinuesFacts, FateTyped DEF CallSaved
    <2>3. \A i \in Images \ {j} : images'[i] = images[i] /\ vm'[i] = vm[i]
      BY <2>2 DEF DownloadsInv, TypeOK
    <2>4. UNCHANGED art /\ excused' \in {excused, excused \union {j}}
      BY <1>2, <2>1 DEF CallSaved, SaveEnds
    <2>5. \A i \in Images \ {j} : fate'[i] = fate[i]
      BY <1>2, <2>1 DEF CallSaved, DownloadsInv, TypeOK
    <2> QED
      BY <1>2, <1>3, <2>2, <2>3, <2>4, <2>5
  <1>11. CASE StartStep(c)
    <2>1. /\ UNCHANGED <<images, art, downloads, tasks, fate, excused>>
          /\ CallOver(c) \/ CallAt(c, "ran") \/ CallAt(c, "save")
          /\ vm' = [vm EXCEPT ![j] = "installing"] \/ UNCHANGED vm
      BY <1>2, <1>11, StartStepFacts
    <2>2. \A i \in Images \ {j} : vm'[i] = vm[i]
      BY <2>1 DEF DownloadsInv, TypeOK
    <2> QED
      BY <1>2, <1>3, <2>1, <2>2
  <1> QED
    BY <1>2, <1>4, <1>5, <1>6, <1>7, <1>8, <1>9, <1>10, <1>11 DEF CallNext

LEMMA StutterSame ==
    ASSUME DownloadsInv, UNCHANGED vars
    PROVE  (\A i \in Images : Same(i)) /\ QueueMoves("none")
  <1>1. \A w \in Calls \union Tasks : Waits(w)' <=> Waits(w)
    BY DEF vars, Waits
  <1>2. QueueMoves("none")
    BY <1>1, SameQueue DEF vars, DownloadsInv
  <1> QED
    BY <1>2 DEF vars, Same

-----------------------------------------------------------------------------
(* The task of an image is the one that downloads holds: OneTaskInv         *)

RetryOf(c, i) ==
    /\ images[i] # "available"
    /\ OfImage(i, "retry") = {c}
    /\ \A t \in TasksOf(i) : tasks[t].pc = "failed"
    /\ calls[c].pc = "save" => images[i] # "failed" /\ TasksOf(i) \subseteq Ahead(c)

ImportOf(c, i) ==
    /\ TasksOf(i) = {}
    /\ OfImage(i, "retry") = {}
    /\ images[i] \in {"none", "available"}
    /\ calls[c].pc = "undo" => images[i] = "none"

(* OneTaskInv for one image. *)
OneOf(i) ==
    i \notin excused =>
        /\ \A t \in TasksOf(i) :
              downloads[i] = t /\ (images[i] = "failed" => tasks[t].pc = "failed")
        /\ \A c \in OfImage(i, "retry") : RetryOf(c, i)
        /\ \A c \in OfImage(i, "import") : ImportOf(c, i)

OneAll == \A i \in Images : OneOf(i)

LEMMA OneParts == DownloadsInv => (OneTaskInv <=> OneAll)
  <1> SUFFICES ASSUME DownloadsInv PROVE OneTaskInv <=> OneAll
    OBVIOUS
  <1>1. \A c \in Calls : calls[c].op # "none" => calls[c].image \in Images
    BY DEF DownloadsInv, TypeOK, Call, Idle
  <1>2. \A t \in Tasks : Live(t) <=> tasks[t].image \in Images
    BY ConstantsAssumption DEF DownloadsInv, TypeOK, Task, NoTask, Live
  <1>3. ASSUME OneTaskInv, NEW i \in Images
        PROVE  OneOf(i)
    <2>1. \A t \in TasksOf(i) : Live(t)
      BY <1>2 DEF TasksOf
    <2> QED
      BY <1>3, <2>1 DEF OneTaskInv, RetryInv, ImportInv, OneOf, RetryOf, ImportOf, OfImage, TasksOf
  <1>4. ASSUME OneAll
        PROVE  OneTaskInv
    <2>1. ASSUME NEW t \in Tasks, Live(t), tasks[t].image \notin excused
          PROVE  /\ downloads[tasks[t].image] = t
                 /\ images[tasks[t].image] = "failed" => tasks[t].pc = "failed"
      BY <1>2, <1>4, <2>1 DEF OneAll, OneOf, TasksOf
    <2>2. RetryInv
      <3> SUFFICES ASSUME NEW c \in Calls, calls[c].op = "retry", calls[c].image \notin excused
                   PROVE  RetryOf(c, calls[c].image)
        BY DEF RetryInv, RetryOf
      <3> QED
        BY <1>1, <1>4 DEF OneAll, OneOf, OfImage
    <2>3. ImportInv
      <3> SUFFICES ASSUME NEW c \in Calls, calls[c].op = "import", calls[c].image \notin excused
                   PROVE  ImportOf(c, calls[c].image)
        BY DEF ImportInv, ImportOf
      <3> QED
        BY <1>1, <1>4 DEF OneAll, OneOf, OfImage
    <2> QED
      BY <2>1, <2>2, <2>3 DEF OneTaskInv
  <1> QED
    BY <1>3, <1>4 DEF OneAll

(* A step that takes neither a call nor a task of the image anywhere new. *)
LEMMA OneKept ==
    ASSUME DownloadsInv, NEW p, QueueMoves(p), NEW i \in Images, OneOf(i),
           i \notin excused' => i \notin excused,
           images'[i] \in {images[i], "none"},
           \A t \in Tasks : tasks'[t].image = i =>
              /\ tasks[t].image = i
              /\ tasks[t].pc = "failed" => tasks'[t].pc = "failed" /\ t # p
              /\ downloads'[i] = downloads[i],
           \A c \in Calls : calls'[c].image = i /\ calls'[c].op \in {"retry", "import"} =>
              /\ calls[c].image = i /\ calls[c].op = calls'[c].op
              /\ calls'[c].pc \in {calls[c].pc, "removed"}
    PROVE  OneOf(i)'
  <1> SUFFICES ASSUME i \notin excused' PROVE OneOf(i)'
    BY DEF OneOf
  <1>1. ASSUME NEW t \in TasksOf(i)'
        PROVE  /\ t \in TasksOf(i) /\ downloads'[i] = t
               /\ images'[i] = "failed" => tasks'[t].pc = "failed"
    BY DEF OneOf, TasksOf
  <1>2. ASSUME NEW c \in OfImage(i, "retry")'
        PROVE  RetryOf(c, i)'
    <2>1. c \in OfImage(i, "retry") /\ calls'[c].pc \in {calls[c].pc, "removed"}
      BY DEF OfImage
    <2>2. RetryOf(c, i)
      BY <2>1 DEF OneOf
    <2>3. OfImage(i, "retry")' = {c}
      BY <2>2 DEF RetryOf, OfImage
    <2>4. \A t \in TasksOf(i)' : tasks[t].pc = "failed" /\ tasks'[t].pc = "failed" /\ t # p
      BY <1>1, <2>2 DEF RetryOf, TasksOf
    <2>5. ASSUME calls'[c].pc = "save"
          PROVE  images'[i] # "failed" /\ TasksOf(i)' \subseteq Ahead(c)'
      <3>1. images[i] # "failed" /\ TasksOf(i) \subseteq Ahead(c)
        BY <2>1, <2>2, <2>5 DEF RetryOf
      <3>2. \A w \in Ahead(c) : w # p => w \in Ahead(c)'
        BY DEF QueueMoves, OfImage
      <3> QED
        BY <1>1, <2>4, <3>1, <3>2
    <2> QED
      BY <2>2, <2>3, <2>4, <2>5 DEF RetryOf
  <1>3. ASSUME NEW c \in OfImage(i, "import")'
        PROVE  ImportOf(c, i)'
    <2>1. c \in OfImage(i, "import") /\ calls'[c].pc \in {calls[c].pc, "removed"}
      BY DEF OfImage
    <2>2. ImportOf(c, i)
      BY <2>1 DEF OneOf
    <2>3. TasksOf(i)' = {} /\ OfImage(i, "retry")' = {}
      BY <1>1, <2>2 DEF ImportOf, OfImage
    <2> QED
      BY <2>1, <2>2, <2>3 DEF ImportOf
  <1> QED
    BY <1>1, <1>2, <1>3 DEF OneOf

LEMMA OneApart ==
    ASSUME DownloadsInv, NEW p, QueueMoves(p), NEW i \in Images, OneOf(i), Same(i),
           p \notin TasksOf(i)
    PROVE  OneOf(i)'
  BY OneKept DEF Same, TasksOf

LEMMA OneStep ==
    ASSUME DownloadsInv, DownloadsInv', OneTaskInv, NEW p, QueueMoves(p), NEW j \in Images, Others(j),
           p \in TasksOf(j) \union Calls \union {"none"},
           OneOf(j)'
    PROVE  OneTaskInv'
  <1>1. ASSUME NEW i \in Images, i # j
        PROVE  OneOf(i)'
    <2>1. p \notin TasksOf(i)
      <3>1. TasksOf(i) \subseteq Tasks /\ TasksOf(i) \intersect TasksOf(j) = {}
        BY <1>1 DEF TasksOf
      <3> QED
        BY <3>1, ConstantsAssumption
    <2> QED
      BY <1>1, <2>1, OneParts, OneApart DEF Others, OneAll
  <1>2. OneAll'
    BY <1>1 DEF OneAll
  <1>3. (DownloadsInv => (OneTaskInv <=> OneAll))'
    BY OneParts, PTL
  <1> QED
    BY <1>2, <1>3

(* A step of a task: it ends, it goes on, or its save failed. *)
LEMMA TaskMovesOn ==
    ASSUME DownloadsInv, presses' \in 0..MaxPresses, NEW t \in Tasks, TaskNext(t),
           tasks[t].image \notin excused'
    PROVE  /\ tasks[t].image \notin excused
           /\ \A u \in Tasks \ {t} : tasks'[u] = tasks[u]
           /\ \/ TaskOver(t) /\ UNCHANGED <<images, vm, art>>
              \/ /\ tasks[t].pc \notin {"last", "failed"} /\ tasks'[t].image = tasks[t].image
                 /\ UNCHANGED downloads
                 /\ \/ UNCHANGED <<images, vm>>
                    \/ \E a \in Transfer : Update(tasks[t].image, a)
                    \/ /\ Update(tasks[t].image, "available") /\ tasks'[t].pc = "last"
                       /\ tasks[t].pc = "back" /\ tasks[t].result = "ok" /\ UNCHANGED art
                    \/ Update(tasks[t].image, "failed") /\ tasks'[t].pc = "failed"
                 /\ tasks'[t].pc = "back" /\ tasks'[t].result = "ok" =>
                       \/ "iso" \in art'[tasks[t].image]
                       \/ tasks[t].pc = "back" /\ tasks[t].result = "ok" /\ UNCHANGED art
  <1>1. CASE TransferStep(t)
    BY <1>1, TransferFacts DEF TaskAt
  <1>2. CASE Record(t)
    BY <1>2, RecordFacts DEF TaskAt
  <1>3. CASE TaskRuns(t)
    BY <1>3, TaskRunsFacts DEF TaskAt
  <1>4. CASE Resumed(t) \/ Undone(t)
    BY <1>4, OutcomeFacts DEF TaskAt
  <1>5. ASSUME NEW ok \in BOOLEAN, TaskSaved(t, ok)
        PROVE  /\ tasks[t].image \notin excused /\ UNCHANGED <<images, vm, art>>
               /\ \/ TaskOver(t)
                  \/ tasks[t].pc = "first" /\ TaskAt(t, "place") /\ UNCHANGED downloads
    <2>1. ok /\ excused' = excused
      BY <1>5 DEF TaskSaved, SaveEnds
    <2> QED
      BY <1>5, <2>1, TaskContinuesFacts DEF TaskSaved
  <1>6. CASE \E ok \in BOOLEAN : TaskSaved(t, ok)
    BY <1>5, <1>6 DEF TaskAt, TaskOver
  <1> QED
    BY <1>1, <1>2, <1>3, <1>4, <1>6 DEF TaskNext

LEMMA TaskOne ==
    ASSUME DownloadsInv, presses' \in 0..MaxPresses, OneTaskInv, NEW t \in Tasks, TaskNext(t)
    PROVE  OneTaskInv'
  <1>1. PICK j \in Images : j = tasks[t].image
    BY TaskNextFacts
  <1>2. /\ DownloadsInv' /\ UNCHANGED calls /\ Others(j)
        /\ images[j] = "none" => images'[j] = "none"
    BY <1>1, TaskNextFacts, TaskOthers
  <1>3. PICK p \in {"none", t} : QueueMoves(p)
    BY TaskNextFacts
  <1>4. OneOf(j)
    BY OneParts DEF OneAll
  <1>5. t \in TasksOf(j)
    BY <1>1 DEF TasksOf
  <1>6. ASSUME j \notin excused'
        PROVE  OneOf(j)'
    <2>1. /\ j \notin excused
          /\ \A u \in Tasks \ {t} : tasks'[u] = tasks[u]
      BY <1>1, <1>6, TaskMovesOn
    <2>2. downloads[j] = t /\ \A u \in TasksOf(j) : u = t
      BY <1>4, <1>5, <2>1 DEF OneOf
    <2>3. CASE TaskOver(t) /\ UNCHANGED images
      <3>1. \A u \in Tasks : tasks'[u].image # j
        BY <2>1, <2>2, <2>3, ConstantsAssumption DEF TaskOver, TasksOf, NoTask
      <3> QED
        BY <1>2, <1>3, <1>4, <2>1, <2>3, <3>1, OneKept
    <2>4. CASE /\ tasks[t].pc # "failed" /\ tasks'[t].image = j /\ UNCHANGED downloads
               /\ images'[j] = "failed" => tasks'[t].pc = "failed"
      <3>1. OfImage(j, "retry") = {} /\ OfImage(j, "import") = {}
        BY <1>4, <1>5, <2>1, <2>4 DEF OneOf, RetryOf, ImportOf
      <3>2. OfImage(j, "retry")' = {} /\ OfImage(j, "import")' = {}
        BY <1>2, <3>1 DEF OfImage
      <3>3. \A u \in TasksOf(j)' : u = t
        BY <2>1, <2>2 DEF TasksOf
      <3> QED
        BY <2>2, <2>4, <3>2, <3>3 DEF OneOf
    <2>5. \/ TaskOver(t) /\ UNCHANGED images
          \/ /\ tasks[t].pc # "failed" /\ tasks'[t].image = j /\ UNCHANGED downloads
             /\ \/ UNCHANGED images
                \/ \E a \in Transfer : Update(j, a)
                \/ Update(j, "available") /\ tasks'[t].pc = "last"
                \/ Update(j, "failed") /\ tasks'[t].pc = "failed"
      BY <1>1, <1>6, TaskMovesOn
    <2>6. images[j] = "failed" => tasks[t].pc = "failed"
      BY <1>4, <1>5, <2>1 DEF OneOf
    <2>7. (\E a \in Transfer : Update(j, a)) \/ Update(j, "available") => images'[j] # "failed"
      <3>1. ASSUME NEW a \in Transfer \union {"available"}, Update(j, a)
            PROVE  images'[j] # "failed"
        <4>1. images'[j] \in {"none", a}
          BY <3>1, UpdateFacts
        <4> QED
          BY <4>1 DEF Transfer
      <3> QED
        BY <3>1
    <2> QED
      BY <2>3, <2>4, <2>5, <2>6, <2>7
  <1>7. OneOf(j)'
    BY <1>6 DEF OneOf
  <1>8. p \in TasksOf(j) \union Calls \union {"none"}
    BY <1>3, <1>5
  <1> QED
    BY <1>2, <1>3, <1>7, <1>8, OneStep

(* Nothing is done yet with an image whose fate is "new". *)
LEMMA NewImage ==
    ASSUME DownloadsInv, FateInv, NEW i \in Images, fate[i] = "new"
    PROVE  /\ Untouched(i) /\ TasksOf(i) = {} /\ vm[i] = "none" /\ images[i] = "none"
           /\ \A c \in Calls : calls[c].image # i
  BY DEF FateInv, Untouched, Unlisted, TasksOf

LEMMA ButtonOne ==
    ASSUME DownloadsInv, presses' \in 0..MaxPresses, FateInv, OneTaskInv, NEW c \in Calls,
           NEW i \in Images, ButtonNext(c, i)
    PROVE  OneTaskInv'
  <1>1. DownloadsInv' /\ QueueMoves("none")
    BY RetryFacts, DeleteFacts, ExportFacts, ImportFacts, ReferFacts, MakeFacts, DropFacts
       DEF ButtonNext
  <1>2. Others(i) /\ OneOf(i)
    BY ButtonOthers, OneParts DEF OneAll
  <1>3. /\ \A t \in Tasks : tasks'[t].image = tasks[t].image /\ tasks'[t].pc = tasks[t].pc
        /\ UNCHANGED downloads /\ \A d \in Calls \ {c} : calls'[d] = calls[d]
        /\ calls'[c].image = i
    <2>1. \A t \in Tasks : tasks'[t].image = tasks[t].image /\ tasks'[t].pc = tasks[t].pc
      BY RetryFacts, DeleteFacts, ExportFacts, ImportFacts, ReferFacts, MakeFacts, DropFacts
         DEF ButtonNext
    <2>2. \E op, pc : CallNew(c, op, i, pc)
      BY RetryFacts, DeleteFacts, ExportFacts, ImportFacts, ReferFacts, MakeFacts, DropFacts
         DEF ButtonNext
    <2>3. UNCHANGED downloads
      BY MakeFacts, DropFacts DEF ButtonNext, Retry, Delete, Export, Import, addOCIReference
    <2> QED
      BY <2>1, <2>2, <2>3 DEF CallNew
  <1>4. TasksOf(i)' = TasksOf(i) /\ "none" \notin Tasks
    BY <1>3, ConstantsAssumption DEF TasksOf
  <1>5. CASE Retry(c, i)
    <2>1. CallNew(c, "retry", i, "remove") /\ images[i] = "failed" /\ UNCHANGED images
      BY <1>5, RetryFacts DEF Retry
    <2>2. excused' = IF OfImage(i, "retry") # {} THEN excused \union {i} ELSE excused
      BY <1>5 DEF Retry
    <2>3. ASSUME i \notin excused'
          PROVE  OneOf(i)'
      <3>1. i \notin excused /\ OfImage(i, "retry") = {}
        BY <2>2, <2>3
      <3>2. OfImage(i, "retry")' = {c}
        BY <1>3, <2>1, <3>1 DEF CallNew, OfImage
      <3>3. \A t \in TasksOf(i) : downloads[i] = t /\ tasks[t].pc = "failed"
        BY <1>2, <2>1, <3>1 DEF OneOf
      <3>4. \A t \in TasksOf(i)' : downloads'[i] = t /\ tasks'[t].pc = "failed"
        BY <1>3, <1>4, <3>3 DEF TasksOf
      <3>5. RetryOf(c, i)'
        BY <2>1, <3>2, <3>4 DEF RetryOf, CallNew
      <3>6. OfImage(i, "import")' = {}
        <4>1. OfImage(i, "import") = {}
          BY <1>2, <2>1, <3>1 DEF OneOf, ImportOf
        <4> QED
          BY <1>3, <2>1, <4>1 DEF CallNew, OfImage
      <3> QED
        BY <3>2, <3>4, <3>5, <3>6 DEF OneOf
    <2>4. OneOf(i)'
      BY <2>3 DEF OneOf
    <2> QED
      BY <1>1, <1>2, <2>4, OneStep
  <1>6. CASE Import(c, i) \/ addOCIReference(c, i)
    <2>1. TasksOf(i) = {} /\ \A d \in Calls : calls[d].image # i
      BY <1>6, NewImage DEF Import, addOCIReference
    <2>2. /\ calls'[c].op \in {"import", "refer"} /\ calls'[c].pc # "undo"
          /\ calls'[c].op = "import" => images'[i] = "none"
      <3>1. CASE Import(c, i)
        BY <3>1, ImportFacts, NewImage DEF Import, CallNew
      <3>2. CASE addOCIReference(c, i)
        BY <3>2, ReferFacts DEF CallNew
      <3> QED
        BY <1>6, <3>1, <3>2
    <2>3. OfImage(i, "retry")' = {} /\ OfImage(i, "import")' \subseteq {c}
      BY <1>3, <2>1, <2>2 DEF OfImage
    <2>4. calls'[c].op = "import" => ImportOf(c, i)'
      BY <1>4, <2>1, <2>2, <2>3 DEF ImportOf
    <2>5. OneOf(i)'
      BY <1>4, <2>1, <2>3, <2>4 DEF OneOf, OfImage
    <2> QED
      BY <1>1, <1>2, <2>5, OneStep
  <1>7. CASE Delete(c, i) \/ Export(c, i) \/ MakeButton(c, i) \/ DropButton(c, i)
    <2>1. calls'[c].op \notin {"retry", "import"}
      BY <1>7, DeleteFacts, ExportFacts, MakeFacts, DropFacts DEF CallNew
    <2>2. UNCHANGED <<images, excused>>
      BY <1>7, MakeFacts, DropFacts DEF Delete, Export
    <2>3. OneOf(i)'
      BY <1>1, <1>2, <1>3, <1>4, <2>1, <2>2, OneKept
    <2> QED
      BY <1>1, <1>2, <2>3, OneStep
  <1> QED
    BY <1>5, <1>6, <1>7 DEF ButtonNext

LEMMA DownloadOne ==
    ASSUME DownloadsInv, presses' \in 0..MaxPresses, FateInv, OneTaskInv, NEW t \in Tasks,
           NEW i \in Images, Download(t, i)
    PROVE  OneTaskInv'
  <1>1. /\ DownloadsInv' /\ QueueMoves("none") /\ UNCHANGED calls
        /\ TaskNew(t, i) /\ tasks'[t].image = i
    BY DownloadFacts
  <1>2. TasksOf(i) = {} /\ \A c \in Calls : calls'[c].image # i
    BY <1>1, NewImage DEF Download
  <1>3. TasksOf(i)' = {t}
    BY <1>1, <1>2 DEF TaskNew, TasksOf
  <1>4. downloads'[i] = t /\ images'[i] = "downloading"
    BY <1>1 DEF TaskNew, Download, DownloadsInv, TypeOK
  <1>5. OneOf(i)'
    BY <1>2, <1>3, <1>4 DEF OneOf, OfImage
  <1> QED
    BY <1>1, <1>5, OneStep, DownloadOthers

LEMMA CallOne ==
    ASSUME DownloadsInv, presses' \in 0..MaxPresses, FateInv, OneTaskInv, NEW c \in Calls,
           CallNext(c)
    PROVE  OneTaskInv'
  <1>0. DownloadsInv'
    BY CallNextInv
  <1>1. PICK j \in Images : j = calls[c].image
    BY CallOthers
  <1>2. Others(j) /\ OneOf(j)
    BY <1>1, CallOthers, OneParts DEF OneAll
  <1>3. c \notin Tasks /\ "none" \notin Tasks
    BY ConstantsAssumption
  <1>4. ASSUME QueueMoves("none"), OneOf(j)'
        PROVE  OneTaskInv'
    BY <1>0, <1>2, <1>4, OneStep
  <1>5. ASSUME QueueMoves("none"), UNCHANGED tasks, UNCHANGED downloads,
               images'[j] \in {images[j], "none"}, j \notin excused' => j \notin excused,
               \/ CallOver(c)
               \/ \E pc : CallAt(c, pc) /\ (calls[c].op \in {"retry", "import"} => pc = "removed")
        PROVE  OneTaskInv'
    <2>1. \A d \in Calls : calls'[d].image = j /\ calls'[d].op \in {"retry", "import"} =>
              /\ calls[d].image = j /\ calls[d].op = calls'[d].op
              /\ calls'[d].pc \in {calls[d].pc, "removed"}
      BY <1>1, <1>5 DEF CallOver, CallAt, Idle
    <2>2. OneOf(j)'
      BY <1>2, <1>3, <1>5, <2>1, OneKept
    <2> QED
      BY <1>4, <1>5, <2>2
  <1>6. ASSUME calls[c].op = "import", calls[c].pc \in {"copy", "copied"}, UNCHANGED tasks,
               QueueMoves("none"), \E pc : CallAt(c, pc),
               \/ UNCHANGED images
               \/ calls'[c].pc = "save" /\ images' = [images EXCEPT ![j] = "available"]
        PROVE  OneTaskInv'
    <2>1. Alone(c)
      BY <1>6 DEF FateInv
    <2>2. TasksOf(j)' = {} /\ \A d \in Calls \ {c} : calls'[d].image # j
      BY <1>1, <1>6, <2>1 DEF Alone, TasksOf, CallAt
    <2>3. OfImage(j, "retry")' = {} /\ OfImage(j, "import")' = {c}
      BY <1>1, <1>6, <2>2 DEF CallAt, OfImage
    <2>4. images[j] = "none" /\ j \in DOMAIN images
      BY <1>1, <2>1 DEF Alone, DownloadsInv, TypeOK
    <2>5. ImportOf(c, j)'
      BY <1>6, <2>2, <2>3, <2>4 DEF ImportOf
    <2>6. OneOf(j)'
      BY <2>2, <2>3, <2>5 DEF OneOf
    <2> QED
      BY <1>4, <1>6, <2>6
  <1>7. CASE StoreCopies(c)
    <2>1. /\ QueueMoves("none") /\ UNCHANGED tasks /\ calls[c].op = "import"
          /\ CallAt(c, "copied") \/ CallAt(c, "undo")
      BY <1>7, StoreCopiesFacts
    <2>2. UNCHANGED images /\ calls[c].pc = "copy"
      BY <1>7 DEF StoreCopies
    <2> QED
      BY <1>6, <2>1, <2>2
  <1>8. CASE StoreRemoves(c)
    <2>1. /\ QueueMoves("none") /\ UNCHANGED tasks
          /\ CallOver(c) \/ (CallAt(c, "removed") /\ calls[c].op # "import")
      BY <1>8, StoreRemovesFacts
    <2>2. UNCHANGED <<images, downloads>> /\ (j \notin excused' => j \notin excused)
      BY <1>8 DEF StoreRemoves
    <2> QED
      BY <1>5, <2>1, <2>2
  <1>9. CASE Imported(c)
    <2>1. /\ QueueMoves("none") /\ UNCHANGED tasks /\ calls[c].op = "import"
          /\ \/ CallAt(c, "save") /\ images' = [images EXCEPT ![j] = "available"]
             \/ CallAt(c, "undo") /\ UNCHANGED images
      BY <1>1, <1>9, ImportedFacts
    <2>2. calls[c].pc = "copied"
      BY <1>9 DEF Imported
    <2> QED
      BY <1>6, <2>1, <2>2 DEF CallAt
  <1>10. CASE Removed(c)
    <2>1. /\ QueueMoves("none") /\ UNCHANGED tasks /\ CallAt(c, "save")
          /\ \/ calls[c].op = "delete" /\ images' = [images EXCEPT ![j] = "none"]
             \/ calls[c].op = "retry" /\ Update(j, "downloading")
      BY <1>1, <1>10, RemovedFacts
    <2>2. UNCHANGED <<downloads, excused>> /\ calls[c].pc = "removed"
      BY <1>10 DEF Removed
    <2>3. CASE calls[c].op = "delete"
      <3>1. images'[j] = "none"
        BY <2>1, <2>3 DEF DownloadsInv, TypeOK
      <3> QED
        BY <1>5, <2>1, <2>2, <2>3, <3>1
    <2>4. CASE calls[c].op = "retry"
      <3>1. images'[j] \notin {"available", "failed"}
        <4>1. images'[j] \in {"none", "downloading"}
          BY <2>1, <2>4, UpdateFacts
        <4> QED
          BY <4>1
      <3>2. ASSUME j \notin excused
            PROVE  OneOf(j)'
        <4>1. c \in OfImage(j, "retry")
          BY <1>1, <2>4 DEF OfImage
        <4>2. RetryOf(c, j)
          BY <1>2, <3>2, <4>1 DEF OneOf
        <4>3. OfImage(j, "retry")' = {c}
          BY <1>1, <2>1, <2>4, <4>2 DEF RetryOf, OfImage, CallAt
        <4>4. OfImage(j, "import")' = {}
          <5>1. OfImage(j, "import") = {}
            BY <1>2, <3>2, <4>1 DEF OneOf, ImportOf
          <5> QED
            BY <1>1, <2>1, <2>4, <5>1 DEF OfImage, CallAt
        <4>5. TasksOf(j)' = TasksOf(j) /\ \A t \in TasksOf(j) : tasks'[t].pc = "failed" /\ downloads'[j] = t
          BY <1>2, <2>1, <2>2, <3>2, <4>2 DEF RetryOf, OneOf, TasksOf
        <4>6. TasksOf(j)' \subseteq Ahead(c)'
          <5>1. \A t \in TasksOf(j) : t \in Tasks /\ Waits(t) /\ t # "none"
            BY <1>3, <4>2 DEF RetryOf, TasksOf, Waits
          <5>2. ~Waits(c) /\ Waits(c)'
            BY <1>3, <2>1, <2>2 DEF Waits, CallAt
          <5> QED
            BY <2>1, <4>5, <5>1, <5>2 DEF QueueMoves
        <4>7. RetryOf(c, j)'
          BY <3>1, <4>3, <4>5, <4>6 DEF RetryOf
        <4> QED
          BY <3>1, <4>3, <4>4, <4>5, <4>7 DEF OneOf
      <3>3. OneOf(j)'
        BY <2>2, <3>2 DEF OneOf
      <3> QED
        BY <1>4, <2>1, <3>3
    <2> QED
      BY <2>1, <2>3, <2>4
  <1>11. CASE MachineMade(c)
    <2>1. /\ QueueMoves("none") /\ UNCHANGED tasks /\ calls[c].op \in {"create", "clone"}
          /\ CallAt(c, "save") \/ CallOver(c)
          /\ excused' \in {excused, excused \union {j}}
      BY <1>1, <1>11, MachineMadeFacts
    <2>2. UNCHANGED <<images, downloads>>
      BY <1>11 DEF MachineMade
    <2> QED
      BY <1>5, <2>1, <2>2
  <1>12. CASE Exported(c)
    <2>1. /\ QueueMoves("none") /\ UNCHANGED tasks /\ CallOver(c)
          /\ UNCHANGED <<images, downloads, excused>>
      BY <1>12, ExportedFacts DEF Exported
    <2> QED
      BY <1>5, <2>1
  <1>13. ASSUME NEW ok \in BOOLEAN, CallSaved(c, ok)
         PROVE  OneTaskInv'
    <2>1. /\ QueueMoves(c) /\ Ahead(c) = {} /\ UNCHANGED images /\ calls[c].pc = "save"
          /\ CallOver(c) \/ ~ok
          /\ \/ calls[c].op = "retry" /\ \E t \in Tasks : TaskNew(t, j) /\ tasks'[t].image = j
             \/ calls[c].op # "retry" /\ UNCHANGED <<downloads, tasks>>
      BY <1>1, <1>13, CallContinuesFacts, FateTyped DEF CallSaved
    <2>2. excused' = IF ok THEN excused ELSE excused \union {j}
      BY <1>1, <1>13 DEF CallSaved, SaveEnds
    <2>3. ASSUME j \notin excused'
          PROVE  OneOf(j)'
      <3>1. j \notin excused /\ CallOver(c)
        BY <2>1, <2>2, <2>3
      <3>2. \A d \in Calls : calls'[d].image = j => d # c /\ calls'[d] = calls[d]
        BY <1>1, <3>1, ConstantsAssumption DEF CallOver, Idle
      <3>3. CASE calls[c].op # "retry" /\ UNCHANGED <<downloads, tasks>>
        BY <1>2, <1>3, <2>1, <3>1, <3>2, <3>3, OneKept
      <3>4. CASE calls[c].op = "retry"
        <4>1. c \in OfImage(j, "retry")
          BY <1>1, <3>4 DEF OfImage
        <4>2. RetryOf(c, j) /\ OfImage(j, "import") = {}
          BY <1>2, <3>1, <4>1 DEF OneOf, ImportOf
        <4>3. TasksOf(j) = {} /\ images[j] # "failed"
          BY <2>1, <4>2 DEF RetryOf
        <4>4. OfImage(j, "retry")' = {} /\ OfImage(j, "import")' = {}
          BY <3>2, <4>2 DEF RetryOf, OfImage
        <4>5. PICK t \in Tasks : TaskNew(t, j)
          BY <2>1, <3>4
        <4>6. TasksOf(j)' \subseteq {t} /\ downloads'[j] = t
          BY <4>3, <4>5 DEF TaskNew, TasksOf, DownloadsInv, TypeOK
        <4> QED
          BY <2>1, <4>3, <4>4, <4>6 DEF OneOf
      <3> QED
        BY <2>1, <3>3, <3>4
    <2>4. OneOf(j)'
      BY <2>3 DEF OneOf
    <2> QED
      BY <1>0, <1>2, <2>1, <2>4, OneStep
  <1>14. CASE StartStep(c)
    <2>1. /\ QueueMoves("none") /\ UNCHANGED tasks /\ calls[c].op = "start"
          /\ CallOver(c) \/ CallAt(c, "ran") \/ CallAt(c, "save")
          /\ UNCHANGED <<images, downloads, excused>>
      BY <1>1, <1>14, StartStepFacts
    <2> QED
      BY <1>5, <2>1
  <1> QED
    BY <1>7, <1>8, <1>9, <1>10, <1>11, <1>12, <1>13, <1>14 DEF CallNext

LEMMA OneNext == DownloadsInv /\ FateInv /\ OneTaskInv /\ [Next]_vars => OneTaskInv'
  <1> SUFFICES ASSUME DownloadsInv, FateInv, OneTaskInv, [Next]_vars PROVE OneTaskInv'
    OBVIOUS
  <1>0. DownloadsInv' /\ (DownloadsInv => (OneTaskInv <=> OneAll))'
    BY DownloadsNext, OneParts, PTL
  <1>1. ASSUME NEW p \in {"none"}, QueueMoves(p), \A i \in Images : Same(i)
        PROVE  OneTaskInv'
    <2>1. \A i \in Images : OneOf(i)'
      BY <1>1, ConstantsAssumption, OneParts, OneApart DEF OneAll, TasksOf
    <2> QED
      BY <1>0, <2>1 DEF OneAll
  <1>2. CASE UNCHANGED vars
    BY <1>1, <1>2, StutterSame
  <1>3. CASE Next
    <2>1. CASE \E t \in Tasks, i \in Images : Download(t, i)
      BY <1>3, <2>1, NextCases, DownloadOne
    <2>2. ASSUME NEW i \in Images, Cancel(i)
          PROVE  OneTaskInv'
      BY <1>1, <1>3, <2>2, NextCases, CancelSame, CancelStepFacts
    <2>3. CASE \E c \in Calls, i \in Images : ButtonNext(c, i)
      BY <1>3, <2>3, NextCases, ButtonOne
    <2>4. CASE \E t \in Tasks : TaskNext(t)
      BY <1>3, <2>4, NextCases, TaskOne
    <2>5. CASE \E c \in Calls : CallNext(c)
      BY <1>3, <2>5, NextCases, CallOne
    <2>6. CASE Relaunch
      <3>1. /\ \A t \in Tasks : tasks'[t].image = "none"
            /\ \A c \in Calls : calls'[c].image = "none"
        BY <2>6, RelaunchFacts DEF NoTask, Idle
      <3>2. \A i \in Images : OneOf(i)'
        BY <3>1, ConstantsAssumption DEF OneOf, TasksOf, OfImage
      <3> QED
        BY <1>0, <3>2 DEF OneAll
    <2> QED
      BY <1>3, <2>1, <2>2, <2>3, <2>4, <2>5, <2>6, NextCases
  <1> QED
    BY <1>2, <1>3

LEMMA OneInit == Init => OneTaskInv
  <1> SUFFICES ASSUME Init PROVE OneTaskInv
    OBVIOUS
  <1>1. \A t \in Tasks : ~Live(t)
    BY DEF Init, Live
  <1>2. \A c \in Calls : calls[c].op = "none"
    BY DEF Init, Idle
  <1> QED
    BY <1>1, <1>2 DEF OneTaskInv, RetryInv, ImportInv

(* LiveIsCancellable: unless a step failed or two retries overlapped, a task
   that runs is the one that Cancel and Delete reach through downloads[id], and
   the only one of its image. *)
THEOREM LiveIsCancellableTheorem == Spec => []LiveIsCancellable
  <1>1. DownloadsInv /\ OneTaskInv => LiveIsCancellable
    <2> SUFFICES ASSUME DownloadsInv, OneTaskInv, NEW t \in Tasks, Live(t),
                        tasks[t].image \notin excused
                 PROVE  /\ downloads[tasks[t].image] = t
                        /\ \A u \in Tasks \ {t} : tasks[u].image # tasks[t].image
      BY DEF LiveIsCancellable
    <2>1. PICK i \in Images : i = tasks[t].image
      BY DEF DownloadsInv, TypeOK, Live, Task
    <2>2. \A u \in Tasks : tasks[u].image = i => Live(u)
      BY ConstantsAssumption DEF Live, NoTask
    <2> QED
      BY <2>1, <2>2 DEF OneTaskInv
  <1> QED
    BY <1>1, DownloadsInit, DownloadsNext, FateInit, FateNext, OneInit, OneNext, PTL DEF Spec

-----------------------------------------------------------------------------
(* What is shown as available has its file: DiskInv                         *)

(* DiskInv for one image. *)
DiskOf(i) ==
    /\ Followed(i) =>
          /\ (\E list \in Lists : list.images[i] = "available") => images[i] = "available"
          /\ images[i] = "available" =>
                "iso" \in art[i] /\ \A t \in TasksOf(i) : tasks[t].pc = "last"
          /\ \A t \in TasksOf(i) :
                tasks[t].pc = "back" /\ tasks[t].result = "ok" => "iso" \in art[i]
    /\ \A c \in Calls : calls[c].image = i /\ calls[c].pc = "copied" => "iso" \in art[i]

DiskAll == \A i \in Images : DiskOf(i)

LEMMA DiskParts == DownloadsInv => (DiskInv <=> DiskAll)
  <1> SUFFICES ASSUME DownloadsInv PROVE DiskInv <=> DiskAll
    OBVIOUS
  <1>1. \A c \in Calls : calls[c].pc = "copied" => calls[c].image \in Images
    BY CallFields DEF DownloadsInv
  <1>2. \A t \in Tasks : tasks[t].pc = "back" => tasks[t].image \in Images
    BY TaskFields DEF DownloadsInv
  <1> QED
    BY <1>1, <1>2 DEF DiskInv, DiskAll, DiskOf, TasksOf

(* What has to be shown of an image after a step. *)
LEMMA DiskClose ==
    ASSUME DownloadsInv', Lists' \subseteq Lists \union {Snapshot}, NEW i \in Images,
           Followed(i)' =>
              /\ (\E list \in Lists : list.images[i] = "available") => images'[i] = "available"
              /\ images'[i] = "available" =>
                    /\ "iso" \in art'[i]
                    /\ \A t \in Tasks : tasks'[t].image = i => tasks'[t].pc = "last"
              /\ \A t \in Tasks :
                    /\ tasks'[t].image = i /\ tasks'[t].pc = "back" /\ tasks'[t].result = "ok"
                    => "iso" \in art'[i],
           \A c \in Calls : calls'[c].image = i /\ calls'[c].pc = "copied" => "iso" \in art'[i]
    PROVE  DiskOf(i)'
  <1>1. Snapshot.images[i] = "available" => images'[i] = "available"
    BY SnapshotShows
  <1> QED
    BY <1>1 DEF DiskOf, TasksOf

LEMMA DiskApart ==
    ASSUME DownloadsInv, DownloadsInv', NEW p, QueueMoves(p), NEW i \in Images, DiskOf(i), Same(i)
    PROVE  DiskOf(i)'
  <1>1. Lists' \subseteq Lists \union {Snapshot}
    BY DEF QueueMoves
  <1>2. Followed(i)' => Followed(i)
    BY DEF Followed, Same
  <1>3. \A c \in Calls : calls'[c].image = i => calls'[c] = calls[c] /\ calls[c].image = i
    BY DEF Same
  <1>4. \A t \in Tasks : tasks'[t].image = i =>
           t \in TasksOf(i) /\ tasks'[t].pc = tasks[t].pc /\ tasks'[t].result = tasks[t].result
    BY DEF Same, TasksOf
  <1>5. images'[i] = images[i] /\ art'[i] = art[i]
    BY DEF Same
  <1> QED
    BY <1>1, <1>2, <1>3, <1>4, <1>5, DiskClose DEF DiskOf

LEMMA DiskStep ==
    ASSUME DownloadsInv, DownloadsInv', DiskInv, NEW p, QueueMoves(p), NEW j \in Images, Others(j),
           DiskOf(j)'
    PROVE  DiskInv'
  <1>1. DiskAll'
    BY DiskParts, DiskApart DEF Others, DiskAll
  <1>2. (DownloadsInv => (DiskInv <=> DiskAll))'
    BY DiskParts, PTL
  <1> QED
    BY <1>1, <1>2

LEMMA TaskDisk ==
    ASSUME DownloadsInv, presses' \in 0..MaxPresses, FateInv, OneTaskInv, DiskInv,
           NEW t \in Tasks, TaskNext(t)
    PROVE  DiskInv'
  <1>1. PICK j \in Images : j = tasks[t].image
    BY TaskNextFacts
  <1>2. DownloadsInv' /\ UNCHANGED <<calls, fate>> /\ Others(j)
    BY <1>1, TaskNextFacts, TaskOthers
  <1>3. PICK p \in {"none", t} : QueueMoves(p)
    BY TaskNextFacts
  <1>4. OneOf(j) /\ DiskOf(j) /\ t \in TasksOf(j)
    BY <1>1, OneParts, DiskParts DEF OneAll, DiskAll, TasksOf
  <1>5. \A c \in Calls : calls'[c].image = j => calls'[c].pc # "copied"
    BY <1>1, <1>2 DEF FateInv, Alone
  <1>6. ASSUME Followed(j)'
        PROVE  /\ (\E list \in Lists : list.images[j] = "available") => images'[j] = "available"
               /\ images'[j] = "available" =>
                    /\ "iso" \in art'[j]
                    /\ \A u \in Tasks : tasks'[u].image = j => tasks'[u].pc = "last"
               /\ \A u \in Tasks :
                    /\ tasks'[u].image = j /\ tasks'[u].pc = "back" /\ tasks'[u].result = "ok"
                    => "iso" \in art'[j]
    <2>1. /\ Followed(j) /\ j \notin excused /\ j \notin excused'
          /\ \A u \in Tasks \ {t} : tasks'[u] = tasks[u]
      BY <1>1, <1>2, <1>6, TaskMovesOn DEF Followed
    <2>2. \A u \in TasksOf(j) : u = t
      BY <1>4, <2>1 DEF OneOf
    <2>3. \A u \in Tasks : tasks'[u].image = j => u = t
      BY <2>1, <2>2 DEF TasksOf
    <2>4. CASE TaskOver(t) /\ UNCHANGED <<images, vm, art>>
      <3>1. \A u \in Tasks : tasks'[u].image # j
        BY <2>3, <2>4, ConstantsAssumption DEF TaskOver, NoTask
      <3> QED
        BY <1>4, <2>1, <2>4, <3>1 DEF DiskOf
    <2>5. CASE /\ tasks[t].pc \notin {"last", "failed"}
               /\ \/ UNCHANGED <<images, vm>>
                  \/ \E a \in Transfer : Update(j, a)
                  \/ /\ Update(j, "available") /\ tasks'[t].pc = "last"
                     /\ tasks[t].pc = "back" /\ tasks[t].result = "ok" /\ UNCHANGED art
                  \/ Update(j, "failed") /\ tasks'[t].pc = "failed"
               /\ tasks'[t].pc = "back" /\ tasks'[t].result = "ok" =>
                     \/ "iso" \in art'[j]
                     \/ tasks[t].pc = "back" /\ tasks[t].result = "ok" /\ UNCHANGED art
      <3>1. images[j] # "available" /\ \A list \in Lists : list.images[j] # "available"
        BY <1>4, <2>1, <2>5 DEF DiskOf
      <3>2. images'[j] = "available" =>
               /\ tasks'[t].pc = "last" /\ tasks[t].pc = "back" /\ tasks[t].result = "ok"
               /\ UNCHANGED art
        <4>1. ASSUME NEW a \in Transfer \union {"failed"}, Update(j, a)
              PROVE  images'[j] # "available"
          <5>1. images'[j] \in {"none", a}
            BY <4>1, UpdateFacts
          <5> QED
            BY <5>1 DEF Transfer
        <4> QED
          BY <2>5, <3>1, <4>1
      <3>3. tasks[t].pc = "back" /\ tasks[t].result = "ok" => "iso" \in art[j]
        BY <1>4, <2>1 DEF DiskOf
      <3> QED
        BY <2>3, <2>5, <3>1, <3>2, <3>3
    <2> QED
      BY <1>1, <2>1, <2>4, <2>5, TaskMovesOn
  <1>7. DiskOf(j)'
    BY <1>2, <1>3, <1>5, <1>6, DiskClose DEF QueueMoves
  <1> QED
    BY <1>2, <1>3, <1>7, DiskStep

LEMMA ButtonDisk ==
    ASSUME DownloadsInv, presses' \in 0..MaxPresses, FateInv, DiskInv, NEW c \in Calls,
           NEW i \in Images, ButtonNext(c, i)
    PROVE  DiskInv'
  <1>1. /\ DownloadsInv' /\ QueueMoves("none")
        /\ \A t \in Tasks : /\ tasks'[t].image = tasks[t].image /\ tasks'[t].pc = tasks[t].pc
                            /\ tasks'[t].result = tasks[t].result
    BY RetryFacts, DeleteFacts, ExportFacts, ImportFacts, ReferFacts, MakeFacts, DropFacts
       DEF ButtonNext
  <1>2. Others(i) /\ DiskOf(i)
    BY ButtonOthers, DiskParts DEF DiskAll
  <1>3. UNCHANGED art
    BY MakeFacts, DropFacts DEF ButtonNext, Retry, Delete, Export, Import, addOCIReference
  <1>4. calls'[c].pc # "copied" /\ \A d \in Calls \ {c} : calls'[d] = calls[d]
    BY RetryFacts, DeleteFacts, ExportFacts, ImportFacts, ReferFacts, MakeFacts, DropFacts
       DEF ButtonNext, CallNew
  <1>5. \A d \in Calls : calls'[d].image = i /\ calls'[d].pc = "copied" => "iso" \in art'[i]
    BY <1>2, <1>3, <1>4 DEF DiskOf
  <1>6. ASSUME Followed(i)'
        PROVE  /\ (\E list \in Lists : list.images[i] = "available") => images'[i] = "available"
               /\ images'[i] = "available" =>
                    /\ "iso" \in art'[i]
                    /\ \A t \in Tasks : tasks'[t].image = i => tasks'[t].pc = "last"
               /\ \A t \in Tasks :
                    /\ tasks'[t].image = i /\ tasks'[t].pc = "back" /\ tasks'[t].result = "ok"
                    => "iso" \in art'[i]
    <2>1. CASE Import(c, i) \/ addOCIReference(c, i)
      <3>1. fate[i] = "new" /\ images'[i] \in {images[i], "remote"}
        BY <2>1 DEF Import, addOCIReference, DownloadsInv, TypeOK
      <3>2. images'[i] # "available" /\ TasksOf(i) = {} /\ Unlisted(i)
        BY <3>1, NewImage DEF Untouched
      <3> QED
        BY <1>1, <3>2 DEF Unlisted, TasksOf
    <2>2. CASE Retry(c, i) \/ Export(c, i) \/ MakeButton(c, i) \/ DropButton(c, i)
      <3>1. UNCHANGED <<images, fate>> /\ (i \in excused => i \in excused')
        BY <2>2, MakeFacts, DropFacts DEF Retry, Export
      <3>2. Followed(i)
        BY <1>6, <3>1 DEF Followed
      <3> QED
        BY <1>1, <1>2, <1>3, <3>1, <3>2 DEF DiskOf, TasksOf
    <2>3. CASE Delete(c, i)
      BY <1>6, <2>3 DEF Delete, Followed, DownloadsInv, TypeOK
    <2> QED
      BY <2>1, <2>2, <2>3 DEF ButtonNext
  <1>7. DiskOf(i)'
    BY <1>1, <1>5, <1>6, DiskClose DEF QueueMoves
  <1> QED
    BY <1>1, <1>2, <1>7, DiskStep

LEMMA DownloadDisk ==
    ASSUME DownloadsInv, presses' \in 0..MaxPresses, FateInv, DiskInv, NEW t \in Tasks,
           NEW i \in Images, Download(t, i)
    PROVE  DiskInv'
  <1>1. /\ DownloadsInv' /\ QueueMoves("none") /\ UNCHANGED calls
        /\ TaskNew(t, i) /\ tasks'[t].pc = "created"
    BY DownloadFacts
  <1>2. /\ TasksOf(i) = {} /\ Unlisted(i)
        /\ \A c \in Calls : calls'[c].image # i
    BY <1>1, NewImage DEF Download, Untouched
  <1>3. images'[i] = "downloading"
    BY DEF Download, DownloadsInv, TypeOK
  <1>4. \A u \in Tasks : tasks'[u].image = i => u = t
    BY <1>1, <1>2 DEF TaskNew, TasksOf
  <1>5. DiskOf(i)'
    BY <1>1, <1>2, <1>3, <1>4, DiskClose DEF QueueMoves, Unlisted
  <1> QED
    BY <1>1, <1>5, DiskStep, DownloadOthers

LEMMA CallDisk ==
    ASSUME DownloadsInv, presses' \in 0..MaxPresses, FateInv, OneTaskInv, DiskInv,
           NEW c \in Calls, CallNext(c)
    PROVE  DiskInv'
  <1>0. DownloadsInv'
    BY CallNextInv
  <1>1. PICK j \in Images : j = calls[c].image
    BY CallOthers
  <1>2. Others(j) /\ OneOf(j) /\ DiskOf(j)
    BY <1>1, CallOthers, OneParts, DiskParts DEF OneAll, DiskAll
  <1>3. \A d \in Calls \ {c} : calls[d].image = j => calls[d].pc # "copied"
    BY <1>1 DEF FateInv, Alone
  <1>4. ASSUME NEW p, QueueMoves(p), CallOver(c) \/ \E pc : CallAt(c, pc),
               calls'[c].pc = "copied" => "iso" \in art'[j],
               Followed(j)' => Followed(j),
               Followed(j) /\ j \notin excused' =>
                  /\ images[j] = "available" => images'[j] = "available" /\ art'[j] = art[j]
                  /\ images'[j] = "available" =>
                        /\ "iso" \in art'[j]
                        /\ \A t \in Tasks : tasks'[t].image = j =>
                              tasks[t].image = j /\ tasks'[t].pc = "last"
                  /\ \A t \in Tasks :
                        /\ tasks'[t].image = j /\ tasks'[t].pc = "back" /\ tasks'[t].result = "ok"
                        => "iso" \in art'[j]
        PROVE  DiskInv'
    <2>1. \A d \in Calls : calls'[d].image = j /\ calls'[d].pc = "copied" => "iso" \in art'[j]
      BY <1>3, <1>4 DEF CallOver, CallAt
    <2>2. DiskOf(j)'
      BY <1>0, <1>2, <1>4, <2>1, DiskClose DEF DiskOf, QueueMoves, Followed
    <2> QED
      BY <1>0, <1>2, <1>4, <2>2, DiskStep
  <1>5. ASSUME QueueMoves("none"), UNCHANGED <<images, art, fate, tasks>>,
               j \in excused => j \in excused',
               CallOver(c) \/ \E pc : CallAt(c, pc) /\ pc # "copied"
        PROVE  DiskInv'
    <2>1. Followed(j)' => Followed(j)
      BY <1>5 DEF Followed
    <2>2. calls'[c].pc # "copied"
      BY <1>5 DEF CallOver, CallAt, Idle
    <2>3. Followed(j) => /\ images[j] = "available" =>
                               "iso" \in art[j] /\ \A t \in Tasks : tasks[t].image = j => tasks[t].pc = "last"
                         /\ \A t \in Tasks :
                               /\ tasks[t].image = j /\ tasks[t].pc = "back" /\ tasks[t].result = "ok"
                               => "iso" \in art[j]
      BY <1>2 DEF DiskOf, TasksOf
    <2> QED
      BY <1>4, <1>5, <2>1, <2>2, <2>3
  (* An image that is being imported has no task and is not in the list. *)
  <1>6. ASSUME calls[c].pc \in {"copy", "copied"}
        PROVE  images[j] = "none" /\ \A t \in Tasks : tasks[t].image # j
    BY <1>1, <1>6 DEF FateInv, Alone
  <1>7. CASE StoreCopies(c)
    <2>1. /\ QueueMoves("none") /\ UNCHANGED tasks
          /\ \/ CallAt(c, "copied") /\ art' = [art EXCEPT ![j] = {"iso"}]
             \/ CallAt(c, "undo") /\ UNCHANGED art
      BY <1>1, <1>7, StoreCopiesFacts
    <2>2. UNCHANGED <<images, fate, excused>> /\ calls[c].pc = "copy"
      BY <1>7 DEF StoreCopies
    <2>3. calls'[c].pc = "copied" => "iso" \in art'[j]
      BY <2>1 DEF CallAt, DownloadsInv, TypeOK
    <2>4. Followed(j)' => Followed(j)
      BY <2>2 DEF Followed
    <2> QED
      BY <1>4, <1>6, <2>1, <2>2, <2>3, <2>4
  <1>8. CASE StoreRemoves(c)
    <2>1. /\ QueueMoves("none") /\ UNCHANGED tasks
          /\ calls[c].op \in {"import", "retry", "delete"}
          /\ calls[c].op = "import" => calls[c].pc = "undo"
          /\ CallOver(c) \/ CallAt(c, "removed")
      BY <1>8, StoreRemovesFacts
    <2>2. UNCHANGED <<images, fate>> /\ (j \in excused => j \in excused')
      BY <1>8 DEF StoreRemoves
    <2>3. Followed(j)' => Followed(j)
      BY <2>2 DEF Followed
    <2>4. calls'[c].pc # "copied"
      BY <2>1 DEF CallOver, CallAt, Idle
    <2>5. ASSUME Followed(j)
          PROVE  images[j] # "available" /\ \A t \in Tasks : tasks[t].image = j => tasks[t].pc = "failed"
      <3>1. calls[c].op # "delete"
        BY <1>1, <2>5 DEF Followed, FateInv, DeleteInv
      <3>2. CASE calls[c].op = "retry"
        BY <1>1, <1>2, <2>5, <3>2 DEF OneOf, OfImage, RetryOf, TasksOf, Followed
      <3>3. CASE calls[c].op = "import"
        BY <1>1, <1>2, <2>1, <2>5, <3>3 DEF OneOf, OfImage, ImportOf, TasksOf, Followed
      <3> QED
        BY <2>1, <3>1, <3>2, <3>3
    <2> QED
      BY <1>4, <2>1, <2>2, <2>3, <2>4, <2>5
  <1>9. CASE Imported(c)
    <2>1. /\ QueueMoves("none") /\ UNCHANGED tasks
          /\ \/ CallAt(c, "save") /\ images' = [images EXCEPT ![j] = "available"]
             \/ CallAt(c, "undo") /\ UNCHANGED images
      BY <1>1, <1>9, ImportedFacts
    <2>2. UNCHANGED <<art, fate, excused>> /\ calls[c].pc = "copied"
      BY <1>9 DEF Imported
    <2>3. "iso" \in art'[j]
      BY <1>1, <1>2, <2>2 DEF DiskOf
    <2>4. Followed(j)' => Followed(j)
      BY <2>2 DEF Followed
    <2> QED
      BY <1>4, <1>6, <2>1, <2>2, <2>3, <2>4
  <1>10. CASE Removed(c)
    <2>1. /\ QueueMoves("none") /\ UNCHANGED tasks /\ CallAt(c, "save")
          /\ calls[c].op = "delete" \/ (calls[c].op = "retry" /\ Update(j, "downloading"))
      BY <1>1, <1>10, RemovedFacts
    <2>2. UNCHANGED <<art, fate, excused>>
      BY <1>10 DEF Removed
    <2>3. Followed(j)' => Followed(j)
      BY <2>2 DEF Followed
    <2>4. ASSUME Followed(j)
          PROVE  /\ images[j] # "available" /\ images'[j] # "available"
                 /\ \A t \in Tasks : tasks[t].image = j => tasks[t].pc = "failed"
      <3>1. calls[c].op = "retry" /\ Update(j, "downloading")
        BY <1>1, <2>1, <2>4 DEF Followed, FateInv, DeleteInv
      <3>2. images[j] # "available" /\ \A t \in Tasks : tasks[t].image = j => tasks[t].pc = "failed"
        BY <1>1, <1>2, <2>4, <3>1 DEF OneOf, OfImage, RetryOf, TasksOf, Followed
      <3>3. images'[j] \in {"none", "downloading"}
        BY <3>1, UpdateFacts
      <3> QED
        BY <3>2, <3>3
    <2> QED
      BY <1>4, <2>1, <2>2, <2>3, <2>4 DEF CallAt
  <1>11. CASE MachineMade(c)
    <2>1. /\ QueueMoves("none") /\ UNCHANGED tasks
          /\ CallAt(c, "save") \/ CallOver(c)
          /\ excused' \in {excused, excused \union {j}}
      BY <1>1, <1>11, MachineMadeFacts
    <2>2. UNCHANGED <<images, art, fate>>
      BY <1>11 DEF MachineMade
    <2> QED
      BY <1>5, <2>1, <2>2
  <1>12. CASE Exported(c)
    <2>1. /\ QueueMoves("none") /\ UNCHANGED tasks /\ CallOver(c)
          /\ UNCHANGED <<images, art, fate, excused>>
      BY <1>12, ExportedFacts DEF Exported
    <2> QED
      BY <1>5, <2>1
  <1>13. ASSUME NEW ok \in BOOLEAN, CallSaved(c, ok)
         PROVE  DiskInv'
    <2>1. /\ QueueMoves(c) /\ UNCHANGED images
          /\ CallAt(c, "undo") \/ CallOver(c)
          /\ \/ /\ calls[c].op = "retry"
                /\ \E t \in Tasks : TaskNew(t, j) /\ tasks'[t].pc = "created"
             \/ calls[c].op # "retry" /\ UNCHANGED tasks
      BY <1>1, <1>13, CallContinuesFacts, FateTyped DEF CallSaved
    <2>2. /\ UNCHANGED art /\ (j \in excused => j \in excused')
          /\ fate' \in {fate, [fate EXCEPT ![j] = "gone"]}
      BY <1>1, <1>13 DEF CallSaved, SaveEnds
    <2>3. Followed(j)' => Followed(j)
      BY <2>2 DEF Followed, DownloadsInv, TypeOK
    <2>4. calls'[c].pc # "copied"
      BY <2>1 DEF CallOver, CallAt, Idle
    <2>5. CASE calls[c].op # "retry" /\ UNCHANGED tasks
      <3>1. Followed(j) => /\ images[j] = "available" =>
                                 /\ "iso" \in art[j]
                                 /\ \A t \in Tasks : tasks[t].image = j => tasks[t].pc = "last"
                           /\ \A t \in Tasks :
                                 /\ tasks[t].image = j /\ tasks[t].pc = "back" /\ tasks[t].result = "ok"
                                 => "iso" \in art[j]
        BY <1>2 DEF DiskOf, TasksOf
      <3> QED
        BY <1>4, <2>1, <2>2, <2>3, <2>4, <2>5, <3>1
    <2>6. CASE calls[c].op = "retry"
      <3>1. Followed(j) => /\ images[j] # "available"
                           /\ \A t \in Tasks : tasks[t].image = j => tasks[t].pc = "failed"
        BY <1>1, <1>2, <2>6 DEF OneOf, OfImage, RetryOf, TasksOf, Followed
      <3>2. PICK t \in Tasks : TaskNew(t, j) /\ tasks'[t].pc = "created"
        BY <2>1, <2>6
      <3>3. \A u \in Tasks : u = t \/ tasks'[u] = tasks[u]
        BY <3>2 DEF TaskNew
      <3>4. Followed(j) => \A u \in Tasks : tasks'[u].image = j => tasks'[u].pc # "back"
        BY <3>1, <3>2, <3>3
      <3> QED
        BY <1>4, <2>1, <2>2, <2>3, <2>4, <3>1, <3>4
    <2> QED
      BY <2>1, <2>5, <2>6
  <1>14. CASE StartStep(c)
    <2>1. /\ QueueMoves("none") /\ UNCHANGED tasks /\ calls[c].op = "start"
          /\ CallOver(c) \/ CallAt(c, "ran") \/ CallAt(c, "save")
          /\ UNCHANGED <<images, art, fate, excused>>
      BY <1>1, <1>14, StartStepFacts
    <2> QED
      BY <1>5, <2>1
  <1> QED
    BY <1>7, <1>8, <1>9, <1>10, <1>11, <1>12, <1>13, <1>14 DEF CallNext

LEMMA DiskNext == DownloadsInv /\ FateInv /\ OneTaskInv /\ DiskInv /\ [Next]_vars => DiskInv'
  <1> SUFFICES ASSUME DownloadsInv, FateInv, OneTaskInv, DiskInv, [Next]_vars PROVE DiskInv'
    OBVIOUS
  <1>0. DownloadsInv' /\ (DownloadsInv => (DiskInv <=> DiskAll))'
    BY DownloadsNext, DiskParts, PTL
  <1>1. ASSUME QueueMoves("none"), \A i \in Images : Same(i)
        PROVE  DiskInv'
    BY <1>0, <1>1, DiskParts, DiskApart DEF DiskAll
  <1>2. CASE UNCHANGED vars
    BY <1>1, <1>2, StutterSame
  <1>3. CASE Next
    <2>1. CASE \E t \in Tasks, i \in Images : Download(t, i)
      BY <1>3, <2>1, NextCases, DownloadDisk
    <2>2. ASSUME NEW i \in Images, Cancel(i)
          PROVE  DiskInv'
      BY <1>1, <1>3, <2>2, NextCases, CancelSame, CancelStepFacts
    <2>3. CASE \E c \in Calls, i \in Images : ButtonNext(c, i)
      BY <1>3, <2>3, NextCases, ButtonDisk
    <2>4. CASE \E t \in Tasks : TaskNext(t)
      BY <1>3, <2>4, NextCases, TaskDisk
    <2>5. CASE \E c \in Calls : CallNext(c)
      BY <1>3, <2>5, NextCases, CallDisk
    <2>6. CASE Relaunch
      <3>1. /\ \A t \in Tasks : tasks'[t].image = "none"
            /\ \A c \in Calls : calls'[c].image = "none"
            /\ Lists' \subseteq Lists \union {Snapshot}
        BY <2>6, RelaunchFacts DEF NoTask, Idle
      <3>2. Lists' \subseteq {json, Snapshot}
        BY <2>6 DEF Relaunch, Lists
      <3>3. UNCHANGED <<fate, excused>> /\ json \in Lists
        BY <2>6 DEF Relaunch, Lists
      <3>4. ASSUME NEW i \in Images
            PROVE  DiskOf(i)'
        <4>1. images'[i] = json.images[i] /\ (json.images[i] # "none" => art'[i] = art[i])
          BY <2>6 DEF Relaunch
        <4>2. Snapshot.images[i] = "available" => images'[i] = "available"
          BY <1>0, SnapshotShows
        <4>3. ASSUME Followed(i)', images'[i] = "available"
              PROVE  "iso" \in art'[i]
          <5>1. Followed(i)
            BY <3>3, <4>3 DEF Followed
          <5>2. DiskOf(i)
            BY DiskParts DEF DiskAll
          <5>3. json.images[i] = "available" /\ art'[i] = art[i]
            BY <4>1, <4>3
          <5> QED
            BY <3>3, <4>3, <5>1, <5>2, <5>3 DEF DiskOf
        <4>4. i # "none"
          BY ConstantsAssumption
        <4> QED
          BY <3>1, <3>2, <4>1, <4>2, <4>3, <4>4 DEF DiskOf, TasksOf
      <3> QED
        BY <1>0, <3>4 DEF DiskAll
    <2> QED
      BY <1>3, <2>1, <2>2, <2>3, <2>4, <2>5, <2>6, NextCases
  <1> QED
    BY <1>2, <1>3

LEMMA DiskInit == Init => DiskInv
  <1> SUFFICES ASSUME Init PROVE DiskInv
    OBVIOUS
  <1>1. \A i \in Images : ~Followed(i)
    BY DEF Init, Followed
  <1>2. \A c \in Calls : calls[c].pc # "copied"
    BY DEF Init, Idle
  <1>3. \A t \in Tasks : tasks[t].pc # "back"
    BY DEF Init, NoTask
  <1> QED
    BY <1>1, <1>2, <1>3 DEF DiskInv

(* AvailableIsOnDisk: what the list or library.json shows as available has its
   file, whatever was cancelled, retried or interrupted by a crash, but for an
   image being deleted, or one of whose steps failed or overlapped. *)
THEOREM AvailableIsOnDiskTheorem == Spec => []AvailableIsOnDisk
  <1>1. DownloadsInv /\ FateInv /\ DiskInv => AvailableIsOnDisk
    <2> SUFFICES ASSUME DownloadsInv, FateInv, DiskInv, NEW i \in Images, i \notin excused,
                        fate[i] \notin {"doomed", "gone"},
                        images[i] = "available" \/ json.images[i] = "available"
                 PROVE  "iso" \in art[i]
      BY DEF AvailableIsOnDisk
    <2>1. json \in Lists
      BY DEF Lists
    <2>2. fate[i] # "new"
      BY <2>1 DEF FateInv, Untouched, Unlisted
    <2>3. Followed(i)
      BY <2>2 DEF Followed, DownloadsInv, TypeOK
    <2> QED
      BY <2>1, <2>3 DEF DiskInv
  <1> QED
    BY <1>1, DownloadsInit, DownloadsNext, FateInit, FateNext, OneInit, OneNext, DiskInit, DiskNext,
       PTL DEF Spec

-----------------------------------------------------------------------------
(* A machine fits the state of its image: FollowInv                         *)

(* FollowInv for one image. *)
FollowOf(i) ==
    Followed(i) => /\ vm[i] # "none" => Fits(vm[i], images[i])
                   /\ \A list \in Lists : Agrees(list, i)

LEMMA FollowParts == FollowInv <=> \A i \in Images : FollowOf(i)
  BY DEF FollowInv, FollowOf

(* What has to be shown of an image after a step: a save takes what is shown. *)
LEMMA FollowClose ==
    ASSUME DownloadsInv', Lists' \subseteq Lists \union {Snapshot}, NEW i \in Images,
           Followed(i)' => /\ \A list \in Lists : Agrees(list, i)
                           /\ vm'[i] # "none" => Fits(vm'[i], images'[i])
    PROVE  FollowOf(i)'
  <1> SUFFICES ASSUME Followed(i)'
               PROVE  /\ vm'[i] # "none" => Fits(vm'[i], images'[i])
                      /\ \A list \in Lists' : Agrees(list, i)
    BY DEF FollowOf, Agrees
  <1>1. Agrees(Snapshot, i)
    BY SnapshotShows DEF Agrees, Fits, Transfer
  <1> QED
    BY <1>1

(* An image that is not touched, or only followed by its machine. *)
LEMMA FollowStep ==
    ASSUME DownloadsInv, DownloadsInv', FollowInv, NEW p, QueueMoves(p), NEW j \in Images, Others(j),
           Followed(j)' => /\ \A list \in Lists : Agrees(list, j)
                           /\ vm'[j] # "none" => Fits(vm'[j], images'[j])
    PROVE  FollowInv'
  <1>1. Lists' \subseteq Lists \union {Snapshot}
    BY DEF QueueMoves
  <1>2. ASSUME NEW i \in Images
        PROVE  FollowOf(i)'
    <2>1. CASE i = j
      BY <1>1, <2>1, FollowClose
    <2>2. CASE i # j
      <3>1. Same(i) /\ FollowOf(i)
        BY <2>2, FollowParts DEF Others
      <3>2. Followed(i)' => Followed(i)
        BY <3>1 DEF Followed, Same
      <3> QED
        BY <1>1, <3>1, <3>2, FollowClose DEF FollowOf, Same
    <2> QED
      BY <2>1, <2>2
  <1> QED
    BY <1>2 DEF FollowInv, FollowOf

(* updateImage and updateMachinesForImage do so together. *)
LEMMA UpdateFollows ==
    ASSUME DownloadsInv, NEW j \in Images, NEW a, Update(j, a), vm[j] # "none" => Fits(vm[j], images[j])
    PROVE  vm'[j] # "none" => Fits(vm'[j], images'[j])
  BY UpdateFacts DEF Fits

LEMMA TaskFollow ==
    ASSUME DownloadsInv, presses' \in 0..MaxPresses, FollowInv, NEW t \in Tasks, TaskNext(t)
    PROVE  FollowInv'
  <1>1. PICK j \in Images : j = tasks[t].image
    BY TaskNextFacts
  <1>2. DownloadsInv' /\ UNCHANGED fate /\ Others(j)
    BY <1>1, TaskNextFacts, TaskOthers
  <1>3. PICK p \in {"none", t} : QueueMoves(p)
    BY TaskNextFacts
  <1>4. ASSUME Followed(j)'
        PROVE  /\ \A list \in Lists : Agrees(list, j)
               /\ vm'[j] # "none" => Fits(vm'[j], images'[j])
    <2>1. Followed(j)
      BY <1>1, <1>2, <1>4, TaskMovesOn DEF Followed
    <2>2. UNCHANGED <<images, vm>> \/ \E a : Update(j, a)
      BY <1>1, <1>4, TaskMovesOn DEF Followed
    <2>3. (vm[j] # "none" => Fits(vm[j], images[j])) /\ \A list \in Lists : Agrees(list, j)
      BY <2>1 DEF FollowInv
    <2> QED
      BY <2>2, <2>3, UpdateFollows
  <1> QED
    BY <1>2, <1>3, <1>4, FollowStep

LEMMA ButtonFollow ==
    ASSUME DownloadsInv, presses' \in 0..MaxPresses, FateInv, FollowInv, NEW c \in Calls,
           NEW i \in Images, ButtonNext(c, i)
    PROVE  FollowInv'
  <1>1. DownloadsInv' /\ QueueMoves("none") /\ Others(i)
    BY ButtonOthers, RetryFacts, DeleteFacts, ExportFacts, ImportFacts, ReferFacts, MakeFacts,
       DropFacts DEF ButtonNext
  <1>2. ASSUME Followed(i)'
        PROVE  /\ \A list \in Lists : Agrees(list, i)
               /\ vm'[i] # "none" => Fits(vm'[i], images'[i])
    <2>1. CASE Import(c, i) \/ addOCIReference(c, i)
      <3>1. fate[i] = "new" /\ UNCHANGED vm
        BY <2>1 DEF Import, addOCIReference
      <3> QED
        BY <3>1, NewImage DEF Untouched, Agrees
    <2>2. CASE Retry(c, i) \/ Export(c, i) \/ MakeButton(c, i) \/ DropButton(c, i)
      <3>1. UNCHANGED <<images, fate>> /\ (i \in excused => i \in excused')
        BY <2>2, MakeFacts, DropFacts DEF Retry, Export
      <3>2. vm'[i] \in {vm[i], "none"} \/ (vm'[i] = "ready" /\ vm[i] # "none")
        BY <2>2, MakeFacts, DropFacts DEF Retry, Export
      <3>3. Followed(i)
        BY <1>2, <3>1 DEF Followed
      <3> QED
        BY <3>1, <3>2, <3>3 DEF FollowInv, Fits
    <2>3. CASE Delete(c, i)
      BY <1>2, <2>3 DEF Delete, Followed, DownloadsInv, TypeOK
    <2> QED
      BY <2>1, <2>2, <2>3 DEF ButtonNext
  <1> QED
    BY <1>1, <1>2, FollowStep

LEMMA DownloadFollow ==
    ASSUME DownloadsInv, presses' \in 0..MaxPresses, FateInv, FollowInv, NEW t \in Tasks,
           NEW i \in Images, Download(t, i)
    PROVE  FollowInv'
  <1>1. DownloadsInv' /\ QueueMoves("none") /\ Others(i)
    BY DownloadFacts, DownloadOthers
  <1>2. fate[i] = "new" /\ UNCHANGED vm
    BY DEF Download
  <1>3. vm'[i] = "none" /\ \A list \in Lists : Agrees(list, i)
    BY <1>2, NewImage DEF Untouched, Agrees
  <1> QED
    BY <1>1, <1>3, FollowStep

LEMMA CallFollow ==
    ASSUME DownloadsInv, presses' \in 0..MaxPresses, FateInv, FollowInv, NEW c \in Calls,
           CallNext(c)
    PROVE  FollowInv'
  <1>0. DownloadsInv'
    BY CallNextInv
  <1>1. PICK j \in Images : j = calls[c].image
    BY CallOthers
  <1>2. Others(j)
    BY <1>1, CallOthers
  <1>3. ASSUME NEW p, QueueMoves(p), Followed(j)' => Followed(j),
               Followed(j) /\ (vm[j] # "none" => Fits(vm[j], images[j])) /\ j \notin excused' =>
                  (vm'[j] # "none" => Fits(vm'[j], images'[j]))
        PROVE  FollowInv'
    <2>1. Followed(j)' => /\ \A list \in Lists : Agrees(list, j)
                          /\ vm'[j] # "none" => Fits(vm'[j], images'[j])
      BY <1>3 DEF FollowInv, Followed
    <2> QED
      BY <1>0, <1>2, <1>3, <2>1, FollowStep
  <1>4. CASE StoreCopies(c) \/ StoreRemoves(c) \/ Exported(c)
    <2>1. QueueMoves("none")
      BY <1>4, StoreCopiesFacts, StoreRemovesFacts, ExportedFacts
    <2>2. UNCHANGED <<images, vm, fate>> /\ (j \in excused => j \in excused')
      BY <1>4 DEF StoreCopies, StoreRemoves, Exported
    <2>3. Followed(j)' => Followed(j)
      BY <2>2 DEF Followed
    <2> QED
      BY <1>3, <2>1, <2>2, <2>3
  <1>5. CASE Imported(c)
    <2>1. QueueMoves("none")
      BY <1>5, ImportedFacts
    <2>2. UNCHANGED <<vm, fate, excused>> /\ calls[c].pc = "copied"
      BY <1>5 DEF Imported
    <2>3. vm[j] = "none"
      BY <1>1, <2>2 DEF FateInv, Alone
    <2>4. Followed(j)' => Followed(j)
      BY <2>2 DEF Followed
    <2> QED
      BY <1>3, <2>1, <2>2, <2>3, <2>4
  <1>6. CASE Removed(c)
    <2>1. /\ QueueMoves("none")
          /\ calls[c].op = "delete" \/ Update(j, "downloading")
      BY <1>1, <1>6, RemovedFacts
    <2>2. UNCHANGED <<fate, excused>>
      BY <1>6 DEF Removed
    <2>3. Followed(j)' => Followed(j)
      BY <2>2 DEF Followed
    <2>4. calls[c].op = "delete" => ~Followed(j)
      BY <1>1 DEF FateInv, DeleteInv, Followed
    <2> QED
      BY <1>3, <2>1, <2>3, <2>4, UpdateFollows
  <1>7. CASE MachineMade(c)
    <2>1. /\ QueueMoves("none")
          /\ \/ /\ vm' = [vm EXCEPT ![j] = calls[c].seen]
                /\ excused' = IF Fits(calls[c].seen, images[j]) THEN excused
                              ELSE excused \union {j}
             \/ UNCHANGED <<vm, excused>>
      BY <1>1, <1>7, MachineMadeFacts
    <2>2. UNCHANGED <<images, fate>>
      BY <1>7 DEF MachineMade
    <2>3. Followed(j)' => Followed(j)
      BY <2>1, <2>2 DEF Followed
    <2>4. vm'[j] = vm[j] \/ Fits(vm'[j], images[j]) \/ j \in excused'
      BY <2>1 DEF DownloadsInv, TypeOK
    <2> QED
      BY <1>3, <2>1, <2>2, <2>3, <2>4
  <1>8. ASSUME NEW ok \in BOOLEAN, CallSaved(c, ok)
        PROVE  FollowInv'
    <2>1. /\ QueueMoves(c) /\ UNCHANGED images
          /\ vm' = IF calls[c].op = "create" /\ ~ok THEN [vm EXCEPT ![j] = "none"] ELSE vm
      BY <1>1, <1>8, CallContinuesFacts, FateTyped DEF CallSaved
    <2>2. /\ j \in excused => j \in excused'
          /\ fate' \in {fate, [fate EXCEPT ![j] = "gone"]}
      BY <1>1, <1>8 DEF CallSaved, SaveEnds
    <2>3. Followed(j)' => Followed(j)
      BY <2>2 DEF Followed, DownloadsInv, TypeOK
    <2>4. vm'[j] \in {vm[j], "none"}
      BY <2>1 DEF DownloadsInv, TypeOK
    <2> QED
      BY <1>3, <2>1, <2>3, <2>4
  <1>9. CASE StartStep(c)
    <2>1. /\ QueueMoves("none") /\ UNCHANGED <<images, fate, excused>>
          /\ \/ UNCHANGED vm
             \/ vm' = [vm EXCEPT ![j] = "installing"] /\ images[j] = "available"
      BY <1>1, <1>9, StartStepFacts
    <2>2. Followed(j)' => Followed(j)
      BY <2>1 DEF Followed
    <2>3. vm'[j] = vm[j] \/ Fits(vm'[j], images[j])
      BY <2>1 DEF DownloadsInv, TypeOK, Fits
    <2> QED
      BY <1>3, <2>1, <2>2, <2>3
  <1> QED
    BY <1>4, <1>5, <1>6, <1>7, <1>8, <1>9 DEF CallNext

LEMMA FollowNext == DownloadsInv /\ FateInv /\ FollowInv /\ [Next]_vars => FollowInv'
  <1> SUFFICES ASSUME DownloadsInv, FateInv, FollowInv, [Next]_vars PROVE FollowInv'
    OBVIOUS
  <1>0. DownloadsInv'
    BY DownloadsNext
  <1>1. ASSUME QueueMoves("none"), \A i \in Images : Same(i)
        PROVE  FollowInv'
    <2> SUFFICES ASSUME NEW i \in Images
                 PROVE  FollowOf(i)'
      BY DEF FollowInv, FollowOf
    <2>1. Lists' \subseteq Lists \union {Snapshot}
      BY <1>1 DEF QueueMoves
    <2>2. Followed(i)' => Followed(i)
      BY <1>1 DEF Followed, Same
    <2>3. vm'[i] = vm[i] /\ images'[i] = images[i]
      BY <1>1 DEF Same
    <2> QED
      BY <1>0, <2>1, <2>2, <2>3, FollowClose DEF FollowInv
  <1>2. CASE UNCHANGED vars
    BY <1>1, <1>2, StutterSame
  <1>3. CASE Next
    <2>1. CASE \E t \in Tasks, i \in Images : Download(t, i)
      BY <1>3, <2>1, NextCases, DownloadFollow
    <2>2. ASSUME NEW i \in Images, Cancel(i)
          PROVE  FollowInv'
      BY <1>1, <1>3, <2>2, NextCases, CancelSame, CancelStepFacts
    <2>3. CASE \E c \in Calls, i \in Images : ButtonNext(c, i)
      BY <1>3, <2>3, NextCases, ButtonFollow
    <2>4. CASE \E t \in Tasks : TaskNext(t)
      BY <1>3, <2>4, NextCases, TaskFollow
    <2>5. CASE \E c \in Calls : CallNext(c)
      BY <1>3, <2>5, NextCases, CallFollow
    <2>6. CASE Relaunch
      <3> SUFFICES ASSUME NEW i \in Images
                   PROVE  FollowOf(i)'
        BY DEF FollowInv, FollowOf
      <3>1. Lists' \subseteq Lists \union {Snapshot} /\ UNCHANGED <<fate, excused>>
        BY <2>6, RelaunchFacts DEF Relaunch
      <3>2. Followed(i)' => Followed(i)
        BY <3>1 DEF Followed
      <3>3. /\ images'[i] = json.images[i]
            /\ vm'[i] = IF json.vm[i] # "downloading" THEN json.vm[i]
                        ELSE IF json.images[i] = "none" THEN "failed" ELSE json.images[i]
        BY <2>6 DEF Relaunch
      <3>4. Agrees(json, i) => (vm'[i] # "none" => Fits(vm'[i], images'[i]))
        BY <3>3 DEF Agrees, Fits
      <3>5. json \in Lists
        BY DEF Lists
      <3> QED
        BY <1>0, <3>1, <3>2, <3>4, <3>5, FollowClose DEF FollowInv
    <2> QED
      BY <1>3, <2>1, <2>2, <2>3, <2>4, <2>5, <2>6, NextCases
  <1> QED
    BY <1>2, <1>3

LEMMA FollowInit == Init => FollowInv
  BY DEF Init, FollowInv, Followed

(* MachineFollowsImage: but for an image being deleted, or one of whose steps
   failed or overlapped, the newest machine of it fits its state at every moment:
   it is in that state, installing from it when it is available, or ready. *)
THEOREM MachineFollowsImageTheorem == Spec => []MachineFollowsImage
  <1>1. DownloadsInv /\ FateInv /\ FollowInv => MachineFollowsImage
    <2> SUFFICES ASSUME DownloadsInv, FateInv, FollowInv, NEW i \in Images, i \notin excused,
                        fate[i] \notin {"doomed", "gone"}, vm[i] # "none"
                 PROVE  Fits(vm[i], images[i])
      BY DEF MachineFollowsImage
    <2>1. fate[i] # "new"
      BY DEF FateInv, Untouched
    <2>2. Followed(i)
      BY <2>1 DEF Followed, DownloadsInv, TypeOK
    <2> QED
      BY <2>2 DEF FollowInv
  <1> QED
    BY <1>1, DownloadsInit, DownloadsNext, FateInit, FateNext, FollowInit, FollowNext, PTL DEF Spec

=============================================================================
