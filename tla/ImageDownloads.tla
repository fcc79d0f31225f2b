--------------------------- MODULE ImageDownloads ---------------------------
(***************************************************************************)
(* ImageLibraryModel with the ImageDownloadClient and the                  *)
(* ManagedImageStore: images are downloaded, cancelled, retried, imported, *)
(* exported and deleted, machines are made from them, cloned, started and  *)
(* ejected, and follow their download.  A download is a Task that awaits   *)
(* the LibraryStore, the ManagedImageStore and a URLSession; a button is a *)
(* call that awaits the first two; in between the main actor runs all the  *)
(* others.  The network, the stores and the checksum fail, and the app may *)
(* end at any time.                                                        *)
(***************************************************************************)
EXTENDS Naturals, Sequences

CONSTANTS
    Images,     \* identifiers of images; each is given once
    Tasks,      \* download tasks that live at the same time
    Calls,      \* buttons whose call has not returned
    MaxPresses  \* bound: how often the user does something

ASSUME ConstantsAssumption ==
    /\ "none" \notin Images \union Tasks
    /\ Tasks \intersect Calls = {}
    /\ MaxPresses \in Nat

VARIABLES
    images,     \* ImageLibraryModel.images: the availability of each image
    vm,         \* the provisioning state of a machine made from the image
    art,        \* the files in the directory of each image
    json,       \* library.json
    saves,      \* jobs of the LibraryStore actor, in order
    downloads,  \* ImageLibraryModel.downloads
    tasks,      \* the download tasks
    calls,      \* the calls in flight
    presses,    \* what the user has done so far, for the bound
    fate,       \* history: what became of each identifier
    excused     \* history: images one of whose operations failed or overlapped

vars == <<images, vm, art, json, saves, downloads, tasks, calls, presses, fate,
          excused>>

Transfer == {"downloading", "verifying"}
Availability == Transfer \union {"remote", "available", "failed"}

(* MachineProvisioningState: that of an available image is readyToInstall,
   which is called "available" here too. *)
Provisioning == Availability \union {"installing", "ready", "none"}

(* "created": the task has not run; "first", "last", "failed": persist() at
   the start, after the download, in the catch; "place": destinationURL;
   "fetch", "check": the URLSession has not, has delivered the file; "back":
   the continuation is resumed; "undo", "undone": removeImage in the catch. *)
TaskPC == {"created", "first", "place", "fetch", "check", "back", "last",
           "undo", "undone", "failed"}
Task == [image: Images, pc: TaskPC, cancelled: BOOLEAN, stop: BOOLEAN,
         result: {"none", "ok", "error", "cancelled"},
         pending: Seq(Transfer)]
NoTask == [image |-> "none", pc |-> "ended", cancelled |-> FALSE,
           stop |-> FALSE, result |-> "none", pending |-> <<>>]

(* "copy", "remove", "undo": the ManagedImageStore has the job; "copied",
   "removed": its result is on its way; "make": the files of a machine are
   made, or found; "ran": its runtime is started; "save": the LibraryStore has
   the job; "read": the export. *)
Call == [op: {"import", "refer", "retry", "delete", "export", "create", "discard",
              "clone", "start", "eject"},
         image: Images,
         pc: {"copy", "copied", "remove", "removed", "undo", "make", "ran", "save",
              "read"},
         seen: Provisioning]
Idle == [op |-> "none", image |-> "none", pc |-> "idle", seen |-> "none"]

Library == [images: [Images -> Availability \union {"none"}],
            vm: [Images -> Provisioning]]

TypeOK ==
    /\ images \in [Images -> Availability \union {"none"}]
    /\ vm \in [Images -> Provisioning]
    /\ art \in [Images -> SUBSET {"partial", "iso"}]
    /\ json \in Library
    /\ saves \in Seq([by: Calls \union Tasks, list: Library])
    /\ downloads \in [Images -> Tasks \union {"none"}]
    /\ tasks \in [Tasks -> Task \union {NoTask}]
    /\ calls \in [Calls -> Call \union {Idle}]
    /\ presses \in 0..MaxPresses
    /\ fate \in [Images -> {"new", "listed", "doomed", "gone"}]
    /\ excused \in SUBSET Images

Init ==
    /\ images = [i \in Images |-> "none"]
    /\ vm = [i \in Images |-> "none"]
    /\ art = [i \in Images |-> {}]
    /\ json = [images |-> images, vm |-> vm]
    /\ saves = <<>>
    /\ downloads = [i \in Images |-> "none"]
    /\ tasks = [t \in Tasks |-> NoTask]
    /\ calls = [c \in Calls |-> Idle]
    /\ presses = 0
    /\ fate = [i \in Images |-> "new"]
    /\ excused = {}

-----------------------------------------------------------------------------
(* Helpers of ImageLibraryModel                                             *)

Listed(i) == images[i] # "none"
Live(t) == tasks[t] # NoTask
OfImage(i, op) == {c \in Calls : calls[c].image = i /\ calls[c].op = op}

(* Mutant of updateImage: an image that is not in the list is put back. *)
MutantPutsBack(i, a) == [images EXCEPT ![i] = a]

(* updateImage and updateMachinesForImage: only what is listed. *)
updateImage(i, a) == IF Listed(i) THEN [images EXCEPT ![i] = a] ELSE images

(* Mutant of updateMachinesForImage: a machine does not learn of a failure. *)
MutantMachinesMiss(i, a) ==
    IF vm[i] # "none" /\ a # "failed" THEN [vm EXCEPT ![i] = a] ELSE vm

(* All machines of the image are set, whatever their state is. *)
updateMachinesForImage(i, a) ==
    IF vm[i] # "none" THEN [vm EXCEPT ![i] = a] ELSE vm

Update(i, a) ==
    /\ images' = updateImage(i, a)
    /\ vm' = updateMachinesForImage(i, a)

(* persist(): the lists are copied when the save is enqueued.  library.json is
   kept as the next launch reads it: a transfer was interrupted, so it failed,
   and a machine that was waiting for one takes the state of its image. *)
Snapshot ==
    [images |-> [i \in Images |-> IF images'[i] \in Transfer THEN "failed"
                                  ELSE images'[i]],
     vm |-> [i \in Images |-> IF vm'[i] \in Transfer THEN "downloading"
                              ELSE vm'[i]]]
Save(who) == [by |-> who, list |-> Snapshot]
Persist(who) == saves' = Append(saves, Save(who))

Step(t, pc) == tasks' = [tasks EXCEPT ![t].pc = pc]
Goto(c, pc) == calls' = [calls EXCEPT ![c].pc = pc]
End(c) == calls' = [calls EXCEPT ![c] = Idle]

Begin(c, op, i, pc, seen) ==
    /\ calls[c] = Idle
    /\ calls' = [calls EXCEPT ![c] =
                   [op |-> op, image |-> i, pc |-> pc, seen |-> seen]]

(* The task that beginDownload makes. *)
NewTask(i) == [image |-> i, pc |-> "created", cancelled |-> FALSE, stop |-> FALSE,
               result |-> "none", pending |-> <<>>]
beginDownload(t, i) ==
    /\ ~Live(t)
    /\ downloads' = [downloads EXCEPT ![i] = t]

(* Task.cancel(): the first time, the handler stops the URLSession's task if
   there is one. *)
Cancelled(i) ==
    [t \in Tasks |->
        IF t = downloads[i] /\ ~tasks[t].cancelled
        THEN [tasks[t] EXCEPT !.cancelled = TRUE,
                              !.stop = tasks[t].pc \in {"fetch", "check"}]
        ELSE tasks[t]]

-----------------------------------------------------------------------------
(* The buttons, up to their first await                                     *)

(* download(_:), from the catalog or from createMachine: the catalog's images
   have one checksum here, so an image that has not failed is returned. *)
Download(t, i) ==
    /\ fate[i] = "new"
    /\ \A j \in Images : images[j] \notin Transfer \union {"available"}
    /\ images' = [images EXCEPT ![i] = "downloading"]
    /\ beginDownload(t, i)
    /\ tasks' = [tasks EXCEPT ![t] = NewTask(i)]
    /\ fate' = [fate EXCEPT ![i] = "listed"]
    /\ UNCHANGED <<vm, art, json, saves, calls, excused>>

(* cancelDownload; the button is there while the image is downloading. *)
Cancel(i) ==
    /\ images[i] = "downloading"
    /\ downloads[i] # "none"
    /\ tasks' = Cancelled(i)
    /\ UNCHANGED <<images, vm, art, json, saves, downloads, calls, fate, excused>>

(* retryDownload; the button is there until the image has been updated, so a
   second press overlaps with the first. *)
Retry(c, i) ==
    /\ images[i] = "failed"
    /\ Begin(c, "retry", i, "remove", "none")
    /\ excused' = IF OfImage(i, "retry") # {} THEN excused \union {i} ELSE excused
    /\ UNCHANGED <<images, vm, art, json, saves, downloads, tasks, fate>>

(* removeImage, behind its guards. *)
Delete(c, i) ==
    /\ Listed(i)
    /\ OfImage(i, "export") = {}
    /\ vm[i] = "none"
    /\ tasks' = Cancelled(i)
    /\ Begin(c, "delete", i, "remove", "none")
    /\ fate' = [fate EXCEPT ![i] = "doomed"]
    /\ UNCHANGED <<images, vm, art, json, saves, downloads, excused>>

(* exportImage: exportingImageIDs are the exports in flight. *)
Export(c, i) ==
    /\ images[i] = "available"
    /\ OfImage(i, "export") = {}
    /\ Begin(c, "export", i, "read", "none")
    /\ UNCHANGED <<images, vm, art, json, saves, downloads, tasks, fate, excused>>

Import(c, i) ==
    /\ fate[i] = "new"
    /\ Begin(c, "import", i, "copy", "none")
    /\ fate' = [fate EXCEPT ![i] = "listed"]
    /\ UNCHANGED <<images, vm, art, json, saves, downloads, tasks, excused>>

addOCIReference(c, i) ==
    /\ fate[i] = "new"
    /\ Begin(c, "refer", i, "save", "none")
    /\ images' = [images EXCEPT ![i] = "remote"]
    /\ UNCHANGED vm
    /\ Persist(c)
    /\ fate' = [fate EXCEPT ![i] = "listed"]
    /\ UNCHANGED <<art, json, downloads, tasks, excused>>

(* createMachine copies the image, with its availability, before it awaits; a
   machine that boots its disk, not the installer, is ready: its preinstalled
   disk or archive is there, or its OCI image is pulled. *)
CreateMachine(c, i) ==
    /\ Listed(i)
    /\ vm[i] = "none" /\ OfImage(i, "create") = {}
    /\ \/ images[i] # "remote" /\ Begin(c, "create", i, "make", images[i])
       \/ images[i] \in {"available", "remote"} /\ Begin(c, "create", i, "make", "ready")
    /\ UNCHANGED <<images, vm, art, json, saves, downloads, tasks, fate, excused>>

(* startingMachineIDs: a start that has not got to the runtime, whose state
   then keeps the machine from being ejected, cloned and deleted. *)
Starting(i) == \E c \in OfImage(i, "start") : calls[c].pc # "save"

(* cloneMachine is given the machine, with its provisioning state. *)
CloneMachine(c, i) ==
    /\ vm[i] # "none"
    /\ ~Starting(i)
    /\ Begin(c, "clone", i, "make", vm[i])
    /\ UNCHANGED <<images, vm, art, json, saves, downloads, tasks, fate, excused>>

(* So is start(_:); the button asks canStart. *)
Start(c, i) ==
    /\ vm[i] \in {"available", "installing", "ready"}
    /\ ~Starting(i)
    /\ Begin(c, "start", i, "make", vm[i])
    /\ UNCHANGED <<images, vm, art, json, saves, downloads, tasks, fate, excused>>

(* ejectInstaller, also while the installer is downloaded. *)
Eject(c, i) ==
    /\ vm[i] \notin {"none", "ready"}
    /\ ~Starting(i)
    /\ Begin(c, "eject", i, "save", "none")
    /\ vm' = [vm EXCEPT ![i] = "ready"]
    /\ UNCHANGED images
    /\ Persist(c)
    /\ UNCHANGED <<art, json, downloads, tasks, fate, excused>>

(* deleteMachine, from the point where it takes the machine off the list; the
   files of machines are LibraryStorage's. *)
DeleteMachine(c, i) ==
    /\ vm[i] # "none"
    /\ OfImage(i, "create") = {}
    /\ ~Starting(i)
    /\ Begin(c, "discard", i, "save", "none")
    /\ vm' = [vm EXCEPT ![i] = "none"]
    /\ UNCHANGED images
    /\ Persist(c)
    /\ UNCHANGED <<art, json, downloads, tasks, fate, excused>>

-----------------------------------------------------------------------------
(* The ManagedImageStore actor: no job awaits                               *)

StoreCopies(c) ==
    /\ calls[c].pc = "copy"
    /\ \/ /\ art' = [art EXCEPT ![calls[c].image] = {"iso"}]
          /\ Goto(c, "copied")
       \/ Goto(c, "undo") /\ UNCHANGED art
    /\ UNCHANGED <<images, vm, json, saves, downloads, tasks, fate, excused>>

(* removeImage for a call; an error ends a delete, a retry goes on. *)
StoreRemoves(c) ==
    LET call == calls[c] IN
    /\ call.pc \in {"remove", "undo"}
    /\ \/ /\ art' = [art EXCEPT ![call.image] = {}]
          /\ IF call.pc = "undo" THEN End(c) ELSE Goto(c, "removed")
          /\ UNCHANGED excused
       \/ /\ IF call.op = "retry" THEN Goto(c, "removed") ELSE End(c)
          /\ excused' = excused \union {call.image}
          /\ UNCHANGED art
    /\ UNCHANGED <<images, vm, json, saves, downloads, tasks, fate>>

(* destinationURL and, without an await of the main actor, the beginning of
   ImageDownloadClient.download.  A task that is cancelled by now runs the
   cancellation handler with an empty box: the transfer is not stopped. *)
StorePlaces(t) ==
    /\ tasks[t].pc = "place"
    /\ \/ Step(t, "fetch")
       \/ tasks' = [tasks EXCEPT ![t].pc = "back", ![t].result = "error"]
    /\ UNCHANGED <<images, vm, art, json, saves, downloads, calls, fate, excused>>

(* try? removeImage in the catch of a cancelled download. *)
StoreUndoes(t) ==
    /\ tasks[t].pc = "undo"
    /\ \/ art' = [art EXCEPT ![tasks[t].image] = {}]
       \/ UNCHANGED art
    /\ Step(t, "undone")
    /\ UNCHANGED <<images, vm, json, saves, downloads, calls, fate, excused>>

-----------------------------------------------------------------------------
(* The URLSession and its delegate: one callback at a time for a task       *)

(* finish: the context is removed and the continuation resumed with result. *)
Finish(t, result) ==
    tasks' = [tasks EXCEPT ![t].pc = "back", ![t].result = result]

(* didWriteData: a job for the main actor.  One is pending at a time. *)
didWriteData(t) ==
    /\ tasks[t].pc = "fetch"
    /\ tasks[t].pending = <<>>
    /\ tasks' = [tasks EXCEPT ![t].pending = <<"downloading">>]
    /\ UNCHANGED <<images, vm, art, json, saves, downloads, calls, fate, excused>>

(* didFinishDownloadingTo, up to the checksum, or with a bad response; it
   makes the directory again if it is gone. *)
Received(t) ==
    /\ tasks[t].pc = "fetch"
    /\ \/ /\ tasks' = [tasks EXCEPT ![t].pc = "check",
                                     ![t].pending = Append(@, "verifying")]
          /\ art' = [art EXCEPT ![tasks[t].image] = @ \union {"partial"}]
       \/ Finish(t, "error") /\ UNCHANGED art
    /\ UNCHANGED <<images, vm, json, saves, downloads, calls, fate, excused>>

(* Mutant of Checked: the file stays where the transfer has left it. *)
MutantNotMoved(t) ==
    /\ tasks[t].pc = "check"
    /\ Finish(t, IF "partial" \in art[tasks[t].image] THEN "ok" ELSE "error")
    /\ UNCHANGED <<images, vm, art, json, saves, downloads, calls, fate, excused>>

(* Mutant of Checked: a file that is gone leaves the continuation waiting. *)
MutantNeverResumed(t) ==
    LET i == tasks[t].image IN
    /\ tasks[t].pc = "check"
    /\ "partial" \in art[i]
    /\ \/ art' = [art EXCEPT ![i] = {"iso"}] /\ Finish(t, "ok")
       \/ art' = [art EXCEPT ![i] = @ \ {"partial"}] /\ Finish(t, "error")
    /\ UNCHANGED <<images, vm, json, saves, downloads, calls, fate, excused>>

(* The rest of it: the checksum, and the move to the destination. *)
Checked(t) ==
    LET i == tasks[t].image IN
    /\ tasks[t].pc = "check"
    /\ IF "partial" \in art[i]
       THEN \/ art' = [art EXCEPT ![i] = {"iso"}] /\ Finish(t, "ok")
            \/ art' = [art EXCEPT ![i] = @ \ {"partial"}] /\ Finish(t, "error")
       ELSE Finish(t, "error") /\ UNCHANGED art
    /\ UNCHANGED <<images, vm, json, saves, downloads, calls, fate, excused>>

(* didCompleteWithError for a transfer that was stopped or that broke off; for
   one that has delivered its file the context is gone. *)
didCompleteWithError(t) ==
    /\ tasks[t].pc = "fetch"
    /\ Finish(t, IF tasks[t].stop THEN "cancelled" ELSE "error")
    /\ UNCHANGED <<images, vm, art, json, saves, downloads, calls, fate, excused>>

(* record(phase:): the delegate's job on the main actor. *)
Record(t) ==
    /\ tasks[t].pending # <<>>
    /\ Update(tasks[t].image, Head(tasks[t].pending))
    /\ tasks' = [tasks EXCEPT ![t].pending = Tail(@)]
    /\ UNCHANGED <<art, json, saves, downloads, calls, fate, excused>>

-----------------------------------------------------------------------------
(* The task of beginDownload after its awaits                               *)

TaskRuns(t) ==
    /\ tasks[t].pc = "created"
    /\ UNCHANGED <<images, vm>>
    /\ Persist(t)
    /\ Step(t, "first")
    /\ UNCHANGED <<art, json, downloads, calls, fate, excused>>

(* The catch of an error. *)
Catch(t, result) ==
    IF tasks[t].cancelled \/ result = "cancelled"
    THEN /\ Step(t, "undo")
         /\ UNCHANGED <<images, vm, saves>>
    ELSE /\ Update(tasks[t].image, "failed")
         /\ Persist(t)
         /\ Step(t, "failed")

(* The continuation runs after the delegate's jobs, which the main actor has
   been given before it. *)
Resumed(t) ==
    /\ tasks[t].pc = "back"
    /\ tasks[t].pending = <<>>
    /\ IF tasks[t].result = "ok"
       THEN /\ Update(tasks[t].image, "available")
            /\ Persist(t)
            /\ Step(t, "last")
       ELSE Catch(t, tasks[t].result)
    /\ UNCHANGED <<art, json, downloads, calls, fate, excused>>

Undone(t) ==
    /\ tasks[t].pc = "undone"
    /\ Update(tasks[t].image, "failed")
    /\ Persist(t)
    /\ Step(t, "failed")
    /\ UNCHANGED <<art, json, downloads, calls, fate, excused>>

(* Mutant of TaskEnds: downloads[id] keeps a task that has ended. *)
MutantKeepsTask(t) ==
    /\ tasks' = [tasks EXCEPT ![t] = NoTask]
    /\ UNCHANGED downloads

TaskEnds(t) ==
    /\ tasks' = [tasks EXCEPT ![t] = NoTask]
    /\ downloads' = [downloads EXCEPT ![tasks[t].image] = "none"]

-----------------------------------------------------------------------------
(* The calls after the store's answer                                       *)

(* importImage appends the image, unless its file cannot be read. *)
Imported(c) ==
    /\ calls[c].pc = "copied"
    /\ UNCHANGED vm
    /\ \/ /\ images' = [images EXCEPT ![calls[c].image] = "available"]
          /\ Persist(c)
          /\ Goto(c, "save")
       \/ Goto(c, "undo") /\ UNCHANGED <<images, saves>>
    /\ UNCHANGED <<art, json, downloads, tasks, fate, excused>>

(* Mutant of Removed: retryDownload does not wait for its save. *)
MutantRetryAtOnce(c) ==
    LET i == calls[c].image IN
    /\ calls[c].pc = "removed"
    /\ IF calls[c].op = "delete"
       THEN /\ images' = [images EXCEPT ![i] = "none"]
            /\ UNCHANGED <<vm, tasks, downloads>>
            /\ Persist(c)
            /\ Goto(c, "save")
       ELSE /\ Update(i, "downloading")
            /\ \E t \in Tasks :
                  /\ beginDownload(t, i)
                  /\ tasks' = [tasks EXCEPT ![t] = NewTask(i)]
            /\ UNCHANGED saves
            /\ End(c)
    /\ UNCHANGED <<art, json, fate, excused>>

(* The directory is removed: removeImage takes the image off the list,
   retryDownload shows it as downloading; both save. *)
Removed(c) ==
    LET i == calls[c].image IN
    /\ calls[c].pc = "removed"
    /\ IF calls[c].op = "delete"
       THEN images' = [images EXCEPT ![i] = "none"] /\ UNCHANGED vm
       ELSE Update(i, "downloading")
    /\ Persist(c)
    /\ Goto(c, "save")
    /\ UNCHANGED <<art, json, downloads, tasks, fate, excused>>

(* A machine can be so while its image is a, and listed: it waits for the image
   or has it, the installer is running from it, or it boots its own disk. *)
Fits(v, a) ==
    a # "none" /\ (v = a \/ v = "ready" \/ (v = "installing" /\ a = "available"))

(* createMachine appends its machine with what it saw of the image, cloneMachine
   with what it saw of the machine.  The new machine is the one that is followed
   from here, unless the one before is being started. *)
MachineMade(c) ==
    LET i == calls[c].image IN
    /\ calls[c].pc = "make" /\ calls[c].op # "start"
    /\ \/ /\ IF Starting(i) THEN UNCHANGED <<vm, excused>>
             ELSE /\ vm' = [vm EXCEPT ![i] = calls[c].seen]
                  /\ excused' = IF Fits(calls[c].seen, images[i]) THEN excused
                                ELSE excused \union {i}
          /\ UNCHANGED images
          /\ Persist(c)
          /\ Goto(c, "save")
       \/ End(c) /\ UNCHANGED <<images, vm, saves, excused>>
    /\ UNCHANGED <<art, json, downloads, tasks, fate>>

(* start(_:) has the files of the machine: it boots the installer if that is
   available, and a machine that was ready to install is installing. *)
Started(c) ==
    LET i == calls[c].image IN
    /\ calls[c].pc = "make" /\ calls[c].op = "start"
    /\ \/ /\ images[i] = "available" \/ calls[c].seen = "ready"
          /\ vm' = IF calls[c].seen = "available" /\ vm[i] # "none"
                   THEN [vm EXCEPT ![i] = "installing"] ELSE vm
          /\ Goto(c, "ran")
       \/ End(c) /\ UNCHANGED vm
    /\ UNCHANGED <<images, art, json, saves, downloads, tasks, fate, excused>>

(* record(runtimeState:machineID:) saves when the runtime is starting; what is
   awaited before may fail. *)
RuntimeRecorded(c) ==
    /\ calls[c].pc = "ran"
    /\ UNCHANGED <<images, vm>>
    /\ \/ Persist(c) /\ Goto(c, "save")
       \/ End(c) /\ UNCHANGED saves
    /\ UNCHANGED <<art, json, downloads, tasks, fate, excused>>

Exported(c) ==
    /\ calls[c].pc = "read"
    /\ End(c)
    /\ UNCHANGED <<images, vm, art, json, saves, downloads, tasks, fate, excused>>

-----------------------------------------------------------------------------
(* The LibraryStore actor, and the continuation of who asked for the save:  *)
(* the main actor is given the continuations in the order of the saves.     *)

Asker == Head(saves).by

(* The task goes on after its persist() returned, or threw. *)
TaskContinues(t, ok) ==
    CASE tasks[t].pc = "first" /\ ok ->
            Step(t, "place") /\ saves' = Tail(saves) /\ UNCHANGED <<images, vm, downloads>>
      [] tasks[t].pc = "failed" \/ (tasks[t].pc = "last" /\ ok) ->
            TaskEnds(t) /\ saves' = Tail(saves) /\ UNCHANGED <<images, vm>>
      [] OTHER -> /\ UNCHANGED downloads
                  /\ IF tasks[t].cancelled
                     THEN /\ Step(t, "undo")
                          /\ saves' = Tail(saves)
                          /\ UNCHANGED <<images, vm>>
                     ELSE /\ Update(tasks[t].image, "failed")
                          /\ saves' = Append(Tail(saves), Save(t))
                          /\ Step(t, "failed")

(* So does the call: a retry begins its download either way, a machine that is
   not saved is taken off the list, an import removes its file. *)
CallContinues(c, ok) ==
    LET call == calls[c] IN
    /\ saves' = Tail(saves)
    /\ vm' = IF call.op = "create" /\ ~ok THEN [vm EXCEPT ![call.image] = "none"]
             ELSE vm
    /\ IF call.op = "retry"
       THEN \E t \in Tasks :
               /\ beginDownload(t, call.image)
               /\ tasks' = [tasks EXCEPT ![t] = NewTask(call.image)]
       ELSE UNCHANGED <<downloads, tasks>>
    /\ IF call.op = "import" /\ ~ok THEN Goto(c, "undo") ELSE End(c)
    /\ UNCHANGED images

SaveNext ==
    /\ saves # <<>>
    /\ json' = Head(saves).list
    /\ IF Asker \in Tasks
       THEN TaskContinues(Asker, TRUE) /\ UNCHANGED <<calls, fate>>
       ELSE /\ CallContinues(Asker, TRUE)
            /\ fate' = IF calls[Asker].op = "delete"
                       THEN [fate EXCEPT ![calls[Asker].image] = "gone"] ELSE fate
    /\ UNCHANGED <<art, excused>>

SaveFails ==
    /\ saves # <<>>
    /\ IF Asker \in Tasks
       THEN TaskContinues(Asker, FALSE) /\ UNCHANGED calls
            /\ excused' = excused \union {tasks[Asker].image}
       ELSE CallContinues(Asker, FALSE)
            /\ excused' = excused \union {calls[Asker].image}
    /\ UNCHANGED <<json, art, fate>>

-----------------------------------------------------------------------------

(* The app ends, and is launched again: initialize() removes the directories
   that library.json does not list, shows an interrupted transfer as failed,
   gives the machines that wait for one the state of their image, and saves
   what it changed. *)
Relaunch ==
    /\ images' = json.images
    /\ vm' = [i \in Images |->
                IF json.vm[i] # "downloading" THEN json.vm[i]
                ELSE IF json.images[i] = "none" THEN "failed" ELSE json.images[i]]
    /\ art' = [i \in Images |-> IF json.images[i] = "none" THEN {} ELSE art[i]]
    /\ json' \in {json, Snapshot}
    /\ saves' = <<>>
    /\ downloads' = [i \in Images |-> "none"]
    /\ tasks' = [t \in Tasks |-> NoTask]
    /\ calls' = [c \in Calls |-> Idle]
    /\ UNCHANGED <<presses, fate, excused>>

Press ==
    /\ presses < MaxPresses
    /\ presses' = presses + 1
    /\ \/ \E t \in Tasks, i \in Images : Download(t, i)
       \/ \E i \in Images : Cancel(i)
       \/ \E c \in Calls, i \in Images :
             \/ Retry(c, i) \/ Delete(c, i) \/ Export(c, i)
             \/ Import(c, i) \/ addOCIReference(c, i)
             \/ CreateMachine(c, i) \/ DeleteMachine(c, i)
             \/ CloneMachine(c, i) \/ Start(c, i) \/ Eject(c, i)

Transferred(t) == (Received(t) \/ didCompleteWithError(t)) /\ UNCHANGED presses

Progress(t) == didWriteData(t) /\ UNCHANGED presses

Recorded(t) == Record(t) /\ UNCHANGED presses

TaskStep(t) ==
    /\ \/ TaskRuns(t) \/ StorePlaces(t) \/ Checked(t)
       \/ Resumed(t) \/ StoreUndoes(t) \/ Undone(t)
    /\ UNCHANGED presses

CallStep(c) ==
    /\ \/ StoreCopies(c) \/ StoreRemoves(c)
       \/ Imported(c) \/ Removed(c) \/ MachineMade(c) \/ Exported(c)
       \/ Started(c) \/ RuntimeRecorded(c)
    /\ UNCHANGED presses

SaveStep == (SaveNext \/ SaveFails) /\ UNCHANGED presses

Next ==
    \/ Press
    \/ \E t \in Tasks : \/ TaskStep(t) \/ Transferred(t) \/ Recorded(t)
                       \/ Progress(t)
    \/ \E c \in Calls : CallStep(c)
    \/ SaveStep
    \/ Relaunch

(* Tasks, actors and the URLSession go on; nobody must press a button, and the
   app need not end. *)
Fairness ==
    /\ \A t \in Tasks :
          WF_vars(TaskStep(t)) /\ WF_vars(Transferred(t)) /\ WF_vars(Recorded(t))
    /\ \A c \in Calls : WF_vars(CallStep(c))
    /\ WF_vars(SaveStep)

Spec == Init /\ [][Next]_vars /\ Fairness

-----------------------------------------------------------------------------
(* Properties                                                               *)

(* An image that the list, or library.json, shows as available has its file,
   whatever was cancelled, retried, exported or interrupted by a crash before:
   the file is in place before the availability is, and a failed image is
   shown as downloading before its file can come back.  Not so when the image
   is being deleted, when a step for it failed or when two retries overlapped. *)
AvailableIsOnDisk ==
    \A i \in Images :
        /\ i \notin excused
        /\ fate[i] \notin {"doomed", "gone"}
        /\ images[i] = "available" \/ json.images[i] = "available"
        => "iso" \in art[i]

(* A download that runs is the one that Cancel and Delete reach through
   downloads[id], and the only one of its image: the task before it has saved
   its failure, and so ended, before the retry's own save lets it begin. *)
LiveIsCancellable ==
    \A t \in Tasks : Live(t) /\ tasks[t].image \notin excused =>
        /\ downloads[tasks[t].image] = t
        /\ \A u \in Tasks \ {t} : tasks[u].image # tasks[t].image

(* An image whose deletion was reported does not come back: no task or retry
   that outlives it puts it in the list, in library.json or in a save. *)
DeletedIsGone ==
    \A i \in Images : fate[i] = "gone" =>
        /\ images[i] = "none"
        /\ json.images[i] = "none"
        /\ \A k \in DOMAIN saves : saves[k].list.images[i] = "none"

(* The newest machine of an image has its image, and fits its state, also while a
   download, a retry, a save, a start or a clone is under way and after a launch:
   it does not wait for a download that has ended, nor is it ready to install, or
   installing, from an image that is not available.  Not so when the image is
   being deleted, when a step for it failed, or when it moved on while the
   machine was made or cloned. *)
MachineFollowsImage ==
    \A i \in Images :
        /\ i \notin excused
        /\ fate[i] \notin {"doomed", "gone"}
        /\ vm[i] # "none"
        => Fits(vm[i], images[i])

(* An image that is shown as in transfer becomes available or fails. *)
TransferEnds ==
    \A i \in Images : images[i] \in Transfer ~> images[i] \notin Transfer
-----------------------------------------------------------------------------
(* The inductive invariants behind them.                                    *)

(* Who awaits the LibraryStore: the processes that have a save in the queue,
   and each has one. *)
Waits(w) == IF w \in Tasks THEN tasks[w].pc \in {"first", "last", "failed"}
            ELSE calls[w].pc = "save"

QueueInv ==
    /\ \A k \in DOMAIN saves : Waits(saves[k].by)
    /\ \A j, k \in DOMAIN saves : saves[j].by = saves[k].by => j = k
    /\ \A w \in Tasks \union Calls : Waits(w) => \E k \in DOMAIN saves : saves[k].by = w

(* The points that a call of each kind can be at, what the URLSession has to do
   with a task, and that downloads holds no task that has ended. *)
ShapeInv ==
    /\ \A c \in Calls :
          /\ calls[c].pc \in {"copy", "copied"} => calls[c].op = "import"
          /\ calls[c].pc = "undo" => calls[c].op = "import"
          /\ calls[c].pc \in {"remove", "removed"} => calls[c].op \in {"retry", "delete"}
          /\ calls[c].pc = "make" =>
                calls[c].op \in {"create", "clone", "start"} /\ calls[c].seen # "none"
          /\ calls[c].pc = "ran" => calls[c].op = "start"
          /\ calls[c].op = "import" => calls[c].pc \in {"copy", "copied", "undo", "save"}
          /\ calls[c].op \in {"retry", "delete"} =>
                calls[c].pc \in {"remove", "removed", "save"}
    /\ \A t \in Tasks :
          tasks[t].pending # <<>> => tasks[t].pc \in {"fetch", "check", "back"}
    /\ \A i \in Images :
          downloads[i] # "none" => tasks[downloads[i]].image = i

DownloadsInv == TypeOK /\ QueueInv /\ ShapeInv

(* What a launch may find, now or later: library.json and the saves to come.
   Since(c): the save of c and those behind it; Ahead(c): who asked for those
   before it. *)
Lists == {json} \union {saves[k].list : k \in DOMAIN saves}

Since(c) ==
    {saves[k].list : k \in
        {m \in DOMAIN saves : \E j \in DOMAIN saves : j <= m /\ saves[j].by = c}}

Ahead(c) ==
    {saves[k].by : k \in
        {m \in DOMAIN saves : \E j \in DOMAIN saves : m < j /\ saves[j].by = c}}

Unlisted(i) ==
    /\ images[i] = "none"
    /\ \A list \in Lists : list.images[i] = "none"

Untouched(i) ==
    /\ Unlisted(i)
    /\ vm[i] = "none"
    /\ \A list \in Lists : list.vm[i] = "none"
    /\ \A t \in Tasks : tasks[t].image # i
    /\ \A c \in Calls : calls[c].image # i

(* The image is not yet in the list, and nothing else is done with it. *)
Alone(c) ==
    /\ fate[calls[c].image] = "listed"
    /\ images[calls[c].image] = "none"
    /\ vm[calls[c].image] = "none"
    /\ \A d \in Calls \ {c} : calls[d].image # calls[c].image
    /\ \A t \in Tasks : tasks[t].image # calls[c].image

(* From the list that a delete saves on, the image is in no list. *)
DeleteInv ==
    \A c \in Calls : calls[c].op = "delete" =>
        /\ fate[calls[c].image] \in {"doomed", "gone"}
        /\ calls[c].pc = "save" =>
              /\ images[calls[c].image] = "none"
              /\ \A list \in Since(c) : list.images[calls[c].image] = "none"

FateInv ==
    /\ \A i \in Images :
          /\ fate[i] = "new" => Untouched(i)
          /\ fate[i] = "gone" => Unlisted(i)
    /\ \A c \in Calls : calls[c].pc \in {"copy", "copied"} => Alone(c)
    /\ DeleteInv

TasksOf(i) == {t \in Tasks : tasks[t].image = i}

(* A retry overlaps only with the end of the download that has failed, which
   has asked for its save before the retry does. *)
RetryInv ==
    \A c \in Calls : calls[c].op = "retry" /\ calls[c].image \notin excused =>
        /\ images[calls[c].image] # "available"
        /\ OfImage(calls[c].image, "retry") = {c}
        /\ \A t \in TasksOf(calls[c].image) : tasks[t].pc = "failed"
        /\ calls[c].pc = "save" =>
              /\ images[calls[c].image] # "failed"
              /\ TasksOf(calls[c].image) \subseteq Ahead(c)

ImportInv ==
    \A c \in Calls : calls[c].op = "import" /\ calls[c].image \notin excused =>
        /\ TasksOf(calls[c].image) = {}
        /\ OfImage(calls[c].image, "retry") = {}
        /\ images[calls[c].image] \in {"none", "available"}
        /\ calls[c].pc = "undo" => images[calls[c].image] = "none"

OneTaskInv ==
    /\ \A t \in Tasks : Live(t) /\ tasks[t].image \notin excused =>
          /\ downloads[tasks[t].image] = t
          /\ images[tasks[t].image] = "failed" => tasks[t].pc = "failed"
    /\ RetryInv
    /\ ImportInv

Followed(i) == i \notin excused /\ fate[i] = "listed"

(* What is available anywhere is so in the list shown, and then nothing that
   removes a file runs. *)
DiskInv ==
    /\ \A i \in Images : Followed(i) =>
          /\ (\E list \in Lists : list.images[i] = "available") => images[i] = "available"
          /\ images[i] = "available" =>
                "iso" \in art[i] /\ \A t \in TasksOf(i) : tasks[t].pc = "last"
    /\ \A t \in Tasks :
          /\ tasks[t].pc = "back" /\ tasks[t].result = "ok"
          /\ Followed(tasks[t].image)
          => "iso" \in art[tasks[t].image]
    /\ \A c \in Calls : calls[c].pc = "copied" => "iso" \in art[calls[c].image]

(* A machine fits the state of its image, and a list shows it so again. *)
Agrees(list, i) ==
    list.vm[i] # "none" =>
        \/ Fits(list.vm[i], list.images[i])
        \/ list.vm[i] = "downloading" /\ list.images[i] = "failed"

FollowInv ==
    \A i \in Images : Followed(i) =>
        /\ vm[i] # "none" => Fits(vm[i], images[i])
        /\ \A list \in Lists : Agrees(list, i)
=============================================================================
