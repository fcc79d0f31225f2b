--------------------------- MODULE LibraryStorage ---------------------------
(***************************************************************************)
(* AppModel's list of machines, library.json and the machines' files:      *)
(* createMachine, cloneMachine, deleteMachine, the settings of a machine,  *)
(* persist, and the launch of the app, which removes the directories that  *)
(* library.json does not list.  Each operation is a call that awaits the   *)
(* LibraryStore or the ManagedMachineStore actor; in between the main      *)
(* actor runs the others.  Stores fail, and the app may end at any time.   *)
(***************************************************************************)
EXTENDS Naturals, SequencesExt

CONSTANTS
    Machines,       \* identifiers of machines; each is given once
    Calls           \* operations in flight at the same time

ASSUME ConstantsAssumption == "none" \notin Machines

VARIABLES
    machines,   \* AppModel.machines
    json,       \* the machines of library.json
    files,      \* the directory of each machine
    saves,      \* jobs of the LibraryStore actor, in order
    calls,      \* the operations in flight
    fate,       \* history: what became of each identifier
    failed      \* history: some operation has failed

vars == <<machines, json, files, saves, calls, fate, failed>>

Setting == {"automatic", "custom"}
Entry == [id: Machines, setting: Setting]

(* "set": setInputProfile, which undoes by identifier; "setAt":
   setCustomInputProfile, setDisplayMode and setWindowsSupportToolsAttached,
   which undo by index; "share": setSharedDirectory; "reset":
   removeCustomInputProfile; "record": record(runtimeState:), whose task
   saves later, and ejectInstaller, neither of which undoes anything. *)
Settings == {"set", "setAt", "share"}
Op == Settings \union {"create", "clone", "delete", "reset", "record"}

(* "files", "half": the ManagedMachineStore has the job to do, has done half
   of it; "undo", "undoing": likewise its removal after an error; "save": the
   LibraryStore has the job; "tools": prepareWindowsSupportTools; "task": the
   task has not run; the others: the result is on its way to the main actor. *)
PC == {"files", "half", "undo", "undoing", "save", "tools", "task", "made",
       "removed", "noFiles", "saved", "unsaved"}
Call == [op: Op, id: Machines \union {"none"}, src: Machines \union {"none"},
         pc: PC, index: Nat, previous: Seq(Entry)]
Idle == [op |-> "none", id |-> "none", src |-> "none", pc |-> "idle",
         index |-> 0, previous |-> <<>>]

TypeOK ==
    /\ machines \in Seq(Entry)
    /\ json \in Seq(Entry)
    /\ files \in [Machines -> {"none", "partial", "whole"}]
    /\ saves \in Seq([call: Calls, list: Seq(Entry)])
    /\ calls \in [Calls -> Call \union {Idle}]
    /\ fate \in [Machines -> {"new", "pending", "created", "doomed", "leftOut"}]
    /\ failed \in BOOLEAN

Init ==
    /\ machines = <<>>
    /\ json = <<>>
    /\ files = [m \in Machines |-> "none"]
    /\ saves = <<>>
    /\ calls = [c \in Calls |-> Idle]
    /\ fate = [m \in Machines |-> "new"]
    /\ failed = FALSE

Ids(list) == {list[i].id : i \in DOMAIN list}
IndexOf(list, m) == CHOOSE i \in DOMAIN list : list[i].id = m
Without(list, m) ==
    IF m \in Ids(list) THEN RemoveAt(list, IndexOf(list, m)) ELSE list
With(list, m, v) ==
    [i \in DOMAIN list |->
        IF list[i].id = m THEN [list[i] EXCEPT !.setting = v] ELSE list[i]]

At(c, pc) == calls[c].pc = pc
Goto(c, pc) == calls' = [calls EXCEPT ![c].pc = pc]
End(c) == calls' = [calls EXCEPT ![c] = Idle]

(* try await persist(): the list is copied when the save is enqueued. *)
Persist(c, list) == saves' = Append(saves, [call |-> c, list |-> list])

-----------------------------------------------------------------------------
(* The operations up to their first await                                   *)

Begin(c, op, m, src, pc) ==
    /\ calls[c] = Idle
    /\ calls' = [calls EXCEPT ![c] =
                   [Idle EXCEPT !.op = op, !.id = m, !.src = src, !.pc = pc]]

(* A setting remembers the machine's index and its previous entry. *)
BeginChange(c, op, m, pc) ==
    LET i == IndexOf(machines, m) IN
    /\ m \in Ids(machines)
    /\ calls[c] = Idle
    /\ calls' = [calls EXCEPT ![c] =
                   [Idle EXCEPT !.op = op, !.id = m, !.pc = pc, !.index = i,
                                !.previous = <<machines[i]>>]]

Create(c, m) ==
    /\ fate[m] = "new"
    /\ fate' = [fate EXCEPT ![m] = "pending"]
    /\ Begin(c, "create", m, "none", "files")
    /\ UNCHANGED <<machines, json, files, saves, failed>>

Clone(c, src, m) ==
    /\ src \in Ids(machines)
    /\ fate[m] = "new"
    /\ fate' = [fate EXCEPT ![m] = "pending"]
    /\ Begin(c, "clone", m, src, "files")
    /\ UNCHANGED <<machines, json, files, saves, failed>>

Delete(c, m) ==
    /\ m \in Ids(machines)
    /\ fate' = [fate EXCEPT ![m] = "doomed"]
    /\ Begin(c, "delete", m, "none", "files")
    /\ UNCHANGED <<machines, json, files, saves, failed>>

(* setInputProfile drops a custom profile; the others are given a value. *)
Change(c, op, m) ==
    /\ BeginChange(c, op, m, "save")
    /\ machines' = With(machines, m, IF op = "set" THEN "automatic" ELSE "custom")
    /\ Persist(c, machines')
    /\ UNCHANGED <<json, files, fate, failed>>

(* setWindowsSupportToolsAttached first prepares the tools. *)
Attach(c, m) ==
    /\ BeginChange(c, "setAt", m, "tools")
    /\ machines' = With(machines, m, "custom")
    /\ UNCHANGED <<json, files, saves, fate, failed>>

Reset(c) ==
    /\ machines' = [i \in DOMAIN machines |->
                       [machines[i] EXCEPT !.setting = "automatic"]]
    /\ calls[c] = Idle
    /\ calls' = [calls EXCEPT ![c] = [Idle EXCEPT !.op = "reset", !.pc = "save",
                                                  !.previous = machines]]
    /\ Persist(c, machines')
    /\ UNCHANGED <<json, files, fate, failed>>

(* The runtime state itself is not in the model: launch resets it. *)
Record(c) ==
    /\ \/ UNCHANGED machines
       \/ \E m \in Ids(machines) : machines' = With(machines, m, "custom")
    /\ Begin(c, "record", "none", "none", "task")
    /\ UNCHANGED <<json, files, saves, fate, failed>>

-----------------------------------------------------------------------------
(* The ManagedMachineStore actor: one job at a time                         *)

StoreIsFree == \A c \in Calls : ~At(c, "half") /\ ~At(c, "undoing")

(* createFiles makes the directory first, removeMachine does not remove it at
   once; cloneFiles needs the disk of its source. *)
StoreBegins(c) ==
    LET call == calls[c] IN
    /\ StoreIsFree
    /\ call.pc \in {"files", "undo"}
    /\ IF call.op = "clone" /\ call.pc = "files" /\ files[call.src] # "whole"
       THEN /\ Goto(c, "noFiles")
            /\ failed' = TRUE
            /\ UNCHANGED files
       ELSE /\ Goto(c, IF call.pc = "files" THEN "half" ELSE "undoing")
            /\ files' = [files EXCEPT ![call.id] =
                            IF call.op \in {"create", "clone"} \/ @ # "none"
                            THEN "partial" ELSE "none"]
            /\ UNCHANGED failed
    /\ UNCHANGED <<machines, json, saves, fate>>

StoreEnds(c) ==
    /\ At(c, "half")
    /\ IF calls[c].op = "delete"
       THEN /\ files' = [files EXCEPT ![calls[c].id] = "none"]
            /\ Goto(c, "removed")
       ELSE /\ files' = [files EXCEPT ![calls[c].id] = "whole"]
            /\ Goto(c, "made")
    /\ UNCHANGED <<machines, json, saves, fate, failed>>

(* An error; createFiles tries to remove the directory. *)
StoreFails(c) ==
    /\ At(c, "half")
    /\ \/ calls[c].op # "delete" /\ files' = [files EXCEPT ![calls[c].id] = "none"]
       \/ UNCHANGED files
    /\ Goto(c, "noFiles")
    /\ failed' = TRUE
    /\ UNCHANGED <<machines, json, saves, fate>>

(* try? removeMachine at the end of a failed create or clone. *)
StoreUndoes(c) ==
    /\ At(c, "undoing")
    /\ \/ files' = [files EXCEPT ![calls[c].id] = "none"]
       \/ UNCHANGED files
    /\ End(c)
    /\ UNCHANGED <<machines, json, saves, fate, failed>>

-----------------------------------------------------------------------------
(* The LibraryStore actor: jobs in the order of the calls                   *)

(* Mutant of SaveNext: a later save overtakes an earlier one. *)
MutantSaveOvertakes ==
    \E i \in DOMAIN saves :
        /\ json' = saves[i].list
        /\ saves' = RemoveAt(saves, i)
        /\ Goto(saves[i].call, "saved")
        /\ UNCHANGED <<machines, files, fate, failed>>

SaveNext ==
    /\ saves # <<>>
    /\ json' = Head(saves).list
    /\ saves' = Tail(saves)
    /\ Goto(Head(saves).call, "saved")
    /\ UNCHANGED <<machines, files, fate, failed>>

SaveFails ==
    /\ saves # <<>>
    /\ saves' = Tail(saves)
    /\ Goto(Head(saves).call, "unsaved")
    /\ failed' = TRUE
    /\ UNCHANGED <<machines, json, files, fate>>

-----------------------------------------------------------------------------
(* The operations after their awaits                                        *)

(* Mutant of Relaunch: the directories that are not listed stay. *)
MutantOrphansStay ==
    /\ machines' = json
    /\ saves' = <<>>
    /\ calls' = [c \in Calls |-> Idle]
    /\ UNCHANGED <<json, files, fate, failed>>

(* The app ends, and is launched again: initialize() loads the library and
   removes the machines that it does not list. *)
Relaunch ==
    /\ machines' = json
    /\ files' = [m \in Machines |-> IF m \in Ids(json) THEN files[m] ELSE "none"]
    /\ saves' = <<>>
    /\ calls' = [c \in Calls |-> Idle]
    /\ UNCHANGED <<json, fate, failed>>

Crash == Relaunch

(* Mutant of Made: the list is saved before the machine is in it. *)
MutantSavedBeforeAppended(c) ==
    /\ At(c, "made")
    /\ machines' = Append(machines, [id |-> calls[c].id, setting |-> "automatic"])
    /\ Persist(c, machines)
    /\ Goto(c, "save")
    /\ UNCHANGED <<json, files, fate, failed>>

(* createMachine and cloneMachine append the machine and save. *)
Made(c) ==
    /\ At(c, "made")
    /\ machines' = Append(machines, [id |-> calls[c].id, setting |-> "automatic"])
    /\ Persist(c, machines')
    /\ Goto(c, "save")
    /\ UNCHANGED <<json, files, fate, failed>>

(* provisionLinuxDisk fails: the catch of createMachine. *)
NotProvisioned(c) ==
    /\ At(c, "made")
    /\ calls[c].op = "create"
    /\ Goto(c, "undo")
    /\ failed' = TRUE
    /\ UNCHANGED <<machines, json, files, saves, fate>>

(* Mutant of Removed: the machine is not taken off the list. *)
MutantRemovedStaysListed(c) ==
    /\ At(c, "removed")
    /\ Persist(c, Without(machines, calls[c].id))
    /\ Goto(c, "save")
    /\ UNCHANGED <<machines, json, files, fate, failed>>

(* deleteMachine takes the machine off the list and saves. *)
Removed(c) ==
    /\ At(c, "removed")
    /\ machines' = Without(machines, calls[c].id)
    /\ Persist(c, machines')
    /\ Goto(c, "save")
    /\ UNCHANGED <<json, files, fate, failed>>

NoFiles(c) ==
    /\ At(c, "noFiles")
    /\ End(c)
    /\ UNCHANGED <<machines, json, files, saves, fate, failed>>

TaskRuns(c) ==
    /\ At(c, "task")
    /\ Persist(c, machines)
    /\ Goto(c, "save")
    /\ UNCHANGED <<machines, json, files, fate, failed>>

ToolsPrepared(c) ==
    /\ At(c, "tools")
    /\ \/ Persist(c, machines) /\ Goto(c, "save") /\ UNCHANGED failed
       \/ Goto(c, "unsaved") /\ failed' = TRUE /\ UNCHANGED saves
    /\ UNCHANGED <<machines, json, files, fate>>

(* The operation c uses the index it took before its await. *)
IndexIsValid(c) == calls[c].index \in DOMAIN machines
Previous(c) == calls[c].previous[1].setting

(* Saved.  setSharedDirectory then reads machines[index]. *)
Saved(c) ==
    /\ At(c, "saved")
    /\ calls[c].op = "share" => IndexIsValid(c)
    /\ fate' = IF calls[c].op \in {"create", "clone"} /\ fate[calls[c].id] = "pending"
               THEN [fate EXCEPT ![calls[c].id] = "created"] ELSE fate
    /\ End(c)
    /\ UNCHANGED <<machines, json, files, saves, failed>>

(* Not saved: createMachine takes the machine off the list and removes its
   files, cloneMachine removes its files only. *)
NotCreated(c) ==
    /\ At(c, "unsaved")
    /\ calls[c].op \in {"create", "clone"}
    /\ machines' = IF calls[c].op = "create" THEN Without(machines, calls[c].id)
                   ELSE machines
    /\ Goto(c, "undo")
    /\ UNCHANGED <<json, files, saves, fate, failed>>

(* What a setting that could not be saved puts back. *)
RolledBack(c) ==
    CASE calls[c].op \in {"set", "share"} ->
            With(machines, calls[c].id, Previous(c))
      [] calls[c].op = "setAt" ->
            [machines EXCEPT ![calls[c].index].setting = Previous(c)]
      [] calls[c].op = "reset" -> calls[c].previous
      [] OTHER -> machines

(* removeCustomInputProfile puts the whole list back, and so leaves out what
   was appended since. *)
MadeSince(c) ==
    {m \in Ids(machines) : m \notin Ids(calls[c].previous) /\ fate[m] # "doomed"}

NotChanged(c) ==
    /\ At(c, "unsaved")
    /\ calls[c].op \notin {"create", "clone"}
    /\ calls[c].op = "setAt" => IndexIsValid(c)
    /\ machines' = RolledBack(c)
    /\ fate' = [m \in Machines |->
                  IF calls[c].op = "reset" /\ m \in MadeSince(c) THEN "leftOut"
                  ELSE fate[m]]
    /\ End(c)
    /\ UNCHANGED <<json, files, saves, failed>>

(* machines[index] after an await in which the list became shorter ends the
   app with a runtime error. *)
IndexOutOfRange(c) ==
    /\ \/ At(c, "saved") /\ calls[c].op = "share"
       \/ At(c, "unsaved") /\ calls[c].op = "setAt"
    /\ ~IndexIsValid(c)
    /\ Relaunch

-----------------------------------------------------------------------------

Press(c) ==
    \/ \E m \in Machines : Create(c, m) \/ Delete(c, m)
    \/ \E m, src \in Machines : Clone(c, src, m)
    \/ \E op \in Settings, m \in Machines : Change(c, op, m)
    \/ \E m \in Machines : Attach(c, m)
    \/ Reset(c) \/ Record(c)

Continue(c) ==
    \/ Made(c) \/ NotProvisioned(c) \/ Removed(c) \/ NoFiles(c)
    \/ TaskRuns(c) \/ ToolsPrepared(c)
    \/ Saved(c) \/ NotCreated(c) \/ NotChanged(c) \/ IndexOutOfRange(c)

Next ==
    \/ \E c \in Calls :
          \/ Press(c) \/ Continue(c)
          \/ StoreBegins(c) \/ StoreEnds(c) \/ StoreFails(c) \/ StoreUndoes(c)
    \/ SaveNext \/ SaveFails
    \/ Crash

Spec == Init /\ [][Next]_vars

-----------------------------------------------------------------------------
(* Properties                                                               *)

(* A machine that createMachine or cloneMachine has reported as made, and that
   nobody deletes, is in the list, in library.json and on the disk: neither
   a crash nor the removal of orphans at the next launch takes it away, nor the
   failure of another operation.  One failure is excused, which is a defect: a
   removeCustomInputProfile that cannot save loses what was made while it
   awaited (the fate "leftOut"), but nothing that was made before. *)
CreatedIsKept ==
    \A m \in Machines : fate[m] = "created" =>
        /\ m \in Ids(machines)
        /\ m \in Ids(json)
        /\ files[m] = "whole"

Quiet == saves = <<>> /\ \A c \in Calls : calls[c] = Idle

(* When every operation has returned and none has failed, library.json is
   what the user sees. *)
QuietIsSaved == Quiet /\ ~failed => json = machines

(* When every operation has returned and none has failed, the directories of
   the machines are those of the machines listed, but for a delete that a
   crash has interrupted. *)
QuietIsComplete ==
    Quiet /\ ~failed =>
        \A m \in Machines : fate[m] # "doomed" =>
            files[m] = IF m \in Ids(machines) THEN "whole" ELSE "none"

-----------------------------------------------------------------------------
(* The inductive invariant behind CreatedIsKept                             *)

Making(c) == calls[c].op \in {"create", "clone"}

(* What a call of each operation can be waiting for, and what it remembers. *)
CallInv ==
    \A c \in Calls :
        /\ calls[c].pc \in {"files", "half", "noFiles"} =>
             Making(c) \/ calls[c].op = "delete"
        /\ calls[c].pc \in {"made", "undo", "undoing"} => Making(c)
        /\ At(c, "removed") => calls[c].op = "delete"
        /\ At(c, "tools") => calls[c].op = "setAt"
        /\ At(c, "task") => calls[c].op = "record"
        /\ calls[c].op \in Settings => Len(calls[c].previous) = 1
        /\ Making(c) \/ calls[c].op = "delete" => calls[c].id \in Machines

(* Every save that has been asked for is waited for by its call, which waits
   for no other. *)
SavesInv ==
    /\ \A i \in DOMAIN saves : At(saves[i].call, "save")
    /\ \A i, j \in DOMAIN saves : saves[i].call = saves[j].call => i = j
    /\ \A c \in Calls : At(c, "save") => \E i \in DOMAIN saves : saves[i].call = c

(* An identifier is made by one call, and a machine that is reported as made
   has no call left that makes or deletes it. *)
FateInv ==
    /\ \A c \in Calls : Making(c) => fate[calls[c].id] \in {"pending", "doomed", "leftOut"}
    /\ \A c \in Calls : calls[c].op = "delete" => fate[calls[c].id] = "doomed"
    /\ \A c, d \in Calls :
          Making(c) /\ Making(d) /\ calls[c].id = calls[d].id => c = d

(* A call that makes a machine has its files, from "made" on; the list has it,
   and so has every save from the call's own on; when that one is done,
   library.json has it too. *)
Promise(c) ==
    LET m == calls[c].id IN
    /\ calls[c].pc \in {"made", "save", "saved"} => files[m] = "whole"
    /\ calls[c].pc \in {"save", "saved"} => m \in Ids(machines)
    /\ At(c, "save") =>
         \A i, j \in DOMAIN saves :
            saves[i].call = c /\ i <= j => m \in Ids(saves[j].list)
    /\ At(c, "saved") =>
         /\ m \in Ids(json)
         /\ \A j \in DOMAIN saves : m \in Ids(saves[j].list)

MakingInv ==
    \A c \in Calls :
        Making(c) /\ fate[calls[c].id] = "pending" => Promise(c)

(* No save in the queue leaves out a machine that is reported as made. *)
QueueInv ==
    \A m \in Machines : fate[m] = "created" =>
        \A j \in DOMAIN saves : m \in Ids(saves[j].list)

(* A machine reported as made is kept because no save in the queue is older
   than its own: the order of the LibraryStore's jobs is what it rests on. *)
LibraryInv ==
    /\ TypeOK
    /\ CreatedIsKept
    /\ QueueInv
    /\ CallInv
    /\ SavesInv
    /\ FateInv
    /\ MakingInv

-----------------------------------------------------------------------------
(* The inductive invariant behind QuietIsSaved and QuietIsComplete: how things
   are until the first operation fails.                                     *)

Listed(m) ==
    \/ m \in Ids(machines) \union Ids(json)
    \/ \E j \in DOMAIN saves : m \in Ids(saves[j].list)

(* The machine's directory is being made, and the list does not have it. *)
Beginning(m) ==
    \E c \in Calls :
        /\ Making(c)
        /\ calls[c].id = m
        /\ calls[c].pc \in {"files", "half", "made"}

(* The newest list that was given to the LibraryStore. *)
Newest == IF saves = <<>> THEN json ELSE saves[Len(saves)].list

(* It is the one shown, unless a call is still to ask for a save of its change. *)
NewestInv ==
    \/ Newest = machines
    \/ \E c \in Calls : At(c, "tools") \/ At(c, "task")

(* What is listed anywhere, and is not deleted, has its files; what has files is
   in the list shown or is being made. *)
CompleteInv ==
    \A m \in Machines : fate[m] # "doomed" =>
        /\ Listed(m) => files[m] = "whole" /\ fate[m] # "new" /\ ~Beginning(m)
        /\ files[m] # "none" => m \in Ids(machines) \/ Beginning(m)

FailureFree ==
    /\ \A c \in Calls : calls[c].pc \notin {"noFiles", "undo", "undoing", "unsaved"}
    /\ NewestInv
    /\ CompleteInv

NoneLeftOut == \A m \in Machines : fate[m] # "leftOut"

UntilFailure == failed \/ (LibraryInv /\ FailureFree /\ NoneLeftOut)
=============================================================================
