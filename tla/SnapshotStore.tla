--------------------------- MODULE SnapshotStore ---------------------------
(***************************************************************************)
(* SnapshotStore and the AppModel operations createSnapshot,               *)
(* restoreSnapshot and deleteSnapshot of ONE machine, step by step on the  *)
(* file system, with errors and with a crash of the app between any two    *)
(* steps.                                                                  *)
(*                                                                         *)
(* The content of a file is the generation of the machine state it belongs *)
(* to: the guest writes generation n+1 after n.  A Windows machine keeps   *)
(* disk, EFI variables and TPM state, which are only of use together.      *)
(***************************************************************************)
EXTENDS Naturals, FiniteSets

CONSTANTS
    Snapshots,          \* identifiers of snapshots
    OperatingSystems,   \* a "windows" machine has three files, else one disk
    MaxGeneration,      \* bound: generations the guest writes
    MaxPending          \* bound: requests waiting for the actor

ASSUME ConstantsAssumption ==
    /\ OperatingSystems \subseteq {"linux", "windows"}
    /\ MaxGeneration \in Nat \ {0}
    /\ MaxPending \in Nat \ {0}

VARIABLES
    operatingSystem,    \* of the machine; never changes
    current,    \* the machine's own files (State/current, or disk.raw)
    written,    \* the newest generation
    snap,       \* the files of each snapshot
    taken,      \* history: the machine's files when each snapshot was taken
    halfDeleted,    \* history: snapshots left with a part of their files by
                    \* a delete that failed, or during which the app ended
    json,       \* snapshots.json
    shown,      \* AppModel.snapshots, what the user is offered
    staged,     \* .restore-<UUID>, or disk.raw.restore
    op,         \* the job the SnapshotStore actor runs
    pending,    \* jobs enqueued on the actor
    returning   \* results on their way to the main actor

vars == <<operatingSystem, current, written, snap, taken, halfDeleted, json, shown,
          staged, op, pending, returning>>

Files == {"disk", "efi", "tpm"}
Content == 0..MaxGeneration             \* 0: there is no such file
NoFiles == [f \in Files |-> 0]

(* Before the first boot a Windows machine has a disk and neither EFI
   variables nor TPM state; of a Linux machine only the disk is kept. *)
Generation(n) ==
    [f \in Files |->
        IF f # "disk" /\ (n = 1 \/ operatingSystem # "windows") THEN 0 ELSE n]

Kinds == {"create", "restore", "delete"}
NoOp == [kind |-> "none", id |-> "none", todo |-> {}]
Request == Kinds \X Snapshots

TypeOK ==
    /\ operatingSystem \in OperatingSystems
    /\ current \in [Files -> Content]
    /\ written \in 1..MaxGeneration
    /\ snap \in [Snapshots -> [Files -> Content]]
    /\ taken \in [Snapshots -> [Files -> Content]]
    /\ halfDeleted \subseteq Snapshots
    /\ json \subseteq Snapshots
    /\ shown \subseteq Snapshots
    /\ staged \in [Files -> Content]
    /\ op \in {NoOp} \union [kind: Kinds, id: Snapshots, todo: SUBSET Files]
    /\ pending \subseteq Request
    /\ returning \subseteq Request

Init ==
    /\ operatingSystem \in OperatingSystems
    /\ current = Generation(1)
    /\ written = 1
    /\ snap = [s \in Snapshots |-> NoFiles]
    /\ taken = [s \in Snapshots |-> NoFiles]
    /\ halfDeleted = {}
    /\ json = {}
    /\ shown = {}
    /\ staged = NoFiles
    /\ op = NoOp
    /\ pending = {}
    /\ returning = {}

InFlight(kind) == op.kind = kind \/ \E s \in Snapshots : <<kind, s>> \in pending

-----------------------------------------------------------------------------
(* The guest and the user                                                   *)

(* The machine runs and writes all its files; not during createSnapshot and
   restoreSnapshot, which ensureMachineIdle begins on stopped machines only.
   That it stays stopped meanwhile is assumed here: see OpsExcludeRun of
   DiskExclusion for what start() does about it. *)
Run ==
    /\ written < MaxGeneration
    /\ ~InFlight("create") /\ ~InFlight("restore")
    /\ written' = written + 1
    /\ current' = Generation(written + 1)
    /\ UNCHANGED <<operatingSystem, snap, taken, halfDeleted, json, shown,
                   staged, op, pending, returning>>

(* create is given a new UUID; restore and delete a snapshot of the list. *)
Press(kind, s) ==
    /\ IF kind = "create"
       THEN taken[s] = NoFiles /\ ~InFlight("create")
       ELSE s \in shown
    /\ Cardinality(pending) < MaxPending
    /\ pending' = pending \union {<<kind, s>>}
    /\ UNCHANGED <<operatingSystem, current, written, snap, taken, halfDeleted,
                   json, shown, staged, op, returning>>

(* The main actor takes the result: append to, or removeAll from the list. *)
Returned(kind, s) ==
    /\ <<kind, s>> \in returning
    /\ returning' = returning \ {<<kind, s>>}
    /\ shown' = IF kind = "create" THEN shown \union {s} ELSE shown \ {s}
    /\ UNCHANGED <<operatingSystem, current, written, snap, taken, halfDeleted,
                   json, staged, op, pending>>

-----------------------------------------------------------------------------
(* The actor.  Its methods do not suspend, so one job runs at a time.        *)

Take(kind, s) ==
    /\ op = NoOp
    /\ <<kind, s>> \in pending
    /\ pending' = pending \ {<<kind, s>>}
    /\ op' = [kind |-> kind, id |-> s, todo |-> Files]
    /\ taken' = IF kind = "create" THEN [taken EXCEPT ![s] = current]
                ELSE taken
    /\ UNCHANGED <<operatingSystem, current, written, snap, halfDeleted, json,
                   shown, staged, returning>>

(* The order of cloneWindowsState: the disk first. *)
NextFile(f) == f \in op.todo /\ ("disk" \in op.todo => f = "disk")

CreateClone(f) ==
    /\ op.kind = "create"
    /\ NextFile(f)
    /\ snap' = [snap EXCEPT ![op.id][f] = current[f]]
    /\ op' = [op EXCEPT !.todo = @ \ {f}]
    /\ UNCHANGED <<operatingSystem, current, written, taken, halfDeleted, json,
                   shown, staged, pending, returning>>

(* Mutant of CreateSave: listed before all the files are cloned. *)
MutantListedTooEarly ==
    /\ op.kind = "create"
    /\ "disk" \notin op.todo
    /\ json' = json \union {op.id}
    /\ returning' = returning \union {<<"create", op.id>>}
    /\ op' = NoOp
    /\ UNCHANGED <<operatingSystem, current, written, snap, taken, halfDeleted,
                   shown, staged, pending>>

CreateSave ==
    /\ op.kind = "create"
    /\ op.todo = {}
    /\ json' = json \union {op.id}
    /\ returning' = returning \union {<<"create", op.id>>}
    /\ op' = NoOp
    /\ UNCHANGED <<operatingSystem, current, written, snap, taken, halfDeleted,
                   shown, staged, pending>>

(* A clone fails: the directory of a Windows snapshot is removed.  The list
   cannot be saved: the files stay, unlisted. *)
CreateFails ==
    /\ op.kind = "create"
    /\ snap' = IF op.todo # {} THEN [snap EXCEPT ![op.id] = NoFiles] ELSE snap
    /\ op' = NoOp
    /\ UNCHANGED <<operatingSystem, current, written, taken, halfDeleted, json,
                   shown, staged, pending, returning>>

(* Mutant of RestoreClone: a missing disk is passed over like the others. *)
MutantMissingDiskPassedOver(f) ==
    /\ op.kind = "restore"
    /\ NextFile(f)
    /\ staged' = [staged EXCEPT ![f] = snap[op.id][f]]
    /\ op' = [op EXCEPT !.todo = @ \ {f}]
    /\ UNCHANGED <<operatingSystem, current, written, snap, taken, halfDeleted,
                   json, shown, pending, returning>>

(* A missing disk is an error, another missing file is passed over.  A Windows
   snapshot of the time when only the disk was kept, of which create makes no
   more and restore replaces the disk alone, is left out. *)
RestoreClone(f) ==
    /\ op.kind = "restore"
    /\ NextFile(f)
    /\ f = "disk" => snap[op.id][f] # 0
    /\ staged' = [staged EXCEPT ![f] = snap[op.id][f]]
    /\ op' = [op EXCEPT !.todo = @ \ {f}]
    /\ UNCHANGED <<operatingSystem, current, written, snap, taken, halfDeleted,
                   json, shown, pending, returning>>

(* Mutant of RestoreSwap: swapped as soon as the disk is staged. *)
MutantSwapTooEarly ==
    /\ op.kind = "restore"
    /\ "disk" \notin op.todo
    /\ current' = staged
    /\ staged' = NoFiles
    /\ op' = NoOp
    /\ UNCHANGED <<operatingSystem, written, snap, taken, halfDeleted, json,
                   shown, pending, returning>>

(* renamex_np(RENAME_SWAP) or replaceItemAt, and the staged files removed;
   the removal may fail and be reported, which changes nothing here. *)
RestoreSwap ==
    /\ op.kind = "restore"
    /\ op.todo = {}
    /\ current' = staged
    /\ staged' = NoFiles
    /\ op' = NoOp
    /\ UNCHANGED <<operatingSystem, written, snap, taken, halfDeleted, json,
                   shown, pending, returning>>

RestoreFails ==
    /\ op.kind = "restore"
    /\ staged' = NoFiles
    /\ op' = NoOp
    /\ UNCHANGED <<operatingSystem, current, written, snap, taken, halfDeleted,
                   json, shown, pending, returning>>

(* removeItem goes through the directory in the order of the file system. *)
DeleteFile(f) ==
    /\ op.kind = "delete"
    /\ f \in op.todo
    /\ snap' = [snap EXCEPT ![op.id][f] = 0]
    /\ op' = [op EXCEPT !.todo = @ \ {f}]
    /\ UNCHANGED <<operatingSystem, current, written, taken, halfDeleted, json,
                   shown, staged, pending, returning>>

(* Mutant of DeleteSave: the snapshot stays in snapshots.json. *)
MutantDeleteNotSaved ==
    /\ op.kind = "delete"
    /\ op.todo = {}
    /\ returning' = returning \union {<<"delete", op.id>>}
    /\ op' = NoOp
    /\ UNCHANGED <<operatingSystem, current, written, snap, taken, halfDeleted,
                   json, shown, staged, pending>>

(* Mutant of DeleteSave: saved while files are still being removed, when a
   restore of the snapshot may be waiting. *)
MutantDeleteSavedEarly ==
    /\ op.kind = "delete"
    /\ json' = json \ {op.id}
    /\ returning' = returning \union {<<"delete", op.id>>}
    /\ op' = NoOp
    /\ UNCHANGED <<operatingSystem, current, written, snap, taken,
                   halfDeleted, shown, staged, pending>>

DeleteSave ==
    /\ op.kind = "delete"
    /\ op.todo = {}
    /\ json' = json \ {op.id}
    /\ returning' = returning \union {<<"delete", op.id>>}
    /\ op' = NoOp
    /\ UNCHANGED <<operatingSystem, current, written, snap, taken, halfDeleted,
                   shown, staged, pending>>

(* What a delete that ends here leaves behind. *)
LeftHalf == {s \in Snapshots : /\ op.kind = "delete"
                               /\ op.id = s
                               /\ snap[s] \notin {NoFiles, taken[s]}}

DeleteFails ==
    /\ op.kind = "delete"
    /\ halfDeleted' = halfDeleted \union LeftHalf
    /\ op' = NoOp
    /\ UNCHANGED <<operatingSystem, current, written, snap, taken, json,
                   shown, staged, pending, returning>>

(* The app ends and is launched again: AppModel.initialize lists what
   snapshots.json says.  A staged copy is never used again. *)
Crash ==
    /\ halfDeleted' = halfDeleted \union LeftHalf
    /\ op' = NoOp
    /\ pending' = {}
    /\ returning' = {}
    /\ shown' = json
    /\ staged' = NoFiles
    /\ UNCHANGED <<operatingSystem, current, written, snap, taken, json>>

Next ==
    \/ Run
    \/ \E k \in Kinds, s \in Snapshots :
          Press(k, s) \/ Take(k, s) \/ Returned(k, s)
    \/ \E f \in Files : CreateClone(f) \/ RestoreClone(f) \/ DeleteFile(f)
    \/ CreateSave \/ CreateFails
    \/ RestoreSwap \/ RestoreFails
    \/ DeleteSave \/ DeleteFails
    \/ Crash

Spec == Init /\ [][Next]_vars

-----------------------------------------------------------------------------
(* Properties                                                               *)

(* The machine's files belong to one generation: disk, EFI variables and TPM
   state fit.  A delete that ends half way breaks this. *)
OneGeneration(files) == \E n \in 1..written : files = Generation(n)

Coherent == OneGeneration(current)

(* As long as no delete has ended half way that is always so, whatever create
   and restore meet and wherever the app crashes. *)
CoherentUntilHalfDeleted == halfDeleted = {} => Coherent

(* A restore gives the machine exactly the files the snapshot was taken of,
   unless a delete of that snapshot has ended half way; nothing else but the
   guest changes its files. *)
RestoresWhatWasTaken ==
    [][current' # current =>
         \/ current' = Generation(written')
         \/ /\ op.kind = "restore"
            /\ op.id \in halfDeleted \/ current' = taken[op.id]]_vars

(* What snapshots.json lists, and does not just now delete, is all or nothing:
   all its files are there, or not even the disk, in which case restore is
   refused.  It is a part of a machine's state only if a delete of it has
   ended half way. *)
AllOrNothing(s) == snap[s] \in {NoFiles, taken[s]}

ListedIsWhole ==
    \A s \in json \ halfDeleted :
        AllOrNothing(s) \/ (op.kind = "delete" /\ op.id = s)

(* When nothing is in flight the user is offered what snapshots.json lists. *)
ShownIsListed == op = NoOp /\ returning = {} => shown = json

-----------------------------------------------------------------------------
(* The inductive invariant behind the three.                                *)

(* The snapshots that can be, or just now are, restored or deleted. *)
Known(s) ==
    \/ s \in json \union shown
    \/ <<"create", s>> \in returning
    \/ \E k \in {"restore", "delete"} : \/ <<k, s>> \in pending
                                        \/ op.kind = k /\ op.id = s

(* A known snapshot is all or nothing unless a Windows delete is at work on it
   or has left it, and was taken of one generation if none ever did.  The
   machine always has a disk. *)
KnownInv ==
    /\ operatingSystem # "windows" => halfDeleted = {}
    /\ current["disk"] # 0
    /\ \A s \in Snapshots : Known(s) =>
          /\ taken[s]["disk"] # 0
          /\ \/ AllOrNothing(s)
             \/ op.kind = "delete" /\ op.id = s /\ operatingSystem = "windows"
             \/ s \in halfDeleted
          /\ halfDeleted = {} => OneGeneration(taken[s])

(* A snapshot being created is not known yet, and what is cloned so far is the
   current state, which does not change meanwhile. *)
CreateInv ==
    /\ \A s \in Snapshots : <<"create", s>> \in pending => taken[s] = NoFiles
    /\ op.kind = "create" =>
         /\ ~Known(op.id)
         /\ current = taken[op.id]
         /\ \A f \in Files \ op.todo : snap[op.id][f] = current[f]

RestoreInv ==
    op.kind = "restore" =>
        /\ \A f \in Files \ op.todo : staged[f] = snap[op.id][f]
        /\ "disk" \notin op.todo => snap[op.id]["disk"] # 0

DeleteInv ==
    op.kind = "delete" => \A f \in Files \ op.todo : snap[op.id][f] = 0

(* What every step of the store keeps: beyond the types, the machine's files
   and the known snapshots are of one generation until a delete ends half way,
   and the files copied or removed so far by the job in flight are accounted
   for. *)
StoreInv ==
    /\ TypeOK
    /\ CoherentUntilHalfDeleted
    /\ KnownInv
    /\ CreateInv
    /\ RestoreInv
    /\ DeleteInv

(* What every step of the lists keeps, wherever a delete ends half way: between
   snapshots.json and the user there is only what a job has returned, and an
   identifier is listed once, by the one create that took it. *)
Doing(kind, s) == <<kind, s>> \in pending \/ (op.kind = kind /\ op.id = s)

Unlisted(s) ==
    /\ s \notin json \union shown
    /\ <<"create", s>> \notin returning
    /\ <<"delete", s>> \notin returning
    /\ ~Doing("restore", s)
    /\ ~Doing("delete", s)

ListInv ==
    /\ current["disk"] # 0
    /\ op.kind = "restore" /\ "disk" \notin op.todo => staged["disk"] # 0
    /\ \A s \in Snapshots :
          /\ <<"restore", s>> \notin returning
          /\ <<"create", s>> \in pending => taken[s] = NoFiles
          /\ op.kind = "create" /\ op.id = s => taken[s] # NoFiles /\ Unlisted(s)
          /\ taken[s] = NoFiles => Unlisted(s)
          /\ <<"create", s>> \in returning =>
                /\ s \in json \ shown
                /\ <<"delete", s>> \notin returning
                /\ ~Doing("delete", s)
          /\ <<"delete", s>> \in returning => s \notin json
          /\ s \in json \ shown => <<"create", s>> \in returning
          /\ s \in shown \ json => <<"delete", s>> \in returning
=============================================================================
