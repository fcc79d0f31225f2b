--------------------------- MODULE DiskExclusion ---------------------------
(***************************************************************************)
(* Who may use the disk of one machine: AppModel.start, exportMachineDisk  *)
(* and the operations that call ensureMachineIdle (create and restore a    *)
(* snapshot, clone, delete), on top of what RuntimeContract says of the    *)
(* machine's runtime.                                                      *)
(*                                                                         *)
(* AppModel runs on the main actor, so the checks before an await are one  *)
(* step; the await is the time in which the files are copied or removed.   *)
(* ensureMachineIdle asks the runtime for its state, exportMachineDisk the *)
(* list; removeCustomInputProfile can put an old list back, so the two are *)
(* kept apart here.                                                        *)
(***************************************************************************)
EXTENDS RuntimeContract

CONSTANT Ops        \* the ensureMachineIdle operations that may be in flight

VARIABLES
    exporting,      \* exportingMachineIDs contains the machine
    ops,            \* what each operation does to the machine's files
    listed,         \* machines contains the machine
    recorded,       \* Machine.runtimeState in the list
    previous        \* its value in the copies of the list that calls of
                    \* removeCustomInputProfile in flight may put back

listVars == <<recorded, previous>>
diskVars == <<exporting, ops, listed, listVars>>
vars == <<contractVars, diskVars>>

OpKind == {"idle", "snapshot", "restore", "clone", "delete"}

TypeOK ==
    /\ ContractTypeOK
    /\ exporting \in BOOLEAN
    /\ ops \in [Ops -> OpKind]
    /\ listed \in BOOLEAN
    /\ recorded \in RuntimeState
    /\ previous \subseteq RuntimeState

Init ==
    /\ ContractInit
    /\ exporting = FALSE
    /\ ops = [o \in Ops |-> "idle"]
    /\ listed = TRUE
    /\ recorded = state
    /\ previous = {}

(* The stateHandler of the runtime: transition() records the state in the
   list, in the same step.  A step that keeps the state may be one that
   reports it again. *)
Record ==
    /\ \/ recorded' = state'
       \/ state' = state /\ UNCHANGED recorded
    /\ UNCHANGED previous

(* Mutant of EnsureMachineIdle: the state of the runtime is not looked at. *)
MutantIdleIgnoresState == ~exporting /\ ~starting

EnsureMachineIdle == ~exporting /\ ~starting /\ state = "stopped"

(* createSnapshot, restoreSnapshot, cloneMachine and deleteMachine up to the
   await of the store; the entry in ops is not in the code, which keeps no
   record of an operation in flight. *)
BeginOp(o, kind) ==
    /\ listed
    /\ ops[o] = "idle"
    /\ EnsureMachineIdle
    /\ ops' = [ops EXCEPT ![o] = kind]
    /\ UNCHANGED <<contractVars, exporting, listed, listVars>>

(* The store is done, or has failed.  deleteMachine then forgets the machine
   and its runtime, whatever the runtime does by now. *)
EndOp(o) ==
    /\ ops[o] # "idle"
    /\ \/ listed' = (listed /\ ops[o] # "delete")
       \/ UNCHANGED listed
    /\ ops' = [ops EXCEPT ![o] = "idle"]
    /\ UNCHANGED <<contractVars, exporting, listVars>>

(* Mutant of BeginExport: startingMachineIDs is not looked at. *)
MutantExportWhileStarting ==
    /\ listed
    /\ ~exporting
    /\ recorded = "stopped"
    /\ exporting' = TRUE
    /\ UNCHANGED <<contractVars, ops, listed, listVars>>

(* exportMachineDisk up to the copy; a refused export changes nothing.  It
   asks the list, and the caller's copy of the machine, which can only refuse
   more. *)
BeginExport ==
    /\ listed
    /\ ~exporting
    /\ ~starting
    /\ recorded = "stopped"
    /\ exporting' = TRUE
    /\ UNCHANGED <<contractVars, ops, listed, listVars>>

EndExport ==
    /\ exporting
    /\ exporting' = FALSE
    /\ UNCHANGED <<contractVars, ops, listed, listVars>>

(* Mutant of AppStart: exportingMachineIDs is not looked at. *)
MutantStartIgnoresExport ==
    /\ listed
    /\ BeginStart
    /\ Record
    /\ UNCHANGED <<exporting, ops, listed>>

(* AppModel.start: refused while an export is in flight, and only then. *)
AppStart ==
    /\ listed
    /\ ~exporting
    /\ BeginStart
    /\ Record
    /\ UNCHANGED <<exporting, ops, listed>>

(* The runtime, as it promises. *)
RuntimeStep ==
    /\ PowerOn \/ PowerOff \/ Report \/ EndStart
    /\ Record
    /\ UNCHANGED <<exporting, ops, listed>>

(* removeCustomInputProfile up to the await of the save: it keeps a copy of
   the list. *)
BeginRemoveProfile ==
    /\ listed
    /\ previous' = previous \union {recorded}
    /\ UNCHANGED <<contractVars, exporting, ops, listed, recorded>>

(* The save is done, or has failed and `machines = previous' puts the copy
   back, with whatever state was recorded then.  A machine that was deleted
   meanwhile comes back without files, so it stays out of the model. *)
EndRemoveProfile ==
    \E old \in previous :
        /\ recorded' \in {recorded, old}
        /\ previous' \in {previous, previous \ {old}}
        /\ UNCHANGED <<contractVars, exporting, ops, listed>>

Next ==
    \/ \E o \in Ops : EndOp(o) \/ \E k \in OpKind \ {"idle"} : BeginOp(o, k)
    \/ BeginExport \/ EndExport
    \/ AppStart
    \/ RuntimeStep
    \/ BeginRemoveProfile \/ EndRemoveProfile

Spec == Init /\ [][Next]_vars

-----------------------------------------------------------------------------
(* Properties                                                               *)

(* A machine shown as stopped or failed, with no start() of it in flight, is
   powered off. *)
QuietIsOff == ~starting /\ state \in CanStart => ~alive

(* No start() is in flight while exportMachineDisk copies the disk. *)
ExportExcludesStart == exporting => ~starting

(* The inductive invariant: only a start() in flight can power a machine on,
   and none is in flight of a machine that is being exported. *)
ExclusionInv == TypeOK /\ QuietIsOff /\ ExportExcludesStart

(* Nothing powers a machine on while exportMachineDisk copies its disk, and
   the copy begins on a machine that is off, except when the list does not
   record the state of the runtime, which is after a failed
   removeCustomInputProfile has put an old list back. *)
ExportExcludesRun ==
    [][exporting' /\ alive' =>
          \/ exporting /\ alive
          \/ ~exporting /\ recorded # state]_vars

(* createSnapshot, restoreSnapshot, cloneMachine and deleteMachine, which
   passed ensureMachineIdle, begin on a machine that is powered off, not
   merely on one that says so: whatever the list records. *)
BeginsOff ==
    [][(\E o \in Ops : ops[o] = "idle" /\ ops'[o] # "idle") => ~alive]_vars

(* The files are copied, replaced or removed only while the machine is off,
   which is what ensureMachineIdle asks of the user. *)
OpsExcludeRun == \A o \in Ops : ops[o] # "idle" => ~alive
=============================================================================
