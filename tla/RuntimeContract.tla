--------------------------- MODULE RuntimeContract ---------------------------
(***************************************************************************)
(* What AppModel relies on when it decides that nothing uses a machine's   *)
(* disk: the state a MachineRuntimeBase reports, whether a start() of the  *)
(* machine is in flight (startingMachineIDs), and whether a virtual        *)
(* machine really is powered on.  QEMULifecycle and AppleLifecycle are     *)
(* shown to implement it; DiskExclusion is built on it.                    *)
(***************************************************************************)

VARIABLES
    state,      \* MachineRuntimeBase.state, recorded in Machine.runtimeState
    starting,   \* startingMachineIDs contains the machine
    alive       \* a virtual machine of this machine is powered on

contractVars == <<state, starting, alive>>

RuntimeState == {"stopped", "starting", "running", "stopping", "failed"}
CanStart == {"stopped", "failed"}

ContractTypeOK ==
    /\ state \in RuntimeState
    /\ starting \in BOOLEAN
    /\ alive \in BOOLEAN

ContractInit ==
    /\ state = "stopped"
    /\ starting = FALSE
    /\ alive = FALSE

(* A state s may be shown when no start is in flight. *)
MayShow(s) == s \in CanStart => ~alive

(* start() is entered, by the user or at the end of a restart. *)
BeginStart ==
    /\ ~starting
    /\ starting' = TRUE
    /\ state' \in {state, "stopped"}
    /\ UNCHANGED alive

(* Only a start in flight powers the machine on. *)
PowerOn ==
    /\ starting
    /\ ~alive
    /\ alive' = TRUE
    /\ UNCHANGED <<state, starting>>

(* Powered off by a stop, by the guest, or by a crash. *)
PowerOff ==
    /\ alive
    /\ alive' = FALSE
    /\ UNCHANGED <<state, starting>>

(* Another state is reported; a machine that is powered on is never shown as
   stopped or failed, unless a start of it is in flight. *)
Report ==
    /\ state' \in RuntimeState
    /\ starting \/ MayShow(state')
    /\ UNCHANGED <<starting, alive>>

(* start() returns. *)
EndStart ==
    /\ starting
    /\ starting' = FALSE
    /\ state' \in RuntimeState
    /\ MayShow(state')
    /\ UNCHANGED alive

ContractNext == BeginStart \/ PowerOn \/ PowerOff \/ Report \/ EndStart

ContractSpec == ContractInit /\ [][ContractNext]_contractVars
=============================================================================
