------------------------ MODULE DiskExclusion_proofs ------------------------
(***************************************************************************)
(* Proofs about DiskExclusion, for every set Ops of operations in flight   *)
(* and every runtime that keeps RuntimeContract.                           *)
(***************************************************************************)
EXTENDS DiskExclusion, TLAPS

(* A machine is off and nothing is in flight when the library is loaded. *)
LEMMA InitInv == Init => ExclusionInv
  BY DEF Init, ContractInit, ExclusionInv, TypeOK, ContractTypeOK, RuntimeState,
         CanStart, OpKind, QuietIsOff, ExportExcludesStart

(* What the runtime does by itself, whoever else uses the disk, begins no
   start(), and powers a machine on only during one. *)
LEMMA RuntimeStepInv == ExclusionInv /\ RuntimeStep => ExclusionInv'
  <1> SUFFICES ASSUME ExclusionInv, RuntimeStep
               PROVE  ExclusionInv'
    OBVIOUS
  <1> USE DEF ExclusionInv, TypeOK, ContractTypeOK, RuntimeState, CanStart,
              QuietIsOff, ExportExcludesStart
  <1>1. UNCHANGED <<exporting, ops, listed, previous>>
    BY DEF RuntimeStep, Record
  <1>2. ContractTypeOK' /\ QuietIsOff' /\ (starting' => starting)
    <2>1. CASE PowerOn
      BY <2>1 DEF PowerOn
    <2>2. CASE PowerOff
      BY <2>2 DEF PowerOff
    <2>3. CASE Report
      BY <2>3 DEF Report, MayShow
    <2>4. CASE EndStart
      BY <2>4 DEF EndStart, MayShow
    <2> QED
      BY <2>1, <2>2, <2>3, <2>4 DEF RuntimeStep
  <1>3. recorded' \in RuntimeState
    BY <1>2 DEF RuntimeStep, Record
  <1> QED
    BY <1>1, <1>2, <1>3

(* Every step of AppModel and of the runtime preserves ExclusionInv. *)
LEMMA NextInv == ExclusionInv /\ [Next]_vars => ExclusionInv'
  <1> SUFFICES ASSUME ExclusionInv, [Next]_vars
               PROVE  ExclusionInv'
    OBVIOUS
  <1> USE DEF ExclusionInv, TypeOK, ContractTypeOK, QuietIsOff,
              ExportExcludesStart
  <1>1. ASSUME NEW o \in Ops, EndOp(o)
        PROVE  ExclusionInv'
    BY <1>1 DEF EndOp, OpKind, contractVars, listVars
  <1>2. ASSUME NEW o \in Ops, NEW k \in OpKind \ {"idle"}, BeginOp(o, k)
        PROVE  ExclusionInv'
    BY <1>2 DEF BeginOp, OpKind, contractVars, listVars
  <1>3. CASE BeginExport
    BY <1>3 DEF BeginExport, contractVars, listVars
  <1>4. CASE EndExport
    BY <1>4 DEF EndExport, contractVars, listVars
  <1>5. CASE AppStart
    BY <1>5 DEF AppStart, BeginStart, Record, RuntimeState
  <1>6. CASE RuntimeStep
    BY <1>6, RuntimeStepInv
  <1>7. CASE BeginRemoveProfile
    BY <1>7 DEF BeginRemoveProfile, contractVars
  <1>8. CASE EndRemoveProfile
    BY <1>8 DEF EndRemoveProfile, contractVars
  <1>9. CASE UNCHANGED vars
    BY <1>9 DEF vars, contractVars, diskVars, listVars
  <1> QED
    BY <1>1, <1>2, <1>3, <1>4, <1>5, <1>6, <1>7, <1>8, <1>9 DEF Next

(* The guards of start(), exportMachineDisk and ensureMachineIdle keep the
   inductive invariant in every reachable state. *)
THEOREM ExclusionTheorem == Spec => []ExclusionInv
  BY InitInv, NextInv, PTL DEF Spec

(* Nothing powers a machine on while exportMachineDisk copies its disk, and
   the copy begins on a machine that is off unless removeCustomInputProfile
   has put back a list that does not record the runtime's state. *)
THEOREM ExportExcludesRunTheorem == Spec => ExportExcludesRun
  <1> DEFINE Allowed == \/ exporting /\ alive
                        \/ ~exporting /\ recorded # state
  <1>1. ExclusionInv /\ [Next]_vars => [exporting' /\ alive' => Allowed]_vars
    <2> SUFFICES ASSUME ExclusionInv, Next, exporting', alive'
                 PROVE  Allowed
      OBVIOUS
    <2> USE DEF ExclusionInv, QuietIsOff, ExportExcludesStart, TypeOK, CanStart
    <2>1. ASSUME NEW o \in Ops, EndOp(o)
          PROVE  Allowed
      BY <2>1 DEF EndOp, contractVars
    <2>2. ASSUME NEW o \in Ops, NEW k \in OpKind, BeginOp(o, k)
          PROVE  Allowed
      BY <2>2 DEF BeginOp, EnsureMachineIdle, contractVars
    <2>3. CASE BeginExport
      BY <2>3 DEF BeginExport, contractVars
    <2>4. CASE EndExport
      BY <2>4 DEF EndExport
    <2>5. CASE AppStart
      BY <2>5 DEF AppStart, BeginStart
    <2>6. CASE RuntimeStep
      <3>1. exporting /\ ~starting
        BY <2>6 DEF RuntimeStep
      <3>2. alive
        BY <2>6, <3>1 DEF RuntimeStep, PowerOn, PowerOff, Report, EndStart
      <3> QED
        BY <3>1, <3>2
    <2>7. CASE BeginRemoveProfile
      BY <2>7 DEF BeginRemoveProfile, contractVars
    <2>8. CASE EndRemoveProfile
      BY <2>8 DEF EndRemoveProfile, contractVars
    <2> QED
      BY <2>1, <2>2, <2>3, <2>4, <2>5, <2>6, <2>7, <2>8 DEF Next
  <1> QED
    BY <1>1, ExclusionTheorem, PTL DEF Spec, ExportExcludesRun

(* An operation that passed ensureMachineIdle begins on a machine that is
   off, whatever the list records of it. *)
THEOREM BeginsOffTheorem == Spec => BeginsOff
  <1> DEFINE Begins == \E o \in Ops : ops[o] = "idle" /\ ops'[o] # "idle"
  <1>1. ExclusionInv /\ [Next]_vars => [Begins => ~alive]_vars
    <2> SUFFICES ASSUME ExclusionInv, Next, Begins
                 PROVE  ~alive
      BY DEF vars
    <2> USE DEF ExclusionInv, QuietIsOff, TypeOK, CanStart
    <2>1. ASSUME NEW o \in Ops, EndOp(o)
          PROVE  ~alive
      BY <2>1 DEF EndOp
    <2>2. ASSUME NEW o \in Ops, NEW k \in OpKind, BeginOp(o, k)
          PROVE  ~alive
      BY <2>2 DEF BeginOp, EnsureMachineIdle
    <2>3. CASE BeginExport \/ EndExport
      BY <2>3 DEF BeginExport, EndExport
    <2>4. CASE AppStart
      BY <2>4 DEF AppStart
    <2>5. CASE RuntimeStep
      BY <2>5 DEF RuntimeStep
    <2>6. CASE BeginRemoveProfile \/ EndRemoveProfile
      BY <2>6 DEF BeginRemoveProfile, EndRemoveProfile
    <2> QED
      BY <2>1, <2>2, <2>3, <2>4, <2>5, <2>6 DEF Next
  <1> QED
    BY <1>1, ExclusionTheorem, PTL DEF Spec, BeginsOff
=============================================================================
