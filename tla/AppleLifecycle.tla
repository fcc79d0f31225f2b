--------------------------- MODULE AppleLifecycle ---------------------------
(***************************************************************************)
(* The lifecycle of ONE Apple Virtualization machine: AppModel.start, the  *)
(* MachineRuntime it calls (start, requestStop, forceStop and the delegate *)
(* of the VZVirtualMachine) and the framework's virtual machine.           *)
(*                                                                         *)
(* As in QEMULifecycle a call in flight has a program counter, and mainQ   *)
(* holds the jobs of the main actor.  The g-th start creates the           *)
(* VZVirtualMachine g; 0 stands for nil.                                   *)
(***************************************************************************)
EXTENDS Naturals, Sequences, Functions

CONSTANTS
    Calls,      \* concurrent requestStop and forceStop calls
    MaxStarts   \* bound: how often the machine is started

ASSUME ConstantsAssumption ==
    MaxStarts \in Nat \ {0} /\ "start" \notin Calls /\ "delegate" \notin Calls

VARIABLES
    state,              \* MachineRuntimeBase.state
    virtualMachine,     \* the VZVirtualMachine the runtime holds, 0 = nil
    tools,              \* state of the guest tools' connection
    vm,                 \* what each VZVirtualMachine does
    calls,              \* the calls in flight; calls["start"] is start()
    mainQ               \* jobs enqueued on the main actor

vars == <<state, virtualMachine, tools, vm, calls, mainQ>>
runtimeVars == <<state, virtualMachine, tools>>

Gens == 1..MaxStarts
Refs == 0..MaxStarts
Callers == Calls \union {"start"}
RuntimeState == {"stopped", "starting", "running", "stopping", "failed"}
CanStart == {"stopped", "failed"}

(* "checking": guestTools was started, no guest agent has answered a probe (or
   one without graceful shutdown has); "connected": supports(.gracefulShutdown). *)
Tools == {"stopped", "checking", "connected"}

(* "prepare": AppModel.start before MachineRuntime.start; "vzStart", "vzStop":
   VZVirtualMachine.start and stop; "guest": the guest agent's answer to a
   shutdown request; "return": a job on the main actor. *)
Call == [pc: {"idle", "prepare", "vzStart", "guest", "vzStop", "return"},
         vm: Refs]
NoCall == [pc |-> "idle", vm |-> 0]

Job == [call: {"start"}, st: {"prepared", "unprepared", "started", "error"}]
       \union [call: Calls, st: {"accepted", "refused", "vzStopped", "vzError"}]
       \union [call: {"delegate"}, st: CanStart]

TypeOK ==
    /\ state \in RuntimeState
    /\ virtualMachine \in Refs
    /\ tools \in Tools
    /\ vm \in [Gens -> {"none", "starting", "on", "off"}]
    /\ calls \in [Callers -> Call]
    /\ mainQ \in Seq(Job)

Init ==
    /\ state = "stopped"
    /\ virtualMachine = 0
    /\ tools = "stopped"
    /\ vm = [g \in Gens |-> "none"]
    /\ calls = [c \in Callers |-> NoCall]
    /\ mainQ = <<>>

SetCall(c, call) == calls' = [calls EXCEPT ![c] = call]
Enqueue(c, r) == mainQ' = Append(mainQ, [call |-> c, st |-> r])
ResumeWith(c, r) ==
    /\ calls' = [calls EXCEPT ![c].pc = "return"]
    /\ Enqueue(c, r)
Resumes(c, r) ==
    /\ mainQ # <<>>
    /\ Head(mainQ) = [call |-> c, st |-> r]
    /\ mainQ' = Tail(mainQ)

IsStarting == calls["start"].pc # "idle"
Created == {g \in Gens : vm[g] # "none"}

(* clearVirtualMachine(). *)
ClearVirtualMachine == virtualMachine' = 0 /\ tools' = "stopped"

-----------------------------------------------------------------------------
(* start()                                                                  *)

(* AppModel.start up to its first await. *)
Start ==
    /\ state \in CanStart
    /\ ~IsStarting
    /\ Created # Gens
    /\ SetCall("start", [pc |-> "prepare", vm |-> 0])
    /\ UNCHANGED <<runtimeVars, vm, mainQ>>

(* The files are resolved, Rosetta is there and the configuration is made, or
   one of them fails. *)
Prepare ==
    /\ calls["start"].pc = "prepare"
    /\ \E r \in {"prepared", "unprepared"} : ResumeWith("start", r)
    /\ UNCHANGED <<runtimeVars, vm>>

NotPrepared ==
    /\ Resumes("start", "unprepared")
    /\ SetCall("start", NoCall)
    /\ UNCHANGED <<runtimeVars, vm>>

(* MachineRuntime.start up to VZVirtualMachine.start; nothing unless the state
   can start. *)
StartRuntime ==
    /\ Resumes("start", "prepared")
    /\ IF state \in CanStart
       THEN \E g \in Gens :
              /\ Created = 1..(g - 1)
              /\ state' = "starting"
              /\ virtualMachine' = g
              /\ vm' = [vm EXCEPT ![g] = "starting"]
              /\ SetCall("start", [pc |-> "vzStart", vm |-> g])
              /\ UNCHANGED tools
       ELSE /\ SetCall("start", NoCall)
            /\ UNCHANGED <<runtimeVars, vm>>

Started ==
    /\ Resumes("start", "started")
    /\ state' = "running"
    /\ tools' = "checking"
    /\ SetCall("start", NoCall)
    /\ UNCHANGED <<virtualMachine, vm>>

StartFailed ==
    /\ Resumes("start", "error")
    /\ ClearVirtualMachine
    /\ state' = "failed"
    /\ SetCall("start", NoCall)
    /\ UNCHANGED vm

-----------------------------------------------------------------------------
(* requestStop() and forceStop()                                            *)

(* requestStop() of the VZVirtualMachine g: accepted by one that is on. *)
AskToStop(c, g) ==
    /\ \/ vm[g] = "on" /\ state' = "stopping"
       \/ UNCHANGED state
    /\ SetCall(c, NoCall)
    /\ UNCHANGED <<virtualMachine, tools, vm>>

RequestStop(c) ==
    /\ calls[c].pc = "idle"
    /\ virtualMachine # 0 /\ state = "running"
    /\ IF tools = "connected"
       THEN /\ SetCall(c, [pc |-> "guest", vm |-> virtualMachine])
            /\ UNCHANGED <<runtimeVars, vm>>
       ELSE AskToStop(c, virtualMachine)
    /\ UNCHANGED mainQ

(* Mutant of StillCurrent: `self.virtualMachine === virtualMachine' is not
   checked again after the await, only the state is. *)
MutantMachineNotRechecked(c) == state = "running"

(* The machine the call began with is still the runtime's, and running. *)
StillCurrent(c) == virtualMachine = calls[c].vm /\ state = "running"

(* The guest took the shutdown request. *)
ShutdownRequested(c) ==
    /\ Resumes(c, "accepted")
    /\ state' = IF StillCurrent(c) THEN "stopping" ELSE state
    /\ SetCall(c, NoCall)
    /\ UNCHANGED <<virtualMachine, tools, vm>>

ShutdownRefused(c) ==
    /\ Resumes(c, "refused")
    /\ IF StillCurrent(c)
       THEN AskToStop(c, calls[c].vm)
       ELSE SetCall(c, NoCall) /\ UNCHANGED <<runtimeVars, vm>>

(* Mutant of ForceStop: .stopped is shown before the machine has stopped. *)
MutantStoppedTooEarly(c) ==
    /\ calls[c].pc = "idle"
    /\ virtualMachine # 0 /\ state \in {"running", "stopping"}
    /\ state' = "stopped"
    /\ SetCall(c, [pc |-> "vzStop", vm |-> virtualMachine])
    /\ UNCHANGED <<virtualMachine, tools, vm, mainQ>>

ForceStop(c) ==
    /\ calls[c].pc = "idle"
    /\ virtualMachine # 0 /\ state \in {"running", "stopping"}
    /\ state' = "stopping"
    /\ SetCall(c, [pc |-> "vzStop", vm |-> virtualMachine])
    /\ UNCHANGED <<virtualMachine, tools, vm, mainQ>>

(* Mutant of ForceStopped: an error of VZVirtualMachine.stop is ignored. *)
MutantForceStopErrorIsStopped(c) ==
    /\ mainQ # <<>> /\ Head(mainQ).call = c
    /\ Head(mainQ).st \in {"vzStopped", "vzError"}
    /\ mainQ' = Tail(mainQ)
    /\ ClearVirtualMachine
    /\ state' = "stopped"
    /\ SetCall(c, NoCall)
    /\ UNCHANGED vm

(* forceStop returns; neither branch checks that the runtime still holds the
   machine the call began with. *)
ForceStopped(c) ==
    /\ Resumes(c, "vzStopped")
    /\ ClearVirtualMachine
    /\ state' = "stopped"
    /\ SetCall(c, NoCall)
    /\ UNCHANGED vm

(* Mutant of ForceStopFailed: the machine is forgotten after an error too. *)
MutantForgetsMachine(c) ==
    /\ Resumes(c, "vzError")
    /\ ClearVirtualMachine
    /\ state' = "running"
    /\ SetCall(c, NoCall)
    /\ UNCHANGED vm

ForceStopFailed(c) ==
    /\ Resumes(c, "vzError")
    /\ state' = "running"
    /\ SetCall(c, NoCall)
    /\ UNCHANGED <<virtualMachine, tools, vm>>

(* handleDelegateState: the guest stopped, or the machine failed. *)
HandleDelegateState ==
    /\ \E s \in CanStart : Resumes("delegate", s) /\ state' = s
    /\ ClearVirtualMachine
    /\ UNCHANGED <<vm, calls>>

-----------------------------------------------------------------------------
(* The guest agent and Virtualization.framework (external).                 *)

(* GuestToolsCoordinator.probe and retry, from start() to stop(): the agent
   answers with graceful shutdown among its capabilities, or it does not. *)
ProbeTools ==
    /\ tools # "stopped"
    /\ tools' \in {"checking", "connected"}
    /\ UNCHANGED <<state, virtualMachine, vm, calls, mainQ>>

GuestAnswers(c) ==
    /\ calls[c].pc = "guest"
    /\ \E r \in {"accepted", "refused"} : ResumeWith(c, r)
    /\ UNCHANGED <<runtimeVars, vm>>

VZStart ==
    LET g == calls["start"].vm IN
    /\ calls["start"].pc = "vzStart"
    /\ \/ vm' = [vm EXCEPT ![g] = "on"] /\ ResumeWith("start", "started")
       \/ vm' = [vm EXCEPT ![g] = "off"] /\ ResumeWith("start", "error")
    /\ UNCHANGED runtimeVars

(* stop() of a machine that is off is an error; one that is on may refuse. *)
VZStop(c) ==
    LET g == calls[c].vm IN
    /\ calls[c].pc = "vzStop"
    /\ \/ /\ vm[g] = "on"
          /\ vm' = [vm EXCEPT ![g] = "off"]
          /\ ResumeWith(c, "vzStopped")
       \/ UNCHANGED vm /\ ResumeWith(c, "vzError")
    /\ UNCHANGED runtimeVars

(* guestDidStop and didStopWithError. *)
VZEnds(g) ==
    /\ vm[g] = "on"
    /\ vm' = [vm EXCEPT ![g] = "off"]
    /\ \E s \in CanStart : Enqueue("delegate", s)
    /\ UNCHANGED <<runtimeVars, calls>>

-----------------------------------------------------------------------------

MainJob ==
    \/ NotPrepared \/ StartRuntime \/ Started \/ StartFailed
    \/ HandleDelegateState
    \/ \E c \in Calls : \/ ShutdownRequested(c) \/ ShutdownRefused(c)
                        \/ ForceStopped(c) \/ ForceStopFailed(c)

Next ==
    \/ Start \/ Prepare \/ VZStart
    \/ \E c \in Calls : \/ RequestStop(c) \/ ForceStop(c)
                        \/ GuestAnswers(c) \/ VZStop(c)
    \/ \E g \in Gens : VZEnds(g)
    \/ ProbeTools
    \/ MainJob

Spec == Init /\ [][Next]_vars

-----------------------------------------------------------------------------
(* Properties                                                               *)

Alive(g) == vm[g] = "on"

(* A machine shown as stopped or failed, with no start() in flight, has no
   virtual machine powered on, so that start() never adds a second one. *)
QuietMeansOff == state \in CanStart /\ ~IsStarting => \A g \in Gens : ~Alive(g)

(* The machine the runtime holds is the newest one, and every older one is
   off: no late answer of forceStop or of the delegate brings one back. *)
OnlyNewest ==
    \A g \in Gens : Alive(g) => g = virtualMachine /\ Created = 1..g

(* The jobs that report the end of a virtual machine. *)
Ends(job) == job.call = "delegate" \/ job.st = "vzStopped"
(* A start in flight that has not powered a virtual machine on. *)
NotOn ==
    \/ calls["start"].pc \in {"prepare", "vzStart"}
    \/ \E j \in Range(mainQ) : j.call = "start" /\ j.st # "started"

(* A call has one job at a time, and one job reports the end of a machine. *)
JobsInv ==
    /\ IsInjective(mainQ)
    /\ \A i, j \in Range(mainQ) : i.call = j.call \/ (Ends(i) /\ Ends(j)) => i = j
    /\ \A j \in Range(mainQ) : j.call # "delegate" => calls[j.call].pc = "return"
    /\ \A c \in Calls : /\ calls[c].pc \in {"idle", "guest", "vzStop", "return"}
                        /\ calls[c].pc # "idle" => calls[c].vm # 0

(* The virtual machine that start() is waiting for. *)
StartingInv ==
    /\ \A g \in Gens : vm[g] = "starting"
          <=> calls["start"].pc = "vzStart" /\ calls["start"].vm = g
    /\ calls["start"].pc = "vzStart" =>
          /\ virtualMachine = calls["start"].vm
          /\ virtualMachine # 0 /\ Created = 1..virtualMachine
          /\ state \notin CanStart

(* Inductive: a machine that is on, or whose end is still to be handled, is
   shown as such, and the start that made it is over or about to return. *)
LifecycleInv ==
    /\ TypeOK
    /\ JobsInv
    /\ StartingInv
    /\ OnlyNewest
    /\ (\E g \in Gens : Alive(g)) \/ (\E j \in Range(mainQ) : Ends(j))
          => state \notin CanStart /\ ~NotOn
    /\ ~ \E g \in Gens, j \in Range(mainQ) : Alive(g) /\ Ends(j)

(* Only a machine that runs and that the runtime holds begins to stop, and when
   a call ends with that, it is the machine the call was made for: the guest's
   late answer to a shutdown request touches neither a machine that has ended
   since nor the one that was started after it. *)
NoStaleStop ==
    [][state # "stopping" /\ state' = "stopping" =>
          /\ state = "running" /\ virtualMachine # 0
          /\ \A c \in Calls : calls[c].pc # "idle" /\ calls'[c].pc = "idle"
                => calls[c].vm = virtualMachine]_vars

(* The runtime keeps the promises AppModel builds on. *)
Contract == INSTANCE RuntimeContract WITH
    starting <- IsStarting, alive <- \E g \in Gens : Alive(g)
ImplementsContract == Contract!ContractSpec
=============================================================================
