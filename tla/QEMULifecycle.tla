--------------------------- MODULE QEMULifecycle ---------------------------
(***************************************************************************)
(* The lifecycle of ONE QEMU machine: AppModel.start / requestStop /       *)
(* forceStop / requestReboot, the QEMUMachineRuntime they call, the        *)
(* QEMUProcessController and SoftwareTPMProcessController actors it owns   *)
(* and the two child processes, qemu and swtpm.                            *)
(*                                                                         *)
(* Every `await' of the code is a place where other main-actor work runs,  *)
(* so a call in flight is a record with a program counter.  A call that    *)
(* waits on another actor is resumed by a job on the main actor, which     *)
(* runs its jobs in the order they were enqueued (mainQ).  The controller  *)
(* created by the g-th start is the controller g; 0 stands for nil.        *)
(***************************************************************************)
EXTENDS Naturals, Sequences, FiniteSets

CONSTANTS
    Calls,              \* concurrent stop / forceStop / reboot calls
    MaxStarts,          \* bound: how often the machine is started
    OperatingSystems,   \* "windows" machines have a software TPM and restart
                        \* through stop and start, "linux" ones guest tools
    DisplayBackends,    \* "spice" and "vnc"
    Sequential          \* the user waits: Start and Restart are pressed only
                        \* when every stop, forceStop and reboot call has
                        \* returned, nothing is pressed during a Restart

ASSUME ConstantsAssumption ==
    /\ MaxStarts \in Nat \ {0}
    /\ "start" \notin Calls
    /\ OperatingSystems \subseteq {"linux", "windows"}
    /\ DisplayBackends \subseteq {"vnc", "spice"}
    /\ Sequential \in BOOLEAN

VARIABLES
    operatingSystem,        \* of the machine; never changes
    displayBackend,         \* of the QEMU runtime; never changes
    state,                  \* MachineRuntimeBase.state
    runtimeGeneration,
    processController,      \* generation of the controller, 0 = nil
    softwareTPMController,  \* likewise
    tools,                  \* state of the guest tools' connection
    display,                \* progress of the display connection of start()
    qemu,                   \* per generation: the actor and its OS process
    swtpm,                  \* per generation: the swtpm process
    calls,                  \* the calls in flight; calls["start"] is start()
    finishing,              \* finishAfterProcessExit tasks awaiting swtpm
    mainQ                   \* jobs enqueued on the main actor

machine == <<operatingSystem, displayBackend>>
vars == <<machine, state, runtimeGeneration, processController, softwareTPMController,
          tools, display, qemu, swtpm, calls, finishing, mainQ>>

Windows == operatingSystem = "windows"
UsesSPICE == displayBackend = "spice"

refVars == <<processController, softwareTPMController, tools, display>>
runtimeVars == <<state, runtimeGeneration, refVars>>
worldVars == <<qemu, swtpm>>

Gens == 1..MaxStarts
Refs == 0..MaxStarts
Callers == Calls \union {"start"}

RuntimeState == {"stopped", "starting", "running", "stopping", "failed"}
CanStart == {"stopped", "failed"}

(* What a call is waiting for.  "guest": the guest agent's answer to a
   shutdown request; "stop", "force": its turn on the controller actor;
   "qmp": QEMU's answers to system_powerdown, read on the actor without a time
   limit; "poll": the 100 ms loop of QEMUProcessController.stop; "killing":
   waitUntilExit after SIGKILL; "tpm": the end of swtpm; "return": its job on
   the main actor.  The others are the awaits of start(). *)
PC == {"idle", "guest", "stop", "qmp", "poll", "force", "killing", "tpm", "return",
       "prepare", "port", "tpmStart", "spawn", "display"}

Call == [pc: PC, ctl: Refs, tpm: Refs, reboot: BOOLEAN]
NoCall == [pc |-> "idle", ctl |-> 0, tpm |-> 0, reboot |-> FALSE]

(* "checking": guestTools was started, no guest agent has answered a probe (or
   one without graceful shutdown has); "connected": supports(.gracefulShutdown). *)
Tools == {"stopped", "checking", "connected"}

(* "waiting": no SPICE or VNC connection is being attempted; "connecting": the
   VNC client waits for QEMU's handshake; "pending": the SPICE connection's
   continuation is suspended; "answered": the SPICE delegate's callback is on
   its way to the main actor; "lost": disconnect() dropped the connection while
   the continuation was suspended; "up": connected. *)
Display == {"none", "waiting", "connecting", "pending", "answered", "lost", "up"}

(* os: "exited" until the terminationHandler's task has run. *)
Controller == [os: {"none", "alive", "exited", "reaped"}, process: BOOLEAN,
               expectsTermination: BOOLEAN, state: RuntimeState]
Result == {"stopped", "failed", "accepted", "refused", "requestFailed",
           "timedOut", "tpmStopped", "prepared", "unprepared", "allocated",
           "tpmReady", "spawned", "connected", "error"}
Job == [kind: {"exit", "finish", "return", "spice"}, gen: Refs, st: Result,
        call: Callers]

ReturnJob(c, r) == [kind |-> "return", gen |-> 0, st |-> r, call |-> c]
ExitJob(g, s) == [kind |-> "exit", gen |-> g, st |-> s, call |-> "start"]
FinishJob(g, s) == [kind |-> "finish", gen |-> g, st |-> s, call |-> "start"]
SpiceJob(r) == [kind |-> "spice", gen |-> 0, st |-> r, call |-> "start"]

TypeOK ==
    /\ operatingSystem \in OperatingSystems
    /\ displayBackend \in DisplayBackends
    /\ state \in RuntimeState
    /\ runtimeGeneration \in Refs
    /\ processController \in Refs
    /\ softwareTPMController \in Refs
    /\ tools \in Tools
    /\ display \in Display
    /\ qemu \in [Gens -> Controller]
    /\ swtpm \in [Gens -> {"none", "alive", "dead"}]
    /\ calls \in [Callers -> Call]
    /\ finishing \subseteq (Gens \X {"stopped", "failed"} \X Gens)
    /\ mainQ \in Seq(Job)

Init ==
    /\ operatingSystem \in OperatingSystems
    /\ displayBackend \in DisplayBackends
    /\ state = "stopped"
    /\ runtimeGeneration = 0
    /\ processController = 0
    /\ softwareTPMController = 0
    /\ tools = "stopped"
    /\ display = "none"
    /\ qemu = [g \in Gens |-> [os |-> "none", process |-> FALSE,
                               expectsTermination |-> FALSE,
                               state |-> "stopped"]]
    /\ swtpm = [g \in Gens |-> "none"]
    /\ calls = [c \in Callers |-> NoCall]
    /\ finishing = {}
    /\ mainQ = <<>>

SetCall(c, call) == calls' = [calls EXCEPT ![c] = call]
Resume(c, pc) == calls' = [calls EXCEPT ![c].pc = pc]
Enqueue(job) == mainQ' = Append(mainQ, job)
ResumeWith(c, r) == Resume(c, "return") /\ Enqueue(ReturnJob(c, r))
NoCallInFlight == \A c \in Calls : calls[c].pc = "idle"
RebootInFlight == \E c \in Calls : calls[c].reboot
IsStarting == calls["start"].pc # "idle"

-----------------------------------------------------------------------------
(* Main actor: what the calls share.                                        *)

(* clearRuntime(): forgets the controllers, stops the guest tools and
   disconnects the display; a suspended SPICE continuation is not resumed. *)
ClearRuntime ==
    /\ processController' = 0
    /\ softwareTPMController' = 0
    /\ tools' = "stopped"
    /\ display' = IF UsesSPICE /\ display \in {"pending", "answered"}
                  THEN "lost" ELSE display

(* The call c returns with the runtime in state s.  After the stop() of
   requestReboot a stopped machine is started; startingMachineIDs refuses a
   second start. *)
Return(c, call, s) ==
    calls' = IF call.reboot /\ s = "stopped" /\ ~IsStarting
             THEN [calls EXCEPT ![c] = NoCall,
                                !["start"] = [NoCall EXCEPT !.pc = "prepare"]]
             ELSE [calls EXCEPT ![c] = NoCall]

(* The end of stop() and forceStop(): no check that the generation is still
   the one the call began with.  requestReboot then starts the machine. *)
FinishCall(c, call) ==
    /\ ClearRuntime
    /\ state' = "stopped"
    /\ Return(c, call, "stopped")
    /\ UNCHANGED runtimeGeneration

(* The call `call' of c is suspended with the program counter pc. *)
Suspend(c, call, pc, ctl, tpm) ==
    /\ SetCall(c, [call EXCEPT !.pc = pc, !.ctl = ctl, !.tpm = tpm])
    /\ UNCHANGED <<runtimeGeneration, refVars>>

(* await softwareTPMController?.stop() or .forceStop(), then the end; a nil
   controller does not suspend. *)
StopTPMThenFinish(c, call, stateNow) ==
    IF softwareTPMController = 0
    THEN FinishCall(c, call)
    ELSE /\ Suspend(c, call, "tpm", 0, softwareTPMController)
         /\ state' = stateNow

(* await processController?.stop() (pc = "stop") or .forceStop() ("force"). *)
StopChildren(c, call, pc, stateNow) ==
    IF processController = 0
    THEN StopTPMThenFinish(c, call, stateNow)
    ELSE /\ Suspend(c, call, pc, processController, 0)
         /\ state' = stateNow

(* Mutant of FailStart: start() leaves its machine in startingMachineIDs. *)
MutantStartNotReleased ==
    /\ ClearRuntime
    /\ state' = "failed"
    /\ UNCHANGED <<runtimeGeneration, calls>>

(* Mutant of FailStart: the controllers of the failed start() are kept. *)
MutantControllersKept ==
    /\ state' = "failed"
    /\ SetCall("start", NoCall)
    /\ UNCHANGED <<runtimeGeneration, refVars>>

(* catch of start(): forceStop of both children, clearRuntime, .failed. *)
FailStart ==
    /\ ClearRuntime
    /\ state' = "failed"
    /\ SetCall("start", NoCall)
    /\ UNCHANGED runtimeGeneration

CatchTPM ==
    IF softwareTPMController = 0
    THEN FailStart
    ELSE /\ Suspend("start", NoCall, "tpm", 0, softwareTPMController)
         /\ UNCHANGED state

(* Mutant of Catch: a failed start() leaves its QEMU process running. *)
MutantCatchLeavesQEMU == CatchTPM

Catch ==
    IF processController = 0
    THEN CatchTPM
    ELSE /\ Suspend("start", NoCall, "force", processController, 0)
         /\ UNCHANGED state

-----------------------------------------------------------------------------
(* What the user does                                                       *)

(* AppModel.start up to its first await; startingMachineIDs refuses a second
   start. *)
Start ==
    /\ state \in CanStart
    /\ ~IsStarting
    /\ Sequential => NoCallInFlight
    /\ runtimeGeneration < MaxStarts
    /\ SetCall("start", [NoCall EXCEPT !.pc = "prepare"])
    /\ UNCHANGED <<machine, runtimeVars, worldVars, finishing, mainQ>>

(* stop(), from Shut Down or as the first half of a Windows Restart. *)
Stop(c) ==
    /\ calls[c].pc = "idle"
    /\ state \in {"running", "stopping"}
    /\ Sequential => ~RebootInFlight
    /\ \E reboot \in IF Windows THEN BOOLEAN ELSE {FALSE} :
        LET call == [NoCall EXCEPT !.reboot = reboot] IN
        /\ Sequential /\ reboot => NoCallInFlight
        /\ IF tools = "connected"
           THEN Suspend(c, call, "guest", 0, 0) /\ state' = "stopping"
           ELSE StopChildren(c, call, "stop", "stopping")
    /\ UNCHANGED <<machine, worldVars, finishing, mainQ>>

(* forceStop(); while starting only from forceStopAllMachines, on quitting. *)
ForceStop(c) ==
    /\ calls[c].pc = "idle"
    /\ state \in {"starting", "running", "stopping"}
    /\ Sequential => ~RebootInFlight
    /\ StopChildren(c, NoCall, "force", "stopping")
    /\ UNCHANGED <<machine, worldVars, finishing, mainQ>>

-----------------------------------------------------------------------------
(* What the calls wait for.  Each step ends an await and enqueues the rest of
   the call on the main actor.                                              *)

(* resolveFiles, the installer image and the Windows support tools. *)
Prepare ==
    /\ calls["start"].pc = "prepare"
    /\ \E r \in {"prepared", "unprepared"} : ResumeWith("start", r)
    /\ UNCHANGED <<machine, runtimeVars, worldVars, finishing>>

(* LoopbackPortAllocator.allocate; a failed discovery ends here too. *)
AllocatePort ==
    /\ calls["start"].pc = "port"
    /\ \E r \in {"allocated", "error"} : ResumeWith("start", r)
    /\ UNCHANGED <<machine, runtimeVars, worldVars, finishing>>

(* SoftwareTPMProcessController.start: swtpm created its socket, or it exited
   or made none in 15 s and is killed. *)
StartTPM ==
    LET g == calls["start"].tpm IN
    /\ calls["start"].pc = "tpmStart"
    /\ \/ /\ swtpm[g] = "alive"
          /\ ResumeWith("start", "tpmReady")
          /\ UNCHANGED swtpm
       \/ /\ swtpm' = [swtpm EXCEPT ![g] = "dead"]
          /\ ResumeWith("start", "error")
    /\ UNCHANGED <<machine, runtimeVars, qemu, finishing>>

(* QEMUProcessController.start: Process.run; or .failed and its error; or the
   log file cannot be opened, an error that leaves the state .starting. *)
Spawn ==
    LET g == calls["start"].ctl IN
    /\ calls["start"].pc = "spawn"
    /\ \/ /\ qemu' = [qemu EXCEPT ![g] = [os |-> "alive", process |-> TRUE,
                                          expectsTermination |-> FALSE,
                                          state |-> "running"]]
          /\ ResumeWith("start", "spawned")
       \/ /\ qemu' = [qemu EXCEPT ![g].state = "failed"]
          /\ Resume("start", "return")
          /\ mainQ' = mainQ \o <<ExitJob(g, "failed"),
                                 ReturnJob("start", "error")>>
       \/ /\ qemu' = [qemu EXCEPT ![g].state = "starting"]
          /\ ResumeWith("start", "error")
    /\ UNCHANGED <<machine, runtimeVars, swtpm, finishing>>

(* An attempt to connect: CSConnection.connect suspends the continuation until
   the delegate is called back, or the VNC client connects and shakes hands. *)
DisplayAttempt ==
    /\ calls["start"].pc = "display"
    /\ display = "waiting"
    /\ display' = IF UsesSPICE THEN "pending" ELSE "connecting"
    /\ UNCHANGED <<machine, state, runtimeGeneration, processController,
                   softwareTPMController, tools, worldVars, calls, finishing,
                   mainQ>>

SpiceCallback ==
    /\ UsesSPICE
    /\ calls["start"].pc = "display"
    /\ display = "pending"
    /\ \/ qemu[calls["start"].ctl].os = "alive" /\ Enqueue(SpiceJob("connected"))
       \/ Enqueue(SpiceJob("error"))
    /\ display' = "answered"
    /\ UNCHANGED <<machine, state, runtimeGeneration, processController,
                   softwareTPMController, tools, worldVars, calls, finishing>>

(* QEMU answered the handshake, whose reads have no time limit; it refused, or
   closed the socket. *)
VNCConnected ==
    /\ calls["start"].pc = "display" /\ display = "connecting"
    /\ qemu[calls["start"].ctl].os = "alive"
    /\ display' = "up"
    /\ ResumeWith("start", "connected")
    /\ UNCHANGED <<machine, state, runtimeGeneration, processController,
                   softwareTPMController, tools, worldVars, finishing>>

VNCFails ==
    /\ calls["start"].pc = "display" /\ display = "connecting"
    /\ display' = "waiting"
    /\ UNCHANGED <<machine, state, runtimeGeneration, processController,
                   softwareTPMController, tools, worldVars, calls, finishing,
                   mainQ>>

(* The hundredth attempt failed. *)
DisplayUnavailable ==
    /\ calls["start"].pc = "display"
    /\ display = "waiting"
    /\ ResumeWith("start", "error")
    /\ UNCHANGED <<machine, runtimeVars, worldVars, finishing>>

(* The guest agent's answer to the shutdown request. *)
GuestAnswers(c) ==
    /\ calls[c].pc = "guest"
    /\ \E r \in {"accepted", "refused"} : ResumeWith(c, r)
    /\ UNCHANGED <<machine, runtimeVars, worldVars, finishing>>

(* SoftwareTPMProcessController.stop or forceStop: swtpm has ended. *)
TPMStopped(c) ==
    /\ calls[c].pc = "tpm"
    /\ swtpm[calls[c].tpm] = "dead"
    /\ ResumeWith(c, "tpmStopped")
    /\ UNCHANGED <<machine, runtimeVars, worldVars, finishing>>

FinishingTPMStopped(f) ==
    /\ swtpm[f[3]] = "dead"
    /\ finishing' = finishing \ {f}
    /\ Enqueue(FinishJob(f[1], f[2]))
    /\ UNCHANGED <<machine, runtimeVars, worldVars, calls>>

-----------------------------------------------------------------------------
(* The QEMUProcessController actor.  Its jobs run in the order of the calls,
   so a stop runs after the start() that created the controller; and while
   one reads the answers of QMP, nothing else runs on the actor.            *)

ActorFree(g) == \A d \in Callers : calls[d].pc = "qmp" => calls[d].ctl # g

OnController(c, pcs) ==
    /\ calls[c].pc \in pcs
    /\ ActorFree(calls[c].ctl)
    /\ ~(calls["start"].pc = "spawn" /\ calls["start"].ctl = calls[c].ctl)

(* process == nil: .stopped, without suspending. *)
ControllerStopped(c) ==
    /\ OnController(c, {"stop", "force"})
    /\ ~qemu[calls[c].ctl].process
    /\ ResumeWith(c, "stopped")
    /\ UNCHANGED <<machine, runtimeVars, worldVars, finishing>>

(* stop: the QMP socket accepts the connection; or it is missing or refuses. *)
ControllerStop(c) ==
    LET g == calls[c].ctl IN
    /\ OnController(c, {"stop"})
    /\ qemu[g].process
    /\ \/ /\ qemu[g].os = "alive"
          /\ qemu' = [qemu EXCEPT ![g].state = "stopping",
                                  ![g].expectsTermination = TRUE]
          /\ Resume(c, "qmp")
          /\ UNCHANGED mainQ
       \/ /\ qemu' = [qemu EXCEPT ![g].state = "running",
                                  ![g].expectsTermination = FALSE]
          /\ ResumeWith(c, "requestFailed")
    /\ UNCHANGED <<machine, runtimeVars, swtpm, finishing>>

(* sendQMPCommand returns: QEMU answered its greeting and both commands, or a
   read or a write failed, as it does once QEMU has exited. *)
QMPAnswered(c) ==
    /\ calls[c].pc = "qmp"
    /\ \/ Resume(c, "poll") /\ UNCHANGED <<qemu, mainQ>>
       \/ /\ qemu' = [qemu EXCEPT ![calls[c].ctl].state = "running",
                                  ![calls[c].ctl].expectsTermination = FALSE]
          /\ ResumeWith(c, "requestFailed")
    /\ UNCHANGED <<machine, runtimeVars, swtpm, finishing>>

(* The 300 s of stop() are over. *)
PollTimesOut(c) ==
    /\ OnController(c, {"poll"})
    /\ qemu[calls[c].ctl].os = "alive"
    /\ ResumeWith(c, "timedOut")
    /\ UNCHANGED <<machine, runtimeVars, worldVars, finishing>>

(* forceStop: SIGKILL; waitUntilExit runs on a detached task. *)
ControllerKill(c) ==
    LET g == calls[c].ctl IN
    /\ OnController(c, {"force"})
    /\ qemu[g].process
    /\ qemu' = [qemu EXCEPT ![g].state = "stopping",
                            ![g].expectsTermination = TRUE,
                            ![g].os = IF @ = "alive" THEN "exited" ELSE @]
    /\ Resume(c, "killing")
    /\ UNCHANGED <<machine, runtimeVars, swtpm, finishing, mainQ>>

(* Mutants of ControllerCompletes: `guard !process.isRunning' is dropped;
   the call waits for a termination that was already handled. *)
MutantCompletesWhileRunning(c) ==
    LET g == calls[c].ctl IN
    /\ OnController(c, {"poll"})
    /\ qemu' = [qemu EXCEPT ![g].process = FALSE, ![g].state = "stopped"]
    /\ ResumeWith(c, "stopped")
    /\ UNCHANGED <<machine, runtimeVars, swtpm, finishing>>

MutantMissesTermination(c) ==
    LET g == calls[c].ctl IN
    /\ OnController(c, {"poll", "killing"})
    /\ qemu[g].os = "exited"
    /\ qemu[g].process
    /\ qemu' = [qemu EXCEPT ![g].process = FALSE,
                            ![g].expectsTermination = FALSE,
                            ![g].state = "stopped"]
    /\ Resume(c, "return")
    /\ mainQ' = mainQ \o <<ExitJob(g, "stopped"), ReturnJob(c, "stopped")>>
    /\ UNCHANGED <<machine, runtimeVars, swtpm, finishing>>

(* completeExpectedTermination of the process the call waited for. *)
ControllerCompletes(c) ==
    LET g == calls[c].ctl IN
    /\ OnController(c, {"poll", "killing"})
    /\ qemu[g].os \in {"exited", "reaped"}
    /\ IF qemu[g].process
       THEN /\ qemu' = [qemu EXCEPT ![g].process = FALSE,
                                    ![g].expectsTermination = FALSE,
                                    ![g].state = "stopped"]
            /\ Resume(c, "return")
            /\ mainQ' = mainQ \o <<ExitJob(g, "stopped"),
                                   ReturnJob(c, "stopped")>>
       ELSE /\ ResumeWith(c, "stopped")
            /\ UNCHANGED qemu
    /\ UNCHANGED <<machine, runtimeVars, swtpm, finishing>>

(* Mutant of ProcessTerminated: the stateHandler is not called. *)
MutantExitNotReported(g) ==
    /\ qemu[g].os = "exited"
    /\ ActorFree(g)
    /\ qemu' = [qemu EXCEPT ![g].os = "reaped", ![g].process = FALSE]
    /\ UNCHANGED <<machine, runtimeVars, swtpm, calls, finishing, mainQ>>

(* processTerminated: the terminationHandler's task reaches the actor. *)
ProcessTerminated(g) ==
    /\ qemu[g].os = "exited"
    /\ ActorFree(g)
    /\ IF qemu[g].process
       THEN \E s \in {"stopped", "failed"} :    \* exit status 0 or not
              /\ s = "failed" => /\ ~qemu[g].expectsTermination
                                 /\ qemu[g].state # "stopping"
              /\ qemu' = [qemu EXCEPT
                            ![g] = [os |-> "reaped", process |-> FALSE,
                                    expectsTermination |-> FALSE,
                                    state |-> s]]
              /\ Enqueue(ExitJob(g, s))
       ELSE /\ qemu' = [qemu EXCEPT ![g].os = "reaped"]
            /\ UNCHANGED mainQ
    /\ UNCHANGED <<machine, runtimeVars, swtpm, calls, finishing>>

-----------------------------------------------------------------------------
(* The child processes and the guest (external).                            *)

(* QEMU exits: powered down, shut down by its guest, or crashed. *)
QEMUExits(g) ==
    /\ qemu[g].os = "alive"
    /\ qemu' = [qemu EXCEPT ![g].os = "exited"]
    /\ UNCHANGED <<machine, runtimeVars, swtpm, calls, finishing, mainQ>>

(* swtpm exits: terminated, killed, or because its QEMU disconnected. *)
SwtpmExits(g) ==
    /\ swtpm[g] = "alive"
    /\ swtpm' = [swtpm EXCEPT ![g] = "dead"]
    /\ UNCHANGED <<machine, runtimeVars, qemu, calls, finishing, mainQ>>

(* GuestToolsCoordinator.probe and retry, from start() to stop(): the agent
   answers with graceful shutdown among its capabilities, or it does not. *)
ProbeTools ==
    /\ tools # "stopped"
    /\ tools' \in {"checking", "connected"}
    /\ UNCHANGED <<machine, state, runtimeGeneration, processController,
                   softwareTPMController, display, worldVars, calls,
                   finishing, mainQ>>

-----------------------------------------------------------------------------
(* Jobs of the main actor, in order.                                        *)

IsNext(kind) == mainQ # <<>> /\ Head(mainQ).kind = kind

(* Mutant of HandleExit: the software TPM is assumed to exist. *)
MutantExitAssumesTPM ==
    LET job == Head(mainQ) IN
    /\ IsNext("exit")
    /\ finishing' = IF job.gen # runtimeGeneration THEN finishing
                    ELSE finishing \union
                           {<<job.gen, job.st, softwareTPMController>>}
    /\ mainQ' = Tail(mainQ)
    /\ UNCHANGED <<machine, runtimeVars, worldVars, calls>>

(* handle(processState:generation:) and finishAfterProcessExit. *)
HandleExit ==
    LET job == Head(mainQ) IN
    /\ IsNext("exit")
    /\ IF job.gen # runtimeGeneration
       THEN /\ mainQ' = Tail(mainQ)
            /\ UNCHANGED <<softwareTPMController, finishing>>
       ELSE /\ softwareTPMController' = 0
            /\ IF softwareTPMController = 0
               THEN /\ mainQ' = Append(Tail(mainQ), FinishJob(job.gen, job.st))
                    /\ UNCHANGED finishing
               ELSE /\ mainQ' = Tail(mainQ)
                    /\ finishing' = finishing \union
                         {<<job.gen, job.st, softwareTPMController>>}
    /\ UNCHANGED <<machine, state, runtimeGeneration, processController,
                   tools, display, worldVars, calls>>

(* Mutant of FinishAfterExit: no second check of the generation after the
   await. *)
MutantFinishUnguarded ==
    /\ IsNext("finish")
    /\ ClearRuntime
    /\ state' = Head(mainQ).st
    /\ mainQ' = Tail(mainQ)
    /\ UNCHANGED <<machine, runtimeGeneration, worldVars, calls, finishing>>

FinishAfterExit ==
    LET job == Head(mainQ) IN
    /\ IsNext("finish")
    /\ IF job.gen = runtimeGeneration
       THEN /\ ClearRuntime
            /\ state' = job.st
            /\ UNCHANGED runtimeGeneration
       ELSE UNCHANGED runtimeVars
    /\ mainQ' = Tail(mainQ)
    /\ UNCHANGED <<machine, worldVars, calls, finishing>>

(* The SPICE delegate's task: only the current connection resumes. *)
HandleSpice ==
    /\ IsNext("spice")
    /\ IF display # "answered"
       THEN /\ mainQ' = Tail(mainQ)
            /\ UNCHANGED <<calls, display>>
       ELSE IF Head(mainQ).st = "connected"
       THEN /\ display' = "up"
            /\ Resume("start", "return")
            /\ mainQ' = Append(Tail(mainQ), ReturnJob("start", "connected"))
       ELSE /\ display' = "waiting"
            /\ mainQ' = Tail(mainQ)
            /\ UNCHANGED calls
    /\ UNCHANGED <<machine, state, runtimeGeneration, processController,
                   softwareTPMController, tools, worldVars, finishing>>

(* stop() and forceStop() resume with the guest's, the controller's or
   swtpm's answer. *)
HandleReturn(c) ==
    LET r == Head(mainQ).st IN
    /\ IsNext("return") /\ Head(mainQ).call = c
    /\ \/ /\ r = "refused"
          /\ StopChildren(c, calls[c], "stop", state)
       \/ /\ r = "stopped"
          /\ StopTPMThenFinish(c, calls[c], state)
       \/ /\ r = "tpmStopped"
          /\ FinishCall(c, calls[c])
       \/ /\ r \in {"accepted", "timedOut"}    \* stays .stopping
          /\ Return(c, calls[c], state)
          /\ UNCHANGED runtimeVars
       \/ /\ r = "requestFailed"
          /\ state' = "running"
          /\ SetCall(c, NoCall)
          /\ UNCHANGED <<runtimeGeneration, refVars>>
    /\ mainQ' = Tail(mainQ)
    /\ UNCHANGED <<machine, worldVars, finishing>>

(* QEMUMachineRuntime.start: nothing unless the state can start. *)
StartRuntime ==
    /\ IF state \in CanStart /\ runtimeGeneration < MaxStarts
       THEN /\ runtimeGeneration' = runtimeGeneration + 1
            /\ state' = "starting"
            /\ Resume("start", "port")
       ELSE /\ SetCall("start", NoCall)
            /\ UNCHANGED <<state, runtimeGeneration>>
    /\ UNCHANGED <<refVars, swtpm>>

(* The configuration is built: swtpm is spawned, or QEMU's turn. *)
Configured ==
    /\ IF Windows
       THEN /\ swtpm' = [swtpm EXCEPT ![runtimeGeneration] = "alive"]
            /\ SetCall("start", [NoCall EXCEPT !.pc = "tpmStart",
                                               !.tpm = runtimeGeneration])
            /\ UNCHANGED processController
       ELSE /\ processController' = runtimeGeneration
            /\ SetCall("start", [NoCall EXCEPT !.pc = "spawn",
                                               !.ctl = runtimeGeneration])
            /\ UNCHANGED swtpm
    /\ UNCHANGED <<state, runtimeGeneration, softwareTPMController, tools,
                   display>>

TPMReady ==
    LET g == calls["start"].tpm IN
    /\ softwareTPMController' = g
    /\ processController' = g
    /\ SetCall("start", [NoCall EXCEPT !.pc = "spawn", !.ctl = g])
    /\ UNCHANGED <<state, runtimeGeneration, tools, display, swtpm>>

ConnectDisplay ==
    /\ Resume("start", "display")
    /\ display' = "waiting"
    /\ UNCHANGED <<state, runtimeGeneration, processController,
                   softwareTPMController, tools, swtpm>>

Running ==
    /\ state' = "running"
    /\ tools' = IF Windows THEN tools ELSE "checking"
    /\ SetCall("start", NoCall)
    /\ UNCHANGED <<runtimeGeneration, processController, softwareTPMController,
                   display, swtpm>>

(* start() resumes; an error, or a configuration that cannot be built, runs
   its catch. *)
HandleStartReturn ==
    LET r == Head(mainQ).st IN
    /\ IsNext("return") /\ Head(mainQ).call = "start"
    /\ \/ /\ r = "unprepared"
          /\ SetCall("start", NoCall)
          /\ UNCHANGED <<runtimeVars, swtpm>>
       \/ r = "prepared" /\ StartRuntime
       \/ r = "allocated" /\ Configured
       \/ r = "tpmReady" /\ TPMReady
       \/ r = "spawned" /\ ConnectDisplay
       \/ r = "connected" /\ Running
       \/ r \in {"allocated", "error"} /\ Catch /\ UNCHANGED swtpm
       \/ r = "stopped" /\ CatchTPM /\ UNCHANGED swtpm
       \/ r = "tpmStopped" /\ FailStart /\ UNCHANGED swtpm
    /\ mainQ' = Tail(mainQ)
    /\ UNCHANGED <<machine, qemu, finishing>>

-----------------------------------------------------------------------------

StartSteps ==
    \/ Prepare \/ AllocatePort \/ StartTPM \/ Spawn
    \/ DisplayAttempt \/ SpiceCallback \/ VNCConnected \/ VNCFails
    \/ DisplayUnavailable

CallSteps(c) ==
    \/ GuestAnswers(c) \/ TPMStopped(c)
    \/ ControllerStopped(c) \/ ControllerStop(c) \/ QMPAnswered(c)
    \/ PollTimesOut(c) \/ ControllerKill(c) \/ ControllerCompletes(c)

FinishSteps == \E f \in finishing : FinishingTPMStopped(f)

MainJob ==
    \/ HandleExit \/ FinishAfterExit \/ HandleSpice \/ HandleStartReturn
    \/ \E c \in Calls : HandleReturn(c)

Next ==
    \/ Start
    \/ \E c \in Calls : Stop(c) \/ ForceStop(c)
    \/ StartSteps
    \/ \E c \in Callers : CallSteps(c)
    \/ FinishSteps
    \/ \E g \in Gens : ProcessTerminated(g) \/ QEMUExits(g) \/ SwtpmExits(g)
    \/ ProbeTools
    \/ MainJob

Spec == Init /\ [][Next]_vars

-----------------------------------------------------------------------------
(* Fairness.  The program's own steps are taken: actors and the main actor
   run their jobs, the retry loops are bounded (SF: the hundredth display
   attempt is reached), grace periods elapse, and swtpm obeys terminate or
   SIGKILL.  A call that waits for its turn on the controller actor gets it
   (SF: other calls may have theirs before).  Neither the user, nor the guest,
   nor a QEMU that runs has to do anything: the handshakes of QMP and VNC, which
   have no time limit, are sure to end only when QEMU has exited.           *)

SwtpmAsked(g) ==
    /\ \/ \E c \in Callers : calls[c].pc = "tpm" /\ calls[c].tpm = g
       \/ \E f \in finishing : f[3] = g
    /\ SwtpmExits(g)

(* The steps of the call c that wait for nothing but the program itself, the
   guest agent's time limit, or a QEMU that has exited. *)
OwnSteps(c) ==
    \/ GuestAnswers(c) \/ TPMStopped(c)
    \/ ControllerStopped(c) \/ ControllerStop(c)
    \/ PollTimesOut(c) \/ ControllerKill(c) \/ ControllerCompletes(c)
    \/ QMPAnswered(c) /\ qemu[calls[c].ctl].os # "alive"
    \/ c = "start" /\ \/ Prepare \/ AllocatePort \/ StartTPM \/ Spawn
                      \/ DisplayAttempt \/ DisplayUnavailable
                      \/ VNCFails /\ qemu[calls[c].ctl].os # "alive"

Fairness ==
    /\ \A c \in Callers : SF_vars(OwnSteps(c))
    /\ SF_vars(DisplayUnavailable)
    /\ WF_vars(FinishSteps \/ \E g \in Gens : ProcessTerminated(g) \/ SwtpmAsked(g))
    /\ WF_vars(MainJob)

FairSpec == Spec /\ Fairness

-----------------------------------------------------------------------------
(* Properties                                                               *)

Alive(g) == qemu[g].os = "alive"

(* A machine never has two QEMU processes on its disk. *)
OneQEMU == \A g, h \in Gens : Alive(g) /\ Alive(h) => g = h

(* A live QEMU process is never out of the user's reach: unless a start() is
   in flight the machine is shown as running or stopping, so that Start,
   Delete, Snapshot and Export are refused, and the runtime holds the
   controller of that very process, so that Stop and Force Power Off act on
   it. *)
AliveIsControlled ==
    \A g \in Gens : Alive(g) /\ ~IsStarting =>
        state \in {"running", "stopping"} /\ processController = g

-----------------------------------------------------------------------------
(* The inductive invariant                                                  *)

Queued == {mainQ[i] : i \in DOMAIN mainQ}
Returns(job, c) == job.kind = "return" /\ job.call = c

(* What a call waits for or, once that has come, the answer in its job. *)
Place == [c \in Callers |->
            IF calls[c].pc = "return"
            THEN (CHOOSE job \in Queued : Returns(job, c)).st
            ELSE calls[c].pc]

(* The generations whose process is alive; for which Process.run was not
   called yet; and for which it was, and is over for good. *)
On == {g \in Gens : Alive(g)}
Fresh == {g \in Gens : qemu[g].os = "none" /\ qemu[g].state = "stopped"}
Ended == Gens \ (On \union Fresh)

(* A call has a job exactly when its await has ended, and then one; the SPICE
   delegate is expected only while start() waits for it. *)
QueueInv ==
    /\ TypeOK
    /\ \A i, k \in DOMAIN mainQ : \A c \in Callers :
          Returns(mainQ[i], c) /\ Returns(mainQ[k], c) => i = k
    /\ \A c \in Callers :
          calls[c].pc = "return" <=> \E job \in Queued : Returns(job, c)
    /\ \A c \in Callers :
          calls[c].pc \in {"spawn", "stop", "qmp", "poll", "force", "killing"} =>
             calls[c].ctl # 0
    /\ \A job \in Queued : job.kind \in {"exit", "finish"} =>
          job.gen # 0 /\ job.st \in CanStart
    /\ display \in {"pending", "answered"} =>
          UsesSPICE /\ calls["start"].pc = "display"

(* The runtime's controllers are those of the newest start, and only that
   one's process can be alive. *)
ControllersInv ==
    /\ processController \in {0, runtimeGeneration}
    /\ softwareTPMController \in {0, processController}
    /\ processController \in Fresh => Place["start"] = "spawn"
    /\ \A g \in On : g = processController /\ qemu[g].process
    /\ \A g \in Gens : g > runtimeGeneration => g \in Fresh

(* How far start() is.  Until it has made a controller nobody else has one. *)
StartInv ==
    /\ Place["start"] = "idle" =>
          state # "starting" /\ (state \in CanStart => processController = 0)
    /\ Place["start"] \in {"prepare", "prepared", "unprepared"} =>
          state \in CanStart /\ processController = 0 /\ NoCallInFlight
    /\ Place["start"] \in {"port", "allocated", "tpmStart", "tpmReady", "spawn"} =>
          runtimeGeneration \in Fresh
    /\ Place["start"] \in {"port", "allocated", "tpmStart", "tpmReady"} =>
          processController = 0
    /\ Place["start"] \in {"tpmStart", "tpmReady"} =>
          calls["start"].tpm = runtimeGeneration
    /\ Place["start"] = "spawn" =>
          /\ processController = runtimeGeneration
          /\ calls["start"].ctl = runtimeGeneration

(* A call acts on the controller of the newest start; once its await of that
   controller has ended, the process has. *)
CallsInv ==
    /\ \A c \in Callers :
          /\ Place[c] \in {"stop", "force", "qmp", "poll", "killing"} =>
                /\ calls[c].ctl = runtimeGeneration
                /\ runtimeGeneration \in Fresh =>
                      Place[c] \in {"stop", "force"} /\ Place["start"] = "spawn"
          /\ Place[c] \in {"stopped", "tpm", "tpmStopped"} =>
                runtimeGeneration \in Ended
    /\ \A c \in Calls :
          /\ calls[c].pc = "idle" => ~calls[c].reboot
          /\ calls[c].reboot => \A d \in Calls \ {c} : calls[d].pc = "idle"

(* An exit is reported of a process that is over. *)
ExitsInv ==
    /\ \A job \in Queued : job.kind \in {"exit", "finish"} => job.gen \in Ended
    /\ \A f \in finishing : f[1] \in Ended

(* Inductive for a user who waits for stop to return: while a call is in
   flight the newest start stays the newest. *)
LifecycleInv == QueueInv /\ ControllersInv /\ StartInv /\ CallsInv /\ ExitsInv

(* The runtime keeps the promises AppModel builds on. *)
Contract == INSTANCE RuntimeContract WITH
    starting <- IsStarting, alive <- \E g \in Gens : Alive(g)
ImplementsContract == Contract!ContractSpec

(* A QEMU that runs never ends a handshake it was asked for. *)
QMPHangs == <>[](\E c \in Callers : calls[c].pc = "qmp")
DisplayHangs == <>[](display = "connecting")

(* start() returns, so startingMachineIDs does not keep the machine, unless
   QEMU leaves it without an answer for good. *)
StartReturns == QMPHangs \/ DisplayHangs \/ []<>~IsStarting

(* stop(), forceStop() and requestReboot() return, whatever the display does
   and whether or not QEMU powers down, unless it never answers QMP. *)
CallsReturn == \A c \in Calls : QMPHangs \/ []<>(calls[c].pc = "idle")

(* The exit of QEMU is noticed, whichever of handle, stop and forceStop sees
   it first, and whatever QEMU left unanswered: a machine whose process is gone
   does not stay running. *)
ExitIsReported == []<>(state # "running" \/ \E g \in Gens : Alive(g))
=============================================================================
