----------------------- MODULE AppleLifecycle_proofs -----------------------
(***************************************************************************)
(* Proofs for AppleLifecycle: LifecycleInv is inductive, and so the        *)
(* runtime implements RuntimeContract, for any number of starts and of     *)
(* concurrent calls.                                                       *)
(***************************************************************************)
EXTENDS AppleLifecycle, SequenceTheorems, TLAPS

JobOf(c, r) == [call |-> c, st |-> r]
On == \E g \in Gens : Alive(g)
Ending == \E j \in Range(mainQ) : Ends(j)

-----------------------------------------------------------------------------
(* The queue of the main actor, as the set of its jobs                      *)

LEMMA QueueRange ==
    ASSUME NEW q \in Seq(Job)
    PROVE  /\ DOMAIN q = 1..Len(q) /\ Len(q) \in Nat
           /\ Range(q) \subseteq Job
<1>1. DOMAIN q = 1..Len(q) /\ Len(q) \in Nat
  BY LenProperties
<1>2. \A k \in DOMAIN q : q[k] \in Job
  BY <1>1, ElementOfSeq
<1>3. QED
  BY <1>1, <1>2 DEF Range

LEMMA QueueAppend ==
    ASSUME NEW q \in Seq(Job), IsInjective(q), NEW j \in Job, j \notin Range(q)
    PROVE  /\ Append(q, j) \in Seq(Job)
           /\ IsInjective(Append(q, j))
           /\ Range(Append(q, j)) = Range(q) \union {j}
<1> DEFINE q2 == Append(q, j)
<1>1. /\ q2 \in Seq(Job) /\ Len(q2) = Len(q) + 1
      /\ \A i \in 1..Len(q) : q2[i] = q[i]
      /\ q2[Len(q) + 1] = j
  BY AppendProperties
<1> HIDE DEF q2
<1>2. DOMAIN q = 1..Len(q) /\ DOMAIN q2 = 1..(Len(q) + 1) /\ Len(q) \in Nat
  BY <1>1, QueueRange
<1>3. DOMAIN q2 = DOMAIN q \union {Len(q) + 1}
  BY <1>2
<1>4. IsInjective(q2)
  BY <1>1, <1>2, <1>3 DEF IsInjective, Range
<1>5. Range(q2) = Range(q) \union {j}
  BY <1>1, <1>2, <1>3 DEF Range
<1>6. QED
  BY <1>1, <1>4, <1>5 DEF q2

LEMMA QueueTail ==
    ASSUME NEW q \in Seq(Job), IsInjective(q), q # <<>>
    PROVE  /\ Tail(q) \in Seq(Job)
           /\ IsInjective(Tail(q))
           /\ Range(Tail(q)) = Range(q) \ {Head(q)}
           /\ Head(q) \in Range(q)
<1> DEFINE t == Tail(q)
<1>1. /\ t \in Seq(Job) /\ Len(t) = Len(q) - 1
      /\ \A i \in 1..Len(t) : t[i] = q[i + 1]
  BY HeadTailProperties
<1>2. Head(q) = q[1] /\ Len(q) # 0
  BY EmptySeq
<1> HIDE DEF t
<1>3. /\ DOMAIN q = 1..Len(q) /\ DOMAIN t = 1..Len(t) /\ Len(q) \in Nat
      /\ 1 \in DOMAIN q
  <2>1. DOMAIN q = 1..Len(q) /\ DOMAIN t = 1..Len(t) /\ Len(q) \in Nat
    BY <1>1, QueueRange
  <2>2. QED BY <2>1, <1>2
<1>4. \A i \in DOMAIN t : i + 1 \in DOMAIN q /\ i + 1 # 1 /\ t[i] = q[i + 1]
  BY <1>1, <1>3
<1>5. \A k \in DOMAIN q : k # 1 => \E i \in DOMAIN t : i + 1 = k
  <2>1. ASSUME NEW k \in DOMAIN q, k # 1 PROVE k - 1 \in DOMAIN t /\ (k - 1) + 1 = k
    BY <2>1, <1>1, <1>3
  <2>2. QED BY <2>1
<1>6. IsInjective(t)
  BY <1>3, <1>4 DEF IsInjective
<1>7. Range(t) = Range(q) \ {q[1]}
  BY <1>3, <1>4, <1>5 DEF IsInjective, Range
<1>8. QED
  BY <1>1, <1>2, <1>3, <1>6, <1>7 DEF t, Range

(* A job is taken. *)
LEMMA Taken ==
    ASSUME LifecycleInv, NEW c, NEW r, Resumes(c, r)
    PROVE  /\ JobOf(c, r) \in Range(mainQ)
           /\ mainQ' \in Seq(Job) /\ IsInjective(mainQ')
           /\ Range(mainQ') = Range(mainQ) \ {JobOf(c, r)}
  BY QueueTail DEF LifecycleInv, TypeOK, JobsInv, Resumes, JobOf

(* A job is added. *)
LEMMA Added ==
    ASSUME LifecycleInv, NEW c, NEW r, Enqueue(c, r),
           JobOf(c, r) \in Job, JobOf(c, r) \notin Range(mainQ)
    PROVE  /\ mainQ' \in Seq(Job) /\ IsInjective(mainQ')
           /\ Range(mainQ') = Range(mainQ) \union {JobOf(c, r)}
  BY QueueAppend DEF LifecycleInv, TypeOK, JobsInv, Enqueue, JobOf

LEMMA JobFields ==
    ASSUME LifecycleInv, NEW j \in Range(mainQ)
    PROVE  /\ j.call \in Callers \union {"delegate"}
           /\ j = JobOf(j.call, j.st)
           /\ j.call = "start" => j.st \in {"prepared", "unprepared", "started", "error"}
           /\ j.call \in Calls => j.st \in {"accepted", "refused", "vzStopped", "vzError"}
           /\ j.call = "delegate" => j.st \in CanStart
<1>1. j \in Job
  BY QueueRange DEF LifecycleInv, TypeOK
<1>2. QED
  BY <1>1, ConstantsAssumption DEF Job, Callers, JobOf

LEMMA JobOfFields ==
    ASSUME NEW c, NEW r
    PROVE  JobOf(c, r).call = c /\ JobOf(c, r).st = r
  BY DEF JobOf

-----------------------------------------------------------------------------
(* JobsInv, by what a step does to a call                                   *)

(* A call returns. *)
LEMMA CallReturns ==
    ASSUME LifecycleInv, NEW c \in Callers, NEW r, Resumes(c, r),
           NEW call \in Call, call.pc # "return", SetCall(c, call),
           c \in Calls => call = NoCall
    PROVE  /\ JobsInv' /\ mainQ' \in Seq(Job) /\ calls' \in [Callers -> Call]
           /\ JobOf(c, r) \in Range(mainQ)
           /\ Range(mainQ') = Range(mainQ) \ {JobOf(c, r)}
           /\ \A j \in Range(mainQ') : j.call # c
<1>1. /\ JobOf(c, r) \in Range(mainQ)
      /\ mainQ' \in Seq(Job) /\ IsInjective(mainQ')
      /\ Range(mainQ') = Range(mainQ) \ {JobOf(c, r)}
  BY Taken
<1>2. calls' = [calls EXCEPT ![c] = call] /\ calls' \in [Callers -> Call]
  BY DEF SetCall, LifecycleInv, TypeOK
<1>3. \A j \in Range(mainQ') : j.call # c
  BY <1>1, JobOfFields DEF LifecycleInv, JobsInv
<1>4. \A j \in Range(mainQ') : j.call # "delegate" => calls'[j.call].pc = "return"
  BY <1>1, <1>2, <1>3, JobFields DEF LifecycleInv, JobsInv, TypeOK
<1>5. \A i, j \in Range(mainQ') : i.call = j.call \/ (Ends(i) /\ Ends(j)) => i = j
  BY <1>1 DEF LifecycleInv, JobsInv
<1>6. \A d \in Calls : /\ calls'[d].pc \in {"idle", "guest", "vzStop", "return"}
                       /\ calls'[d].pc # "idle" => calls'[d].vm # 0
  BY <1>2 DEF LifecycleInv, JobsInv, TypeOK, NoCall, Callers
<1>7. QED
  BY <1>1, <1>2, <1>3, <1>4, <1>5, <1>6 DEF JobsInv

(* What a call waits for has come. *)
LEMMA CallResumes ==
    ASSUME LifecycleInv, NEW c \in Callers, NEW r, calls[c].pc \notin {"idle", "return"},
           ResumeWith(c, r), JobOf(c, r) \in Job,
           r = "vzStopped" => ~Ending
    PROVE  /\ JobsInv' /\ mainQ' \in Seq(Job) /\ calls' \in [Callers -> Call]
           /\ Range(mainQ') = Range(mainQ) \union {JobOf(c, r)}
           /\ calls' = [calls EXCEPT ![c].pc = "return"]
           /\ \A j \in Range(mainQ) : j.call # c
<1>1. c # "delegate"
  BY ConstantsAssumption DEF Callers
<1>2. \A j \in Range(mainQ) : j.call # c
  BY <1>1 DEF LifecycleInv, JobsInv
<1>3. /\ mainQ' \in Seq(Job) /\ IsInjective(mainQ')
      /\ Range(mainQ') = Range(mainQ) \union {JobOf(c, r)}
  BY <1>2, Added, JobOfFields DEF ResumeWith
<1>4. /\ calls' = [calls EXCEPT ![c].pc = "return"]
      /\ calls' \in [Callers -> Call]
      /\ \A d \in Callers : calls'[d].vm = calls[d].vm
      /\ \A d \in Callers : calls'[d].pc = IF d = c THEN "return" ELSE calls[d].pc
  BY DEF ResumeWith, LifecycleInv, TypeOK, Call
<1>5. \A j \in Range(mainQ') : j.call # "delegate" => calls'[j.call].pc = "return"
  <2>1. ASSUME NEW j \in Range(mainQ), j.call # "delegate"
        PROVE  calls'[j.call].pc = "return"
    <3>1. j.call \in Callers /\ calls[j.call].pc = "return"
      BY <2>1, JobFields DEF LifecycleInv, JobsInv
    <3>2. QED BY <3>1, <1>4
  <2>2. calls'[JobOf(c, r).call].pc = "return"
    BY <1>4, JobOfFields
  <2>3. QED BY <2>1, <2>2, <1>3
<1>6. \A i, j \in Range(mainQ') : i.call = j.call \/ (Ends(i) /\ Ends(j)) => i = j
  <2>1. Ends(JobOf(c, r)) => r = "vzStopped"
    BY <1>1, JobOfFields DEF Ends
  <2>2. QED BY <2>1, <1>2, <1>3, JobOfFields DEF LifecycleInv, JobsInv, Ending
<1>7. \A d \in Calls : /\ calls'[d].pc \in {"idle", "guest", "vzStop", "return"}
                       /\ calls'[d].pc # "idle" => calls'[d].vm # 0
  BY <1>4 DEF LifecycleInv, JobsInv, Callers
<1>8. QED
  BY <1>2, <1>3, <1>4, <1>5, <1>6, <1>7 DEF JobsInv

(* A call begins, or ends, without a job. *)
LEMMA CallBegins ==
    ASSUME LifecycleInv, NEW c \in Callers, calls[c].pc = "idle",
           NEW call \in Call, SetCall(c, call), mainQ' = mainQ,
           c \in Calls => /\ call.pc \in {"idle", "guest", "vzStop"}
                          /\ call.pc # "idle" => call.vm # 0
    PROVE  /\ JobsInv' /\ mainQ' \in Seq(Job) /\ calls' \in [Callers -> Call]
           /\ calls' = [calls EXCEPT ![c] = call]
<1>1. calls' = [calls EXCEPT ![c] = call] /\ calls' \in [Callers -> Call]
  BY DEF SetCall, LifecycleInv, TypeOK
<1>2. \A j \in Range(mainQ) : j.call # "delegate" => calls'[j.call].pc = "return"
  <2>1. ASSUME NEW j \in Range(mainQ), j.call # "delegate"
        PROVE  calls'[j.call].pc = "return"
    <3>1. j.call \in Callers /\ calls[j.call].pc = "return" /\ j.call # c
      BY <2>1, JobFields DEF LifecycleInv, JobsInv
    <3>2. QED BY <3>1, <1>1 DEF LifecycleInv, TypeOK
  <2>2. QED BY <2>1
<1>3. \A d \in Calls : /\ calls'[d].pc \in {"idle", "guest", "vzStop", "return"}
                       /\ calls'[d].pc # "idle" => calls'[d].vm # 0
  BY <1>1 DEF LifecycleInv, JobsInv, TypeOK, Callers
<1>4. QED
  BY <1>1, <1>2, <1>3 DEF LifecycleInv, JobsInv, TypeOK

-----------------------------------------------------------------------------
(* The parts of LifecycleInv                                                *)

EndsInv ==
    /\ On \/ Ending => state \notin CanStart /\ ~NotOn
    /\ ~(On /\ Ending)

LEMMA Parts ==
    LifecycleInv <=> TypeOK /\ JobsInv /\ StartingInv /\ OnlyNewest /\ EndsInv
  BY DEF LifecycleInv, EndsInv, On, Ending

LEMMA PartsNext ==
    (TypeOK /\ JobsInv /\ StartingInv /\ OnlyNewest /\ EndsInv)' => LifecycleInv'
  BY DEF LifecycleInv, EndsInv, On, Ending

LEMMA Nil == 0 \in Refs
  BY ConstantsAssumption DEF Refs

(* A step that neither starts nor ends a virtual machine, and shows no end. *)
LEMMA QuietStep ==
    ASSUME LifecycleInv, vm' = vm, virtualMachine' = virtualMachine,
           calls'["start"] = calls["start"], state' = state \/ state' \notin CanStart,
           \A j \in Range(mainQ') : j \in Range(mainQ) \/ (~Ends(j) /\ j.call # "start")
    PROVE  StartingInv' /\ OnlyNewest' /\ EndsInv'
<1>1. (On' <=> On) /\ Created' = Created
  BY DEF On, Alive, Created
<1>2. Ending' => Ending
  BY DEF Ending
<1>3. NotOn' => NotOn
  BY DEF NotOn
<1>4. StartingInv'
  BY <1>1, Parts DEF StartingInv
<1>5. OnlyNewest'
  BY <1>1, Parts DEF OnlyNewest, Alive
<1>6. EndsInv'
  BY <1>1, <1>2, <1>3, Parts DEF EndsInv
<1>7. QED
  BY <1>4, <1>5, <1>6

(* A step of a start that has not powered anything on, and still does not. *)
LEMMA NotOnStep ==
    ASSUME LifecycleInv, NotOn \/ state \in CanStart,
           \A g \in Gens : vm'[g] = "on" => vm[g] = "on",
           \A j \in Range(mainQ') : j \in Range(mainQ) \/ ~Ends(j)
    PROVE  OnlyNewest' /\ EndsInv' /\ ~On /\ ~On' /\ ~Ending'
<1>1. ~On /\ ~Ending
  BY Parts DEF EndsInv
<1>2. ~On' /\ ~Ending'
  BY <1>1 DEF On, Alive, Ending
<1>3. OnlyNewest' /\ EndsInv'
  BY <1>2 DEF OnlyNewest, EndsInv, On
<1>4. QED
  BY <1>1, <1>2, <1>3

(* After a step that leaves start() elsewhere than in VZVirtualMachine.start. *)
LEMMA StartElsewhere ==
    ASSUME LifecycleInv, calls["start"].pc # "vzStart", calls'["start"].pc # "vzStart",
           \A g \in Gens : vm'[g] = "starting" => vm[g] = "starting"
    PROVE  StartingInv'
<1>1. \A g \in Gens : vm'[g] # "starting"
  BY Parts DEF StartingInv
<1>2. QED
  BY <1>1 DEF StartingInv

-----------------------------------------------------------------------------
(* start()                                                                  *)

LEMMA InitInv == Init => LifecycleInv
<1> SUFFICES ASSUME Init PROVE LifecycleInv
  OBVIOUS
<1>1. mainQ \in Seq(Job) /\ DOMAIN mainQ = {}
  BY EmptySeq DEF Init
<1>2. Range(mainQ) = {} /\ IsInjective(mainQ)
  BY <1>1 DEF Range, IsInjective
<1>3. NoCall \in Call /\ NoCall.pc = "idle"
  BY ConstantsAssumption DEF NoCall, Call, Refs
<1>4. "start" \in Callers /\ \A c \in Callers : calls[c] = NoCall
  BY DEF Init, Callers
<1>5. TypeOK
  <2>1. vm \in [Gens -> {"none", "starting", "on", "off"}] /\ calls \in [Callers -> Call]
    BY <1>3 DEF Init
  <2>2. QED BY <1>1, <2>1, Nil DEF Init, TypeOK, RuntimeState, Tools
<1>6. JobsInv
  BY <1>2, <1>3, <1>4 DEF JobsInv, Callers
<1>7. StartingInv /\ OnlyNewest /\ EndsInv
  BY <1>2, <1>3, <1>4 DEF Init, StartingInv, OnlyNewest, EndsInv, On, Ending, Alive
<1>8. QED
  BY <1>5, <1>6, <1>7, Parts

LEMMA StartIsCaller == "start" \in Callers /\ "start" \notin Calls /\ NoCall \in Call
                         /\ NoCall.pc = "idle"
  BY ConstantsAssumption DEF Callers, NoCall, Call, Refs

LEMMA StartInv == LifecycleInv /\ Start => LifecycleInv'
<1> SUFFICES ASSUME LifecycleInv, Start PROVE LifecycleInv'
  OBVIOUS
<1> DEFINE call == [pc |-> "prepare", vm |-> 0]
<1>1. /\ state \in CanStart /\ calls["start"].pc = "idle" /\ SetCall("start", call)
      /\ UNCHANGED <<state, virtualMachine, tools, vm, mainQ>>
  BY DEF Start, IsStarting, runtimeVars
<1>2. call \in Call /\ call.pc = "prepare"
  BY ConstantsAssumption DEF Call, Refs
<1> HIDE DEF call
<1>3. /\ JobsInv' /\ mainQ' \in Seq(Job) /\ calls' \in [Callers -> Call]
      /\ calls' = [calls EXCEPT !["start"] = call]
  BY <1>1, <1>2, StartIsCaller, CallBegins
<1>4. TypeOK'
  BY <1>1, <1>3, Parts DEF TypeOK
<1>5. calls'["start"] = call
  BY <1>3, StartIsCaller, Parts DEF TypeOK
<1>6. StartingInv'
  BY <1>1, <1>2, <1>5, StartElsewhere
<1>7. OnlyNewest' /\ EndsInv'
  BY <1>1, NotOnStep
<1>8. QED
  BY <1>3, <1>4, <1>6, <1>7, PartsNext

LEMMA PrepareInv == LifecycleInv /\ Prepare => LifecycleInv'
<1> SUFFICES ASSUME LifecycleInv, Prepare PROVE LifecycleInv'
  OBVIOUS
<1>1. PICK r \in {"prepared", "unprepared"} : ResumeWith("start", r)
  BY DEF Prepare
<1>2. /\ calls["start"].pc = "prepare"
      /\ UNCHANGED <<state, virtualMachine, tools, vm>>
  BY DEF Prepare, runtimeVars
<1>3. JobOf("start", r) \in Job /\ ~Ends(JobOf("start", r)) /\ r # "vzStopped"
  BY JobOfFields DEF Job, JobOf, Ends
<1>4. /\ JobsInv' /\ mainQ' \in Seq(Job) /\ calls' \in [Callers -> Call]
      /\ Range(mainQ') = Range(mainQ) \union {JobOf("start", r)}
      /\ calls' = [calls EXCEPT !["start"].pc = "return"]
  BY <1>1, <1>2, <1>3, StartIsCaller, CallResumes
<1>5. TypeOK'
  BY <1>2, <1>4, Parts DEF TypeOK
<1>6. calls'["start"].pc = "return"
  BY <1>4, StartIsCaller, Parts DEF TypeOK, Call
<1>7. StartingInv'
  BY <1>2, <1>6, StartElsewhere
<1>8. OnlyNewest' /\ EndsInv'
  <2>1. NotOn
    BY <1>2 DEF NotOn
  <2>2. QED BY <1>2, <1>3, <1>4, <2>1, NotOnStep
<1>9. QED
  BY <1>4, <1>5, <1>7, <1>8, PartsNext

(* start() returns without having made a virtual machine, or after an error. *)
LEMMA StartGivesUp ==
    ASSUME LifecycleInv, NEW r \in {"prepared", "unprepared", "error"},
           Resumes("start", r), SetCall("start", NoCall), vm' = vm,
           state' \in RuntimeState, virtualMachine' \in Refs, tools' \in Tools
    PROVE  LifecycleInv' /\ ~On /\ ~On'
<1>1. /\ JobsInv' /\ mainQ' \in Seq(Job) /\ calls' \in [Callers -> Call]
      /\ JobOf("start", r) \in Range(mainQ)
      /\ Range(mainQ') = Range(mainQ) \ {JobOf("start", r)}
  BY StartIsCaller, CallReturns
<1>2. calls["start"].pc = "return" /\ NotOn
  BY <1>1, JobOfFields, Parts DEF JobsInv, NotOn
<1>3. calls'["start"].pc = "idle"
  BY StartIsCaller, Parts DEF SetCall, TypeOK
<1>4. TypeOK'
  BY <1>1, Parts DEF TypeOK
<1>5. StartingInv'
  BY <1>2, <1>3, StartElsewhere
<1>6. OnlyNewest' /\ EndsInv' /\ ~On /\ ~On'
  BY <1>1, <1>2, NotOnStep
<1>7. QED
  BY <1>1, <1>4, <1>5, <1>6, PartsNext

LEMMA NotPreparedInv == LifecycleInv /\ NotPrepared => LifecycleInv' /\ ~On /\ ~On'
  BY StartGivesUp, Parts DEF NotPrepared, runtimeVars, TypeOK

LEMMA StartFailedInv == LifecycleInv /\ StartFailed => LifecycleInv' /\ ~On /\ ~On'
<1> SUFFICES ASSUME LifecycleInv, StartFailed PROVE LifecycleInv' /\ ~On /\ ~On'
  OBVIOUS
<1>1. state' \in RuntimeState /\ virtualMachine' \in Refs /\ tools' \in Tools
  BY Nil DEF StartFailed, ClearVirtualMachine, RuntimeState, Tools
<1>2. QED
  BY <1>1, StartGivesUp DEF StartFailed

LEMMA StartRuntimeInv == LifecycleInv /\ StartRuntime => LifecycleInv' /\ ~On /\ ~On'
<1> SUFFICES ASSUME LifecycleInv, StartRuntime PROVE LifecycleInv' /\ ~On /\ ~On'
  OBVIOUS
<1>1. Resumes("start", "prepared")
  BY DEF StartRuntime
<1>2. CASE state \notin CanStart
  <2>1. SetCall("start", NoCall) /\ UNCHANGED <<state, virtualMachine, tools, vm>>
    BY <1>2 DEF StartRuntime, runtimeVars
  <2>2. QED BY <1>1, <2>1, StartGivesUp, Parts DEF TypeOK
<1>3. CASE state \in CanStart
  <2>1. PICK g \in Gens :
          /\ Created = 1..(g - 1)
          /\ state' = "starting"
          /\ virtualMachine' = g
          /\ vm' = [vm EXCEPT ![g] = "starting"]
          /\ SetCall("start", [pc |-> "vzStart", vm |-> g])
          /\ UNCHANGED tools
    BY <1>3 DEF StartRuntime
  <2> DEFINE call == [pc |-> "vzStart", vm |-> g]
  <2>2. call \in Call /\ call.pc = "vzStart" /\ call.vm = g /\ g \in Refs /\ g # 0
    BY ConstantsAssumption DEF Call, Refs, Gens
  <2>3. SetCall("start", call)
    BY <2>1
  <2> HIDE DEF call
  <2>4. /\ JobsInv' /\ mainQ' \in Seq(Job) /\ calls' \in [Callers -> Call]
        /\ JobOf("start", "prepared") \in Range(mainQ)
        /\ Range(mainQ') = Range(mainQ) \ {JobOf("start", "prepared")}
    BY <1>1, <2>2, <2>3, StartIsCaller, CallReturns
  <2>5. calls'["start"] = call
    BY <2>3, StartIsCaller, Parts DEF SetCall, TypeOK
  <2>6. /\ vm' \in [Gens -> {"none", "starting", "on", "off"}]
        /\ \A h \in Gens : vm'[h] = IF h = g THEN "starting" ELSE vm[h]
    BY <2>1, Parts DEF TypeOK
  <2>7. TypeOK'
    BY <2>1, <2>2, <2>4, <2>6, Parts DEF TypeOK, RuntimeState
  <2>8. calls["start"].pc = "return" /\ NotOn
    BY <2>4, JobOfFields, Parts DEF JobsInv, NotOn
  <2>9. OnlyNewest' /\ EndsInv' /\ ~On /\ ~On'
    BY <2>4, <2>6, <2>8, NotOnStep
  <2>10. Created' = 1..g
    <3>1. Created' = Created \union {g}
      BY <2>6 DEF Created
    <3>2. QED BY <2>1, <3>1 DEF Gens
  <2>11. StartingInv'
    <3>1. \A h \in Gens : vm[h] # "starting"
      BY <2>8, Parts DEF StartingInv
    <3>2. QED BY <2>1, <2>2, <2>5, <2>6, <2>10, <3>1 DEF StartingInv, CanStart
  <2>12. QED BY <2>4, <2>7, <2>9, <2>11, PartsNext
<1>4. QED
  BY <1>2, <1>3

LEMMA StartedInv == LifecycleInv /\ Started => LifecycleInv'
<1> SUFFICES ASSUME LifecycleInv, Started PROVE LifecycleInv'
  OBVIOUS
<1>1. /\ Resumes("start", "started") /\ state' = "running"
      /\ SetCall("start", NoCall) /\ UNCHANGED <<virtualMachine, vm>>
      /\ tools' \in Tools
  BY DEF Started, Tools
<1>2. /\ JobsInv' /\ mainQ' \in Seq(Job) /\ calls' \in [Callers -> Call]
      /\ JobOf("start", "started") \in Range(mainQ)
      /\ Range(mainQ') = Range(mainQ) \ {JobOf("start", "started")}
      /\ \A j \in Range(mainQ') : j.call # "start"
  BY <1>1, StartIsCaller, CallReturns
<1>3. calls["start"].pc = "return" /\ calls'["start"].pc = "idle"
  BY <1>1, <1>2, StartIsCaller, JobOfFields, Parts DEF JobsInv, SetCall, TypeOK
<1>4. TypeOK'
  BY <1>1, <1>2, Parts DEF TypeOK, RuntimeState
<1>5. StartingInv'
  BY <1>1, <1>3, StartElsewhere
<1>6. (On' => On) /\ (Ending' => Ending) /\ ~NotOn' /\ Created' = Created
  BY <1>1, <1>2, <1>3 DEF On, Alive, Ending, NotOn, Created
<1>7. OnlyNewest'
  BY <1>1, <1>6, Parts DEF OnlyNewest, Alive
<1>8. EndsInv'
  BY <1>1, <1>6, Parts DEF EndsInv, CanStart
<1>9. QED
  BY <1>2, <1>4, <1>5, <1>7, <1>8, PartsNext

LEMMA VZStartInv == LifecycleInv /\ VZStart => LifecycleInv' /\ ~On
<1> SUFFICES ASSUME LifecycleInv, VZStart PROVE LifecycleInv' /\ ~On
  OBVIOUS
<1> DEFINE g == calls["start"].vm
<1>1. PICK v \in {"on", "off"}, r \in {"started", "error"} :
        /\ v = "on" <=> r = "started"
        /\ vm' = [vm EXCEPT ![g] = v]
        /\ ResumeWith("start", r)
  BY DEF VZStart
<1>2. calls["start"].pc = "vzStart" /\ UNCHANGED <<state, virtualMachine, tools>>
  BY DEF VZStart, runtimeVars
<1>3. g \in Gens /\ g = virtualMachine /\ Created = 1..g /\ state \notin CanStart
  BY <1>2, Parts DEF StartingInv, TypeOK, Refs, Gens
<1> HIDE DEF g
<1>4. JobOf("start", r) \in Job /\ ~Ends(JobOf("start", r)) /\ r # "vzStopped"
  BY JobOfFields DEF Job, JobOf, Ends
<1>5. /\ JobsInv' /\ mainQ' \in Seq(Job) /\ calls' \in [Callers -> Call]
      /\ Range(mainQ') = Range(mainQ) \union {JobOf("start", r)}
      /\ calls' = [calls EXCEPT !["start"].pc = "return"]
      /\ \A j \in Range(mainQ) : j.call # "start"
  BY <1>1, <1>2, <1>4, StartIsCaller, CallResumes
<1>6. calls'["start"].pc = "return"
  BY <1>5, StartIsCaller, Parts DEF TypeOK, Call
<1>7. /\ vm' \in [Gens -> {"none", "starting", "on", "off"}]
      /\ \A h \in Gens : vm'[h] = IF h = g THEN v ELSE vm[h]
  BY <1>1, <1>3, Parts DEF TypeOK
<1>8. TypeOK'
  BY <1>2, <1>5, <1>7, Parts DEF TypeOK
<1>9. NotOn /\ ~On /\ ~Ending
  BY <1>2, Parts DEF NotOn, EndsInv
<1>10. vm[g] = "starting" /\ \A h \in Gens : vm[h] = "starting" => h = g
  BY <1>2, <1>3, Parts DEF StartingInv, g
<1>11. StartingInv'
  BY <1>6, <1>7, <1>10 DEF StartingInv
<1>12. Created' = Created
  BY <1>7, <1>10 DEF Created
<1>13. \A h \in Gens : vm'[h] = "on" => h = g
  BY <1>7, <1>9 DEF On, Alive
<1>14. OnlyNewest'
  BY <1>2, <1>3, <1>12, <1>13 DEF OnlyNewest, Alive
<1>15. ~Ending'
  BY <1>4, <1>5, <1>9 DEF Ending
<1>16. EndsInv'
  <2>1. CASE v = "on"
    <3>1. ~NotOn'
      BY <1>1, <1>5, <1>6, <2>1, JobOfFields DEF NotOn
    <3>2. QED BY <1>2, <1>3, <1>15, <3>1 DEF EndsInv
  <2>2. CASE v = "off"
    <3>1. ~On'
      BY <1>7, <1>13, <2>2 DEF On, Alive
    <3>2. QED BY <1>15, <3>1 DEF EndsInv
  <2>3. QED BY <2>1, <2>2
<1>17. QED
  BY <1>5, <1>8, <1>9, <1>11, <1>14, <1>16, PartsNext

-----------------------------------------------------------------------------
(* requestStop(), forceStop() and the delegate                              *)

LEMMA OtherCall ==
    ASSUME LifecycleInv, NEW c \in Calls
    PROVE  /\ c \in Callers /\ c # "start" /\ c # "delegate"
           /\ \A call : SetCall(c, call) => calls'["start"] = calls["start"]
           /\ calls' = [calls EXCEPT ![c].pc = "return"] => calls'["start"] = calls["start"]
  BY ConstantsAssumption, StartIsCaller, Parts DEF Callers, SetCall, TypeOK

(* Such a call begins, or is over at once. *)
LEMMA BeginsInv ==
    ASSUME LifecycleInv, NEW c \in Calls, calls[c].pc = "idle",
           NEW call \in Call, SetCall(c, call),
           call = NoCall \/ (call.pc \in {"guest", "vzStop"} /\ call.vm # 0),
           state' = state \/ state' \in RuntimeState \ CanStart,
           UNCHANGED <<virtualMachine, tools, vm, mainQ>>
    PROVE  LifecycleInv'
<1>1. /\ JobsInv' /\ mainQ' \in Seq(Job) /\ calls' \in [Callers -> Call]
  BY OtherCall, StartIsCaller, CallBegins
<1>2. StartingInv' /\ OnlyNewest' /\ EndsInv'
  BY OtherCall, QuietStep
<1>3. TypeOK'
  BY <1>1, Parts DEF TypeOK
<1>4. QED
  BY <1>1, <1>2, <1>3, PartsNext

(* Such a call returns, without the end of a virtual machine. *)
LEMMA ReturnsInv ==
    ASSUME LifecycleInv, NEW c \in Calls, NEW r, Resumes(c, r), SetCall(c, NoCall),
           state' = state \/ state' \in RuntimeState \ CanStart,
           UNCHANGED <<virtualMachine, tools, vm>>
    PROVE  LifecycleInv'
<1>1. /\ JobsInv' /\ mainQ' \in Seq(Job) /\ calls' \in [Callers -> Call]
      /\ Range(mainQ') = Range(mainQ) \ {JobOf(c, r)}
  BY OtherCall, StartIsCaller, CallReturns
<1>2. StartingInv' /\ OnlyNewest' /\ EndsInv'
  BY <1>1, OtherCall, QuietStep
<1>3. TypeOK'
  BY <1>1, Parts DEF TypeOK
<1>4. QED
  BY <1>1, <1>2, <1>3, PartsNext

LEMMA RequestStopInv ==
    ASSUME LifecycleInv, NEW c \in Calls, RequestStop(c)
    PROVE  LifecycleInv'
<1>1. /\ calls[c].pc = "idle" /\ virtualMachine # 0 /\ virtualMachine \in Refs
      /\ mainQ' = mainQ
  BY Parts DEF RequestStop, TypeOK
<1>2. CASE tools = "connected"
  <2> DEFINE call == [pc |-> "guest", vm |-> virtualMachine]
  <2>1. SetCall(c, call) /\ UNCHANGED <<state, virtualMachine, tools, vm>>
    BY <1>2 DEF RequestStop, runtimeVars
  <2>2. call \in Call /\ call.pc = "guest" /\ call.vm # 0
    BY <1>1 DEF Call
  <2> HIDE DEF call
  <2>3. QED BY <1>1, <2>1, <2>2, BeginsInv
<1>3. CASE tools # "connected"
  <2>1. /\ SetCall(c, NoCall) /\ UNCHANGED <<virtualMachine, tools, vm>>
        /\ state' = state \/ state' \in RuntimeState \ CanStart
    BY <1>3 DEF RequestStop, AskToStop, RuntimeState, CanStart
  <2>2. QED BY <1>1, <2>1, BeginsInv, StartIsCaller
<1>4. QED
  BY <1>2, <1>3

LEMMA ForceStopInv ==
    ASSUME LifecycleInv, NEW c \in Calls, ForceStop(c)
    PROVE  LifecycleInv'
<1> DEFINE call == [pc |-> "vzStop", vm |-> virtualMachine]
<1>1. /\ calls[c].pc = "idle" /\ SetCall(c, call)
      /\ UNCHANGED <<virtualMachine, tools, vm, mainQ>>
      /\ state' \in RuntimeState \ CanStart
  BY DEF ForceStop, RuntimeState, CanStart
<1>2. call \in Call /\ call.pc = "vzStop" /\ call.vm # 0
  BY Parts DEF Call, ForceStop, TypeOK
<1> HIDE DEF call
<1>3. QED
  BY <1>1, <1>2, BeginsInv

LEMMA ShutdownInv ==
    ASSUME LifecycleInv, NEW c \in Calls, ShutdownRequested(c) \/ ShutdownRefused(c)
    PROVE  LifecycleInv'
<1>1. PICK r : Resumes(c, r)
  BY DEF ShutdownRequested, ShutdownRefused
<1>2. /\ SetCall(c, NoCall) /\ UNCHANGED <<virtualMachine, tools, vm>>
      /\ state' = state \/ state' \in RuntimeState \ CanStart
  BY DEF ShutdownRequested, ShutdownRefused, AskToStop, runtimeVars, RuntimeState, CanStart
<1>3. QED
  BY <1>1, <1>2, ReturnsInv

LEMMA ForceStopFailedInv ==
    ASSUME LifecycleInv, NEW c \in Calls, ForceStopFailed(c)
    PROVE  LifecycleInv'
  BY ReturnsInv DEF ForceStopFailed, RuntimeState, CanStart

(* The end of a virtual machine is handled: it was the only one to end, and
   nothing is on. *)
LEMMA EndHandled ==
    ASSUME LifecycleInv, NEW j \in Range(mainQ), Ends(j),
           Range(mainQ') = Range(mainQ) \ {j}, vm' = vm,
           calls'["start"] = calls["start"]
    PROVE  StartingInv' /\ OnlyNewest' /\ EndsInv' /\ ~On /\ ~On'
<1>1. Ending /\ ~On /\ ~NotOn
  BY Parts DEF EndsInv, Ending
<1>2. ~On'
  BY <1>1 DEF On, Alive
<1>3. ~Ending'
  BY Parts DEF Ending, JobsInv
<1>4. calls["start"].pc # "vzStart"
  BY <1>1 DEF NotOn
<1>5. StartingInv'
  BY <1>4, StartElsewhere
<1>6. OnlyNewest' /\ EndsInv'
  BY <1>2, <1>3 DEF OnlyNewest, EndsInv, On
<1>7. QED
  BY <1>1, <1>2, <1>5, <1>6

LEMMA ForceStoppedInv ==
    ASSUME LifecycleInv, NEW c \in Calls, ForceStopped(c)
    PROVE  LifecycleInv' /\ ~On /\ ~On'
<1>1. /\ Resumes(c, "vzStopped") /\ SetCall(c, NoCall) /\ vm' = vm
      /\ state' \in RuntimeState /\ virtualMachine' \in Refs /\ tools' \in Tools
  BY Nil DEF ForceStopped, ClearVirtualMachine, RuntimeState, Tools
<1>2. /\ JobsInv' /\ mainQ' \in Seq(Job) /\ calls' \in [Callers -> Call]
      /\ JobOf(c, "vzStopped") \in Range(mainQ)
      /\ Range(mainQ') = Range(mainQ) \ {JobOf(c, "vzStopped")}
  BY <1>1, OtherCall, StartIsCaller, CallReturns
<1>3. Ends(JobOf(c, "vzStopped"))
  BY JobOfFields DEF Ends
<1>4. StartingInv' /\ OnlyNewest' /\ EndsInv' /\ ~On /\ ~On'
  BY <1>1, <1>2, <1>3, OtherCall, EndHandled
<1>5. TypeOK'
  BY <1>1, <1>2, Parts DEF TypeOK
<1>6. QED
  BY <1>2, <1>4, <1>5, PartsNext

LEMMA DelegateInv == LifecycleInv /\ HandleDelegateState => LifecycleInv' /\ ~On /\ ~On'
<1> SUFFICES ASSUME LifecycleInv, HandleDelegateState PROVE LifecycleInv' /\ ~On /\ ~On'
  OBVIOUS
<1>1. PICK r \in CanStart : Resumes("delegate", r) /\ state' = r
  BY DEF HandleDelegateState
<1>2. /\ UNCHANGED <<vm, calls>> /\ state' \in RuntimeState
      /\ virtualMachine' \in Refs /\ tools' \in Tools
  BY <1>1, Nil DEF HandleDelegateState, ClearVirtualMachine, RuntimeState, CanStart, Tools
<1>3. /\ JobOf("delegate", r) \in Range(mainQ)
      /\ mainQ' \in Seq(Job) /\ IsInjective(mainQ')
      /\ Range(mainQ') = Range(mainQ) \ {JobOf("delegate", r)}
  BY <1>1, Taken
<1>4. JobsInv'
  BY <1>2, <1>3, Parts DEF JobsInv
<1>5. Ends(JobOf("delegate", r))
  BY JobOfFields DEF Ends
<1>6. StartingInv' /\ OnlyNewest' /\ EndsInv' /\ ~On /\ ~On'
  BY <1>2, <1>3, <1>5, EndHandled
<1>7. TypeOK'
  BY <1>2, <1>3, Parts DEF TypeOK
<1>8. QED
  BY <1>4, <1>6, <1>7, PartsNext

-----------------------------------------------------------------------------
(* The guest agent and Virtualization.framework                             *)

LEMMA ProbeToolsInv == LifecycleInv /\ ProbeTools => LifecycleInv'
<1> SUFFICES ASSUME LifecycleInv, ProbeTools PROVE LifecycleInv'
  OBVIOUS
<1>1. tools' \in Tools /\ UNCHANGED <<state, virtualMachine, vm, calls, mainQ>>
  BY DEF ProbeTools, Tools
<1>2. TypeOK' /\ JobsInv'
  BY <1>1, Parts DEF TypeOK, JobsInv
<1>3. StartingInv' /\ OnlyNewest' /\ EndsInv'
  BY <1>1, QuietStep
<1>4. QED
  BY <1>2, <1>3, PartsNext

LEMMA GuestAnswersInv ==
    ASSUME LifecycleInv, NEW c \in Calls, GuestAnswers(c)
    PROVE  LifecycleInv'
<1>1. PICK r \in {"accepted", "refused"} : ResumeWith(c, r)
  BY DEF GuestAnswers
<1>2. calls[c].pc = "guest" /\ UNCHANGED <<state, virtualMachine, tools, vm>>
  BY DEF GuestAnswers, runtimeVars
<1>3. JobOf(c, r) \in Job /\ ~Ends(JobOf(c, r)) /\ r # "vzStopped"
  BY JobOfFields, OtherCall DEF Job, JobOf, Ends
<1>4. /\ JobsInv' /\ mainQ' \in Seq(Job) /\ calls' \in [Callers -> Call]
      /\ Range(mainQ') = Range(mainQ) \union {JobOf(c, r)}
      /\ calls' = [calls EXCEPT ![c].pc = "return"]
  BY <1>1, <1>2, <1>3, OtherCall, CallResumes
<1>5. StartingInv' /\ OnlyNewest' /\ EndsInv'
  BY <1>2, <1>3, <1>4, OtherCall, JobOfFields, QuietStep
<1>6. TypeOK'
  BY <1>2, <1>4, Parts DEF TypeOK
<1>7. QED
  BY <1>4, <1>5, <1>6, PartsNext

(* The virtual machine g is powered off, and a job will report it. *)
LEMMA PoweredOff ==
    ASSUME LifecycleInv, NEW g \in Gens, vm[g] = "on", vm' = [vm EXCEPT ![g] = "off"],
           \A j \in Range(mainQ') : j \in Range(mainQ) \/ j.call # "start",
           calls'["start"] = calls["start"], UNCHANGED <<state, virtualMachine>>
    PROVE  /\ vm' \in [Gens -> {"none", "starting", "on", "off"}]
           /\ StartingInv' /\ OnlyNewest' /\ EndsInv' /\ On /\ ~On'
<1>1. On /\ ~Ending /\ state \notin CanStart /\ ~NotOn
  BY Parts DEF EndsInv, On, Alive
<1>2. /\ vm' \in [Gens -> {"none", "starting", "on", "off"}]
      /\ \A h \in Gens : vm'[h] = IF h = g THEN "off" ELSE vm[h]
  BY Parts DEF TypeOK
<1>3. ~On'
  BY <1>2, Parts DEF On, Alive, OnlyNewest
<1>4. ~NotOn'
  BY <1>1 DEF NotOn
<1>5. StartingInv'
  <2>1. calls["start"].pc # "vzStart"
    BY <1>1 DEF NotOn
  <2>2. QED BY <1>2, <2>1, StartElsewhere
<1>6. OnlyNewest' /\ EndsInv'
  BY <1>1, <1>3, <1>4 DEF OnlyNewest, EndsInv, On
<1>7. QED
  BY <1>1, <1>2, <1>3, <1>5, <1>6

LEMMA VZStopInv ==
    ASSUME LifecycleInv, NEW c \in Calls, VZStop(c)
    PROVE  LifecycleInv' /\ (vm' = vm \/ (On /\ ~On'))
<1> DEFINE g == calls[c].vm
<1>1. calls[c].pc = "vzStop" /\ UNCHANGED <<state, virtualMachine, tools>>
  BY DEF VZStop, runtimeVars
<1>2. g \in Gens
  BY <1>1, OtherCall, Parts DEF JobsInv, TypeOK, Call, Refs, Gens
<1>3. /\ \A r \in {"vzStopped", "vzError"} : JobOf(c, r) \in Job
      /\ ~Ends(JobOf(c, "vzError"))
  BY JobOfFields, OtherCall DEF Job, JobOf, Ends
<1>4. CASE vm[g] = "on" /\ vm' = [vm EXCEPT ![g] = "off"] /\ ResumeWith(c, "vzStopped")
  <2>1. ~Ending
    BY <1>2, <1>4, Parts DEF EndsInv, On, Alive
  <2>2. /\ JobsInv' /\ mainQ' \in Seq(Job) /\ calls' \in [Callers -> Call]
        /\ Range(mainQ') = Range(mainQ) \union {JobOf(c, "vzStopped")}
        /\ calls' = [calls EXCEPT ![c].pc = "return"]
    BY <1>1, <1>3, <1>4, <2>1, OtherCall, CallResumes
  <2>3. /\ \A j \in Range(mainQ') : j \in Range(mainQ) \/ j.call # "start"
        /\ calls'["start"] = calls["start"]
    BY <2>2, OtherCall, JobOfFields
  <2> HIDE DEF g
  <2>4. /\ vm' \in [Gens -> {"none", "starting", "on", "off"}]
        /\ StartingInv' /\ OnlyNewest' /\ EndsInv' /\ On /\ ~On'
    BY <1>1, <1>2, <1>4, <2>3, PoweredOff
  <2>5. TypeOK'
    BY <1>1, <2>2, <2>4, Parts DEF TypeOK
  <2>6. QED BY <2>2, <2>4, <2>5, PartsNext
<1>5. CASE vm' = vm /\ ResumeWith(c, "vzError")
  <2>1. /\ JobsInv' /\ mainQ' \in Seq(Job) /\ calls' \in [Callers -> Call]
        /\ Range(mainQ') = Range(mainQ) \union {JobOf(c, "vzError")}
        /\ calls' = [calls EXCEPT ![c].pc = "return"]
    BY <1>1, <1>3, <1>5, OtherCall, CallResumes
  <2>2. StartingInv' /\ OnlyNewest' /\ EndsInv'
    BY <1>1, <1>3, <1>5, <2>1, OtherCall, JobOfFields, QuietStep
  <2>3. TypeOK'
    BY <1>1, <1>5, <2>1, Parts DEF TypeOK
  <2>4. QED BY <1>5, <2>1, <2>2, <2>3, PartsNext
<1>6. QED
  BY <1>4, <1>5 DEF VZStop

LEMMA VZEndsInv ==
    ASSUME LifecycleInv, NEW g \in Gens, VZEnds(g)
    PROVE  LifecycleInv' /\ On /\ ~On'
<1>1. PICK r \in CanStart : Enqueue("delegate", r)
  BY DEF VZEnds
<1>2. /\ vm[g] = "on" /\ vm' = [vm EXCEPT ![g] = "off"]
      /\ UNCHANGED <<state, virtualMachine, tools, calls>>
  BY DEF VZEnds, runtimeVars
<1>3. ~Ending /\ JobOf("delegate", r) \in Job /\ Ends(JobOf("delegate", r))
  BY <1>2, JobOfFields, Parts DEF EndsInv, On, Alive, Ends, Job, JobOf
<1>4. /\ mainQ' \in Seq(Job) /\ IsInjective(mainQ')
      /\ Range(mainQ') = Range(mainQ) \union {JobOf("delegate", r)}
  BY <1>1, <1>3, Added DEF Ending
<1>5. JobsInv'
  <2>1. \A j \in Range(mainQ) : ~Ends(j) /\ j.call # "delegate"
    BY <1>3 DEF Ending, Ends
  <2>2. \A i, j \in Range(mainQ') : i.call = j.call \/ (Ends(i) /\ Ends(j)) => i = j
    BY <1>4, <2>1, JobOfFields, Parts DEF JobsInv
  <2>3. QED BY <1>2, <1>4, <2>2, JobOfFields, Parts DEF JobsInv
<1>6. \A j \in Range(mainQ') : j \in Range(mainQ) \/ j.call # "start"
  BY <1>4, JobOfFields
<1>7. /\ vm' \in [Gens -> {"none", "starting", "on", "off"}]
      /\ StartingInv' /\ OnlyNewest' /\ EndsInv' /\ On /\ ~On'
  BY <1>2, <1>6, PoweredOff
<1>8. TypeOK'
  BY <1>2, <1>4, <1>7, Parts DEF TypeOK
<1>9. QED
  BY <1>5, <1>7, <1>8, PartsNext

-----------------------------------------------------------------------------
(* Theorems                                                                 *)

LEMMA NextInv == LifecycleInv /\ [Next]_vars => LifecycleInv'
<1> SUFFICES ASSUME LifecycleInv, [Next]_vars PROVE LifecycleInv'
  OBVIOUS
<1>1. CASE UNCHANGED vars
  <2>1. TypeOK' /\ JobsInv'
    BY <1>1, Parts DEF vars, TypeOK, JobsInv
  <2>2. StartingInv' /\ OnlyNewest' /\ EndsInv'
    BY <1>1, QuietStep DEF vars
  <2>3. QED BY <2>1, <2>2, PartsNext
<1>2. ASSUME NEW c \in Calls,
             \/ RequestStop(c) \/ ForceStop(c) \/ GuestAnswers(c) \/ VZStop(c)
             \/ ShutdownRequested(c) \/ ShutdownRefused(c)
             \/ ForceStopped(c) \/ ForceStopFailed(c)
      PROVE  LifecycleInv'
  BY <1>2, RequestStopInv, ForceStopInv, GuestAnswersInv, VZStopInv, ShutdownInv,
     ForceStoppedInv, ForceStopFailedInv
<1>3. CASE Next
  BY <1>2, <1>3, StartInv, PrepareInv, VZStartInv, VZEndsInv, ProbeToolsInv,
     NotPreparedInv, StartRuntimeInv, StartedInv, StartFailedInv, DelegateInv
     DEF Next, MainJob
<1>4. QED
  BY <1>1, <1>3

(* MachineRuntime, its calls in flight, the queue of the main actor and the
   virtual machines stay related in every reachable state. *)
THEOREM LifecycleTheorem == Spec => []LifecycleInv
  BY InitInv, NextInv, PTL DEF Spec

(* When MachineRuntime shows .stopped or .failed and no start() is in flight,
   no VZVirtualMachine is on. *)
THEOREM QuietMeansOffTheorem == Spec => []QuietMeansOff
<1>1. LifecycleInv => QuietMeansOff
  BY Parts DEF EndsInv, On, QuietMeansOff
<1>2. QED
  BY <1>1, LifecycleTheorem, PTL

(* A VZVirtualMachine that is on is the newest one and the one the runtime
   holds, whatever answers of older ones are handled late. *)
THEOREM OnlyNewestTheorem == Spec => []OnlyNewest
<1>1. LifecycleInv => OnlyNewest
  BY Parts
<1>2. QED
  BY <1>1, LifecycleTheorem, PTL

(* Only a machine that runs and that the runtime holds begins to stop, and a
   call ends with that only for the machine it was made for: the guest's late
   answer to requestStop() touches no other. *)
THEOREM NoStaleStopTheorem == Spec => NoStaleStop
<1> DEFINE Own == \A c \in Calls : calls[c].pc # "idle" /\ calls'[c].pc = "idle"
                     => calls[c].vm = virtualMachine
           P == state # "stopping" /\ state' = "stopping"
                   => state = "running" /\ virtualMachine # 0 /\ Own
<1>1. ASSUME LifecycleInv, NEW c \in Calls, NEW call, SetCall(c, call),
             calls[c].vm = virtualMachine \/ calls[c].pc = "idle"
                \/ call.pc # "idle"
      PROVE  Own
  <2>1. calls' = [calls EXCEPT ![c] = call] /\ calls \in [Callers -> Call]
    BY <1>1, Parts DEF SetCall, TypeOK
  <2>2. \A d \in Calls : d \in Callers
    BY DEF Callers
  <2>3. calls'[c] = call /\ \A d \in Calls \ {c} : calls'[d] = calls[d]
    BY <2>1, <2>2
  <2>4. QED BY <1>1, <2>3
<1>2. ASSUME LifecycleInv, NEW c \in Calls, StillCurrent(c),
             SetCall(c, NoCall), \E r : Resumes(c, r)
      PROVE  state = "running" /\ virtualMachine # 0 /\ Own
  <2>1. PICK r : Resumes(c, r)
    BY <1>2
  <2>2. calls[c].pc = "return"
    BY <1>2, <2>1, Taken, JobOfFields, OtherCall, Parts DEF JobsInv
  <2>3. Own
    BY <1>1, <1>2 DEF StillCurrent
  <2>4. QED BY <1>2, <2>2, <2>3, Parts DEF StillCurrent, JobsInv
<1>3. ASSUME LifecycleInv, NEW c \in Calls,
             ShutdownRequested(c) \/ ShutdownRefused(c)
      PROVE  P
  <2>1. ~StillCurrent(c) => state' = state
    BY <1>3 DEF ShutdownRequested, ShutdownRefused, runtimeVars
  <2>2. StillCurrent(c) => SetCall(c, NoCall) /\ \E r : Resumes(c, r)
    BY <1>3 DEF ShutdownRequested, ShutdownRefused, AskToStop
  <2>3. QED BY <1>2, <1>3, <2>1, <2>2
<1>4. ASSUME LifecycleInv, NEW c \in Calls, RequestStop(c) \/ ForceStop(c)
      PROVE  P
  <2>1. calls[c].pc = "idle" /\ virtualMachine # 0 /\ \E call : SetCall(c, call)
    BY <1>4 DEF RequestStop, ForceStop, AskToStop
  <2>2. Own
    BY <1>1, <1>4, <2>1
  <2>3. state # "stopping" /\ state' = "stopping" => state = "running"
    BY <1>4 DEF RequestStop, ForceStop, AskToStop, runtimeVars
  <2>4. QED BY <2>1, <2>2, <2>3
<1>5. ASSUME LifecycleInv, NEW c \in Calls,
             GuestAnswers(c) \/ VZStop(c) \/ ForceStopped(c) \/ ForceStopFailed(c)
      PROVE  P
  BY <1>5 DEF GuestAnswers, VZStop, ForceStopped, ForceStopFailed, runtimeVars
<1>6. LifecycleInv /\ [Next]_vars => P
  <2> HIDE DEF Own
  <2> QED
    BY <1>3, <1>4, <1>5 DEF Next, MainJob, vars, Start, Prepare, VZStart, VZEnds,
     ProbeTools, NotPrepared, StartRuntime, Started, StartFailed, HandleDelegateState,
     runtimeVars, CanStart
<1>7. LifecycleInv /\ [Next]_vars => [P]_vars
  BY <1>6
<1>8. QED
  BY <1>7, LifecycleTheorem, PTL DEF Spec, NoStaleStop

-----------------------------------------------------------------------------
(* The runtime implements RuntimeContract                                   *)

MayShowNext == state' \in CanStart => ~On'

(* A step that leaves IsStarting and what is on alone shows a state that the
   contract allows. *)
LEMMA ContractReport ==
    ASSUME TypeOK', IsStarting' <=> IsStarting, On' <=> On, IsStarting \/ MayShowNext
    PROVE  [Contract!ContractNext]_(Contract!contractVars)
  BY DEF TypeOK, On, MayShowNext, RuntimeState, CanStart,
         Contract!ContractNext, Contract!Report, Contract!MayShow, Contract!contractVars,
         Contract!RuntimeState, Contract!CanStart

LEMMA ContractBegin ==
    ASSUME ~IsStarting, IsStarting', On' <=> On, state' = state
    PROVE  [Contract!ContractNext]_(Contract!contractVars)
  BY DEF On, Contract!ContractNext, Contract!BeginStart, Contract!contractVars

LEMMA ContractEnd ==
    ASSUME TypeOK', IsStarting, ~IsStarting', On' <=> On, MayShowNext
    PROVE  [Contract!ContractNext]_(Contract!contractVars)
<1>1. Contract!MayShow(state')
  BY DEF On, MayShowNext, CanStart, Contract!MayShow, Contract!CanStart
<1>2. state' \in Contract!RuntimeState
  BY DEF TypeOK, RuntimeState, Contract!RuntimeState
<1>3. Contract!EndStart
  BY <1>1, <1>2 DEF Contract!EndStart, On, IsStarting
<1>4. QED
  BY <1>3 DEF Contract!ContractNext

LEMMA ContractPower ==
    ASSUME IsStarting' <=> IsStarting, state' = state,
           \/ On' <=> On
           \/ On /\ ~On'
           \/ IsStarting /\ ~On /\ On'
    PROVE  [Contract!ContractNext]_(Contract!contractVars)
  BY DEF On, Contract!ContractNext, Contract!PowerOn, Contract!PowerOff,
         Contract!contractVars

(* Whether a start is in flight depends on calls["start"] only. *)
LEMMA StartCall ==
    ASSUME LifecycleInv
    PROVE  /\ calls' = calls => (IsStarting' <=> IsStarting)
           /\ \A c \in Calls : \A call : SetCall(c, call) => (IsStarting' <=> IsStarting)
           /\ \A c \in Calls : \A r : ResumeWith(c, r) => (IsStarting' <=> IsStarting)
           /\ \A r : ResumeWith("start", r) => IsStarting'
           /\ \A call : SetCall("start", call) => (IsStarting' <=> call.pc # "idle")
<1>1. \A c \in Calls : \A call : SetCall(c, call) => (IsStarting' <=> IsStarting)
  BY OtherCall DEF IsStarting
<1>2. \A c \in Calls : \A r : ResumeWith(c, r) => (IsStarting' <=> IsStarting)
  BY OtherCall DEF IsStarting, ResumeWith
<1>3. \A r : ResumeWith("start", r) => IsStarting'
  BY StartIsCaller, Parts DEF IsStarting, ResumeWith, TypeOK, Call
<1>4. \A call : SetCall("start", call) => (IsStarting' <=> call.pc # "idle")
  BY StartIsCaller, Parts DEF IsStarting, SetCall, TypeOK
<1>5. QED
  BY <1>1, <1>2, <1>3, <1>4 DEF IsStarting

LEMMA ResumedIsStarting ==
    ASSUME LifecycleInv, NEW r, Resumes("start", r)
    PROVE  IsStarting
<1>1. calls["start"].pc = "return"
  BY Taken, JobOfFields, Parts DEF JobsInv
<1>2. QED
  BY <1>1 DEF IsStarting

LEMMA StepImplements ==
    ASSUME LifecycleInv, LifecycleInv', [Next]_vars
    PROVE  [Contract!ContractNext]_(Contract!contractVars)
<1> DEFINE Goal == [Contract!ContractNext]_(Contract!contractVars)
<1> SUFFICES Goal
  OBVIOUS
<1>1. TypeOK' /\ (state' \in CanStart => ~On' \/ IsStarting')
  BY PartsNext DEF LifecycleInv, On
<1>2. vm' = vm => (On' <=> On)
  BY DEF On, Alive
<1>3. On => state \notin CanStart
  BY Parts DEF EndsInv
<1>4. NoCall.pc = "idle"
  BY StartIsCaller
<1> HIDE DEF Goal
<1>5. CASE UNCHANGED vars
  <2>1. IsStarting' <=> IsStarting
    BY <1>5 DEF vars, IsStarting
  <2>2. state' = state /\ vm' = vm
    BY <1>5 DEF vars
  <2>3. QED BY <1>2, <2>1, <2>2, ContractPower DEF Goal
<1>6. CASE Start
  <2>1. ~IsStarting /\ IsStarting' /\ state' = state /\ vm' = vm
    BY <1>6, StartCall DEF Start, runtimeVars
  <2>2. QED BY <1>2, <2>1, ContractBegin DEF Goal
<1>7. CASE Prepare
  <2>1. IsStarting /\ IsStarting' /\ state' = state /\ vm' = vm
    BY <1>7, StartCall DEF Prepare, IsStarting, runtimeVars
  <2>2. QED BY <1>2, <2>1, ContractPower DEF Goal
<1>8. CASE VZStart
  <2>1. IsStarting /\ IsStarting' /\ state' = state /\ ~On
    BY <1>8, StartCall, VZStartInv DEF VZStart, IsStarting, runtimeVars
  <2>2. QED BY <2>1, ContractPower DEF Goal
<1>9. ASSUME NEW r \in {"prepared", "unprepared", "error"},
             Resumes("start", r), SetCall("start", NoCall), ~On, ~On'
      PROVE  Goal
  <2>1. IsStarting /\ ~IsStarting'
    BY <1>4, <1>9, ResumedIsStarting, StartCall
  <2>2. QED BY <1>1, <1>9, <2>1, ContractEnd DEF Goal, MayShowNext
<1>10. CASE NotPrepared
  BY <1>9, <1>10, NotPreparedInv DEF NotPrepared
<1>11. CASE StartFailed
  BY <1>9, <1>11, StartFailedInv DEF StartFailed
<1>12. CASE StartRuntime
  <2>1. ~On /\ ~On' /\ Resumes("start", "prepared")
    BY <1>12, StartRuntimeInv DEF StartRuntime
  <2>2. CASE state \notin CanStart
    BY <1>9, <1>12, <2>1, <2>2 DEF StartRuntime
  <2>3. CASE state \in CanStart
    <3>1. PICK g \in Gens : SetCall("start", [pc |-> "vzStart", vm |-> g])
      BY <1>12, <2>3 DEF StartRuntime
    <3>2. IsStarting /\ IsStarting'
      BY <2>1, <3>1, ResumedIsStarting, StartCall
    <3>3. QED BY <1>1, <2>1, <3>2, ContractReport DEF Goal
  <2>4. QED BY <2>2, <2>3
<1>13. CASE Started
  <2>1. IsStarting /\ ~IsStarting' /\ vm' = vm /\ state' = "running"
    BY <1>4, <1>13, ResumedIsStarting, StartCall DEF Started
  <2>2. QED BY <1>1, <1>2, <2>1, ContractEnd DEF Goal, MayShowNext, CanStart
<1>14. CASE HandleDelegateState
  <2>1. ~On /\ ~On' /\ (IsStarting' <=> IsStarting)
    BY <1>14, DelegateInv, StartCall DEF HandleDelegateState
  <2>2. QED BY <1>1, <2>1, ContractReport DEF Goal, MayShowNext
<1>15. CASE ProbeTools
  <2>1. (IsStarting' <=> IsStarting) /\ vm' = vm /\ state' = state
    BY <1>15, StartCall DEF ProbeTools
  <2>2. QED BY <1>2, <2>1, ContractPower DEF Goal
<1>16. ASSUME NEW g \in Gens, VZEnds(g) PROVE Goal
  <2>1. (IsStarting' <=> IsStarting) /\ state' = state /\ On /\ ~On'
    BY <1>16, StartCall, VZEndsInv DEF VZEnds, runtimeVars
  <2>2. QED BY <2>1, ContractPower DEF Goal
<1>17. ASSUME NEW c \in Calls, SetCall(c, NoCall) \/ (\E call : SetCall(c, call)),
              vm' = vm, state' = state \/ state' \notin CanStart
       PROVE  Goal
  <2>1. (IsStarting' <=> IsStarting) /\ (On' <=> On)
    BY <1>2, <1>17, StartCall
  <2>2. MayShowNext
    BY <1>3, <1>17, <2>1 DEF MayShowNext
  <2>3. QED BY <1>1, <2>1, <2>2, ContractReport DEF Goal
<1>18. ASSUME NEW c \in Calls,
              \/ RequestStop(c) \/ ForceStop(c) \/ ForceStopFailed(c)
              \/ ShutdownRequested(c) \/ ShutdownRefused(c)
       PROVE  Goal
  BY <1>17, <1>18 DEF RequestStop, AskToStop, ForceStop, ForceStopFailed,
     ShutdownRequested, ShutdownRefused, runtimeVars, CanStart
<1>19. ASSUME NEW c \in Calls, ForceStopped(c) PROVE Goal
  <2>1. ~On /\ ~On' /\ (IsStarting' <=> IsStarting)
    BY <1>19, ForceStoppedInv, StartCall DEF ForceStopped
  <2>2. QED BY <1>1, <2>1, ContractReport DEF Goal, MayShowNext
<1>20. ASSUME NEW c \in Calls, GuestAnswers(c) PROVE Goal
  <2>1. (IsStarting' <=> IsStarting) /\ vm' = vm /\ state' = state
    BY <1>20, StartCall DEF GuestAnswers, runtimeVars
  <2>2. QED BY <1>2, <2>1, ContractPower DEF Goal
<1>21. ASSUME NEW c \in Calls, VZStop(c) PROVE Goal
  <2>1. (IsStarting' <=> IsStarting) /\ state' = state
    BY <1>21, StartCall DEF VZStop, runtimeVars
  <2>2. QED BY <1>2, <1>21, <2>1, VZStopInv, ContractPower DEF Goal
<1>22. QED
  BY <1>5, <1>6, <1>7, <1>8, <1>10, <1>11, <1>12, <1>13, <1>14, <1>15, <1>16, <1>18,
     <1>19, <1>20, <1>21 DEF Next, MainJob

(* MachineRuntime keeps the contract that AppModel's guards on a machine's
   disk build on: every behaviour of the runtime, with late answers and
   overlapping calls, is one of RuntimeContract. *)
THEOREM ContractTheorem == Spec => ImplementsContract
<1>1. Init => Contract!ContractInit
  <2> SUFFICES ASSUME Init PROVE Contract!ContractInit
    OBVIOUS
  <2>1. state = "stopped" /\ ~IsStarting /\ ~On
    BY StartIsCaller DEF Init, IsStarting, On, Alive
  <2>2. QED BY <2>1 DEF Contract!ContractInit, IsStarting, On
<1>2. LifecycleInv /\ LifecycleInv' /\ [Next]_vars
        => [Contract!ContractNext]_(Contract!contractVars)
  BY StepImplements
<1>3. QED
  BY <1>1, <1>2, LifecycleTheorem, PTL DEF Spec, ImplementsContract, Contract!ContractSpec
=============================================================================
