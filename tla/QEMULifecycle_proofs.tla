----------------------- MODULE QEMULifecycle_proofs ------------------------
(***************************************************************************)
(* Proofs for QEMULifecycle.  QueueInv is inductive for every user;        *)
(* LifecycleInv is for one who waits for stop to return, and with it there *)
(* is one QEMU process, under the runtime's control, and the runtime       *)
(* implements RuntimeContract: for any number of starts and of concurrent  *)
(* calls.                                                                  *)
(***************************************************************************)
EXTENDS QEMULifecycle, SequenceTheorems, TLAPS

-----------------------------------------------------------------------------
(* A queue of jobs, as a set                                                *)

JobsIn(q) == {q[i] : i \in DOMAIN q}
OneReturn(q) == \A i, k \in DOMAIN q : \A c \in Callers :
                   Returns(q[i], c) /\ Returns(q[k], c) => i = k

LEMMA QueueDomain ==
    ASSUME NEW q \in Seq(Job)
    PROVE  /\ DOMAIN q = 1..Len(q) /\ Len(q) \in Nat
           /\ JobsIn(q) \subseteq Job
<1>1. DOMAIN q = 1..Len(q) /\ Len(q) \in Nat
  BY LenProperties
<1>2. \A k \in DOMAIN q : q[k] \in Job
  BY <1>1, ElementOfSeq
<1>3. QED
  BY <1>1, <1>2 DEF JobsIn

LEMMA QueueOne ==
    ASSUME NEW q, OneReturn(q), NEW c \in Callers,
           NEW i \in JobsIn(q), NEW j \in JobsIn(q), Returns(i, c), Returns(j, c)
    PROVE  i = j
  BY DEF OneReturn, JobsIn

LEMMA QueueAppend ==
    ASSUME NEW q \in Seq(Job), OneReturn(q), NEW j \in Job,
           \A c \in Callers : Returns(j, c) => \A k \in JobsIn(q) : ~Returns(k, c)
    PROVE  /\ Append(q, j) \in Seq(Job)
           /\ OneReturn(Append(q, j))
           /\ JobsIn(Append(q, j)) = JobsIn(q) \union {j}
<1> DEFINE q2 == Append(q, j)
<1>1. /\ q2 \in Seq(Job) /\ Len(q2) = Len(q) + 1
      /\ \A i \in 1..Len(q) : q2[i] = q[i]
      /\ q2[Len(q) + 1] = j
  BY AppendProperties
<1> HIDE DEF q2
<1>2. DOMAIN q = 1..Len(q) /\ DOMAIN q2 = 1..(Len(q) + 1) /\ Len(q) \in Nat
  BY <1>1, QueueDomain
<1>3. DOMAIN q2 = DOMAIN q \union {Len(q) + 1} /\ Len(q) + 1 \notin DOMAIN q
  BY <1>2
<1>4. \A i \in DOMAIN q : q2[i] = q[i] /\ q[i] \in JobsIn(q)
  BY <1>1, <1>2 DEF JobsIn
<1>5. OneReturn(q2)
  BY <1>1, <1>3, <1>4 DEF OneReturn
<1>6. JobsIn(q2) = JobsIn(q) \union {j}
  BY <1>1, <1>3, <1>4 DEF JobsIn
<1>7. QED
  BY <1>1, <1>5, <1>6 DEF q2

LEMMA QueueTail ==
    ASSUME NEW q \in Seq(Job), OneReturn(q), q # <<>>
    PROVE  /\ Tail(q) \in Seq(Job)
           /\ OneReturn(Tail(q))
           /\ Head(q) \in Job
           /\ JobsIn(q) = JobsIn(Tail(q)) \union {Head(q)}
           /\ \A c \in Callers : Returns(Head(q), c) =>
                 \A k \in JobsIn(Tail(q)) : ~Returns(k, c)
<1> DEFINE t == Tail(q)
<1>1. /\ t \in Seq(Job) /\ Len(t) = Len(q) - 1
      /\ \A i \in 1..Len(t) : t[i] = q[i + 1]
  BY HeadTailProperties
<1>2. Head(q) = q[1] /\ Len(q) # 0
  BY EmptySeq
<1> HIDE DEF t
<1>3. /\ DOMAIN q = 1..Len(q) /\ DOMAIN t = 1..Len(t) /\ Len(q) \in Nat
      /\ JobsIn(q) \subseteq Job
  BY <1>1, QueueDomain
<1>4. 1 \in DOMAIN q
  BY <1>2, <1>3
<1>5. \A i \in DOMAIN t : i + 1 \in DOMAIN q /\ i + 1 # 1 /\ t[i] = q[i + 1]
  BY <1>1, <1>3
<1>6. \A k \in DOMAIN q : k # 1 => \E i \in DOMAIN t : i + 1 = k
  <2>1. ASSUME NEW k \in DOMAIN q, k # 1 PROVE k - 1 \in DOMAIN t /\ (k - 1) + 1 = k
    BY <2>1, <1>1, <1>3
  <2>2. QED BY <2>1
<1>7. \A i, k \in DOMAIN t : i + 1 = k + 1 => i = k
  BY <1>1, <1>3
<1>8. OneReturn(t)
  BY <1>5, <1>7 DEF OneReturn
<1>9. JobsIn(q) = JobsIn(t) \union {q[1]}
  BY <1>4, <1>5, <1>6 DEF JobsIn
<1>10. \A c \in Callers : Returns(q[1], c) => \A k \in JobsIn(t) : ~Returns(k, c)
  BY <1>4, <1>5 DEF OneReturn, JobsIn
<1>11. q[1] \in Job
  BY <1>3, <1>4 DEF JobsIn
<1>12. QED
  BY <1>1, <1>2, <1>8, <1>9, <1>10, <1>11 DEF t

-----------------------------------------------------------------------------
(* The calls and their jobs                                                 *)

(* The part of QueueInv that relates the calls to the queue. *)
CallsHaveJobs ==
    /\ OneReturn(mainQ)
    /\ \A c \in Callers :
          calls[c].pc = "return" <=> \E job \in Queued : Returns(job, c)

RestTyped ==
    /\ operatingSystem \in OperatingSystems
    /\ displayBackend \in DisplayBackends
    /\ state \in RuntimeState
    /\ runtimeGeneration \in Refs
    /\ processController \in Refs
    /\ softwareTPMController \in Refs
    /\ tools \in Tools
    /\ display \in Display
    /\ qemu \in [Gens -> Controller]
    /\ swtpm \in [Gens -> {"none", "alive", "dead"}]
    /\ finishing \subseteq (Gens \X {"stopped", "failed"} \X Gens)

HoldsController == {"spawn", "stop", "qmp", "poll", "force", "killing"}
ControllerHeld == \A c \in Callers : calls[c].pc \in HoldsController => calls[c].ctl # 0
IsExitJob(job) == job.kind \in {"exit", "finish"}
ExitJobsTyped == \A job \in Queued : IsExitJob(job) => job.gen # 0 /\ job.st \in CanStart
DisplayAwaited == display \in {"pending", "answered"} =>
                     UsesSPICE /\ calls["start"].pc = "display"

LEMMA QueueParts ==
    ASSUME QueueInv
    PROVE  /\ CallsHaveJobs /\ mainQ \in Seq(Job) /\ Queued \subseteq Job
           /\ Queued = JobsIn(mainQ)
           /\ RestTyped /\ calls \in [Callers -> Call]
           /\ ControllerHeld /\ ExitJobsTyped /\ DisplayAwaited
<1>1. CallsHaveJobs
  BY DEF QueueInv, CallsHaveJobs, OneReturn
<1>2. mainQ \in Seq(Job) /\ Queued = JobsIn(mainQ)
  BY DEF QueueInv, TypeOK, Queued, JobsIn
<1>3. RestTyped /\ calls \in [Callers -> Call]
  BY DEF QueueInv, TypeOK, RestTyped
<1>4. ControllerHeld /\ ExitJobsTyped /\ DisplayAwaited
  BY DEF QueueInv, ControllerHeld, HoldsController, ExitJobsTyped, IsExitJob,
         DisplayAwaited
<1>5. QED
  BY <1>1, <1>2, <1>3, <1>4, QueueDomain

LEMMA QueuePartsNext ==
    ASSUME CallsHaveJobs', mainQ' \in Seq(Job), RestTyped', calls' \in [Callers -> Call],
           ControllerHeld', ExitJobsTyped', DisplayAwaited'
    PROVE  QueueInv'
  BY DEF QueueInv, TypeOK, RestTyped, CallsHaveJobs, OneReturn, ControllerHeld,
         HoldsController, ExitJobsTyped, IsExitJob, DisplayAwaited

LEMMA QueuedNext == Queued' = JobsIn(mainQ')
  BY DEF Queued, JobsIn

LEMMA StartIsCaller ==
    /\ "start" \in Callers /\ "start" \notin Calls /\ Calls \subseteq Callers
    /\ NoCall \in Call /\ NoCall.pc = "idle" /\ NoCall.ctl = 0 /\ NoCall.tpm = 0
    /\ ~NoCall.reboot
  BY ConstantsAssumption DEF Callers, NoCall, Call, PC, Refs

(* The place of a call whose job is queued. *)
LEMMA PlaceOfJob ==
    ASSUME CallsHaveJobs, NEW c \in Callers, NEW job \in Queued, Returns(job, c)
    PROVE  Place[c] = job.st /\ calls[c].pc = "return"
<1>1. calls[c].pc = "return"
  BY DEF CallsHaveJobs
<1> DEFINE first == CHOOSE j \in Queued : Returns(j, c)
<1>2. first \in Queued /\ Returns(first, c)
  OBVIOUS
<1>3. Place[c] = first.st
  BY <1>1 DEF Place
<1> HIDE DEF first
<1>4. job \in JobsIn(mainQ) /\ first \in JobsIn(mainQ)
  BY <1>2 DEF Queued, JobsIn
<1>5. first = job
  BY <1>2, <1>4, QueueOne DEF CallsHaveJobs
<1>6. QED
  BY <1>1, <1>3, <1>5

LEMMA PlaceOfWait ==
    ASSUME NEW c \in Callers, calls[c].pc # "return"
    PROVE  Place[c] = calls[c].pc
  BY DEF Place

LEMMA PlaceOfJobNext ==
    ASSUME CallsHaveJobs', NEW c \in Callers, NEW job \in Queued', Returns(job, c)
    PROVE  Place'[c] = job.st /\ calls'[c].pc = "return"
<1>1. calls'[c].pc = "return"
  BY DEF CallsHaveJobs
<1> DEFINE first == CHOOSE j \in Queued' : Returns(j, c)
<1>2. first \in Queued' /\ Returns(first, c)
  OBVIOUS
<1>3. Place'[c] = first.st
  BY <1>1 DEF Place
<1> HIDE DEF first
<1>4. job \in JobsIn(mainQ') /\ first \in JobsIn(mainQ')
  BY <1>2 DEF Queued, JobsIn
<1>5. OneReturn(mainQ')
  BY DEF CallsHaveJobs, OneReturn
<1>6. first = job
  BY <1>2, <1>4, <1>5, QueueOne
<1>7. QED
  BY <1>1, <1>3, <1>6

LEMMA PlaceOfWaitNext ==
    ASSUME NEW c \in Callers, calls'[c].pc # "return"
    PROVE  Place'[c] = calls'[c].pc
  BY DEF Place

(* A call that a step leaves alone, with its job, stays in its place. *)
LEMMA PlaceKept ==
    ASSUME CallsHaveJobs, CallsHaveJobs', NEW c \in Callers,
           calls'[c].pc = calls[c].pc,
           \A job : Returns(job, c) /\ job \in Queued => job \in Queued'
    PROVE  Place'[c] = Place[c]
<1>1. CASE calls[c].pc # "return"
  BY <1>1, PlaceOfWait, PlaceOfWaitNext
<1>2. CASE calls[c].pc = "return"
  <2>1. PICK job \in Queued : Returns(job, c)
    BY <1>2 DEF CallsHaveJobs
  <2>2. job \in Queued'
    BY <2>1
  <2>3. Place[c] = job.st
    BY <2>1, PlaceOfJob
  <2>4. Place'[c] = job.st
    BY <2>1, <2>2, PlaceOfJobNext
  <2>5. QED BY <2>3, <2>4
<1>3. QED
  BY <1>1, <1>2

-----------------------------------------------------------------------------
(* What a step does to the calls and the queue                              *)

LEMMA ResumeCall ==
    ASSUME QueueInv, NEW c \in Callers, NEW pc \in PC, Resume(c, pc)
    PROVE  /\ calls' \in [Callers -> Call]
           /\ calls'[c].pc = pc /\ calls'[c].ctl = calls[c].ctl
           /\ calls'[c].tpm = calls[c].tpm /\ calls'[c].reboot = calls[c].reboot
           /\ \A d \in Callers : d # c => calls'[d] = calls[d]
  BY DEF QueueInv, TypeOK, Resume, Call

LEMMA SetOneCall ==
    ASSUME QueueInv, NEW c \in Callers, NEW call \in Call, SetCall(c, call)
    PROVE  /\ calls' \in [Callers -> Call]
           /\ calls'[c] = call
           /\ \A d \in Callers : d # c => calls'[d] = calls[d]
  BY DEF QueueInv, TypeOK, SetCall

(* The answer for c is queued behind q, which has the return jobs of mainQ. *)
LEMMA AnswerQueued ==
    ASSUME QueueInv, NEW c \in Callers, calls[c].pc # "return",
           NEW r \in Result, NEW q \in Seq(Job), OneReturn(q),
           \A job : \A d \in Callers : Returns(job, d) =>
              (job \in JobsIn(q) <=> job \in Queued),
           mainQ' = Append(q, ReturnJob(c, r)), Resume(c, "return")
    PROVE  /\ mainQ' \in Seq(Job) /\ CallsHaveJobs'
           /\ Queued' = JobsIn(q) \union {ReturnJob(c, r)}
           /\ Place'[c] = r
           /\ \A d \in Callers : d # c => Place'[d] = Place[d]
<1> DEFINE new == ReturnJob(c, r)
<1>1. /\ new \in Job /\ Returns(new, c) /\ new.st = r
      /\ \A d \in Callers : Returns(new, d) => d = c
  BY ConstantsAssumption DEF ReturnJob, Job, Returns, Refs
<1> HIDE DEF new
<1>2. \A d \in Callers : Returns(new, d) => \A k \in JobsIn(q) : ~Returns(k, d)
  <2>1. \A k \in Queued : ~Returns(k, c)
    BY QueueParts DEF CallsHaveJobs
  <2>2. QED BY <1>1, <2>1
<1>3. mainQ' \in Seq(Job) /\ OneReturn(mainQ') /\ JobsIn(mainQ') = JobsIn(q) \union {new}
  BY <1>1, <1>2, QueueAppend DEF new
<1>4. Queued' = JobsIn(q) \union {new}
  BY <1>3, QueuedNext
<1>5. \A d \in Callers : calls'[d].pc = IF d = c THEN "return" ELSE calls[d].pc
  BY ResumeCall DEF PC
<1>6. CallsHaveJobs'
  <2>1. ASSUME NEW d \in Callers
        PROVE  calls'[d].pc = "return" <=> \E job \in Queued' : Returns(job, d)
    <3>1. CASE d = c
      BY <3>1, <1>1, <1>4, <1>5
    <3>2. CASE d # c
      <4>1. calls[d].pc = "return" <=> \E job \in Queued : Returns(job, d)
        BY QueueParts DEF CallsHaveJobs
      <4>2. QED BY <3>2, <4>1, <1>1, <1>4, <1>5
    <3>3. QED BY <3>1, <3>2
  <2>2. QED BY <2>1, <1>3 DEF CallsHaveJobs, OneReturn
<1>7. new \in Queued' /\ Place'[c] = r
  BY <1>1, <1>4, <1>6, PlaceOfJobNext
<1>8. ASSUME NEW d \in Callers, d # c PROVE Place'[d] = Place[d]
  <2>1. calls'[d].pc = calls[d].pc
    BY <1>5, <1>8
  <2>2. \A job : Returns(job, d) /\ job \in Queued => job \in Queued'
    BY <1>4
  <2>3. QED BY <2>1, <2>2, <1>6, PlaceKept, QueueParts
<1>9. QED
  BY <1>3, <1>4, <1>6, <1>7, <1>8 DEF new

(* No answer is queued or taken. *)
LEMMA NoAnswer ==
    ASSUME QueueInv, mainQ' \in Seq(Job), OneReturn(mainQ'),
           \A job : \A d \in Callers : Returns(job, d) =>
              (job \in Queued' <=> job \in Queued),
           \A d \in Callers : \/ calls'[d].pc = calls[d].pc
                              \/ calls'[d].pc # "return" /\ calls[d].pc # "return"
    PROVE  /\ CallsHaveJobs'
           /\ \A d \in Callers : calls'[d].pc # "return" => Place'[d] = calls'[d].pc
           /\ \A d \in Callers : calls'[d].pc = calls[d].pc => Place'[d] = Place[d]
<1>1. ASSUME NEW d \in Callers
      PROVE  calls'[d].pc = "return" <=> \E job \in Queued' : Returns(job, d)
  <2>1. calls[d].pc = "return" <=> \E job \in Queued : Returns(job, d)
    BY QueueParts DEF CallsHaveJobs
  <2>2. calls'[d].pc = "return" <=> calls[d].pc = "return"
    OBVIOUS
  <2>3. QED BY <2>1, <2>2
<1>2. CallsHaveJobs'
  BY <1>1 DEF CallsHaveJobs, OneReturn
<1>3. \A d \in Callers : calls'[d].pc # "return" => Place'[d] = calls'[d].pc
  BY PlaceOfWaitNext
<1>4. ASSUME NEW d \in Callers, calls'[d].pc = calls[d].pc PROVE Place'[d] = Place[d]
  BY <1>2, <1>4, PlaceKept, QueueParts
<1>5. QED
  BY <1>2, <1>3, <1>4

(* The queue is not touched. *)
LEMMA QueueKept ==
    ASSUME QueueInv, mainQ' = mainQ,
           \A d \in Callers : \/ calls'[d].pc = calls[d].pc
                              \/ calls'[d].pc # "return" /\ calls[d].pc # "return"
    PROVE  /\ mainQ' \in Seq(Job) /\ Queued' = Queued /\ CallsHaveJobs'
           /\ \A d \in Callers : calls'[d].pc # "return" => Place'[d] = calls'[d].pc
           /\ \A d \in Callers : calls'[d].pc = calls[d].pc => Place'[d] = Place[d]
<1>1. mainQ' \in Seq(Job) /\ OneReturn(mainQ')
  BY QueueParts DEF CallsHaveJobs
<1>2. Queued' = Queued
  BY QueueParts, QueuedNext
<1>3. QED
  BY <1>1, <1>2, NoAnswer

(* Another job is queued behind q, and no call changes. *)
LEMMA OtherQueued ==
    ASSUME QueueInv, NEW job \in Job, job.kind # "return",
           NEW q \in Seq(Job), OneReturn(q),
           \A k : \A d \in Callers : Returns(k, d) =>
              (k \in JobsIn(q) <=> k \in Queued),
           mainQ' = Append(q, job), calls' = calls
    PROVE  /\ mainQ' \in Seq(Job) /\ CallsHaveJobs'
           /\ Queued' = JobsIn(q) \union {job}
           /\ \A d \in Callers : Place'[d] = Place[d]
<1>1. \A d \in Callers : ~Returns(job, d)
  BY DEF Returns
<1>2. mainQ' \in Seq(Job) /\ OneReturn(mainQ') /\ JobsIn(mainQ') = JobsIn(q) \union {job}
  BY <1>1, QueueAppend
<1>3. Queued' = JobsIn(q) \union {job}
  BY <1>2, QueuedNext
<1>4. QED
  BY <1>1, <1>2, <1>3, NoAnswer

(* Another job is taken; what is left in the queue. *)
LEMMA OtherTaken ==
    ASSUME QueueInv, mainQ # <<>>, Head(mainQ).kind # "return"
    PROVE  /\ Tail(mainQ) \in Seq(Job) /\ OneReturn(Tail(mainQ))
           /\ Head(mainQ) \in Queued /\ Head(mainQ) \in Job
           /\ Queued = JobsIn(Tail(mainQ)) \union {Head(mainQ)}
           /\ \A job : \A d \in Callers : Returns(job, d) =>
                (job \in JobsIn(Tail(mainQ)) <=> job \in Queued)
<1>1. /\ Tail(mainQ) \in Seq(Job) /\ OneReturn(Tail(mainQ)) /\ Head(mainQ) \in Job
      /\ Queued = JobsIn(Tail(mainQ)) \union {Head(mainQ)}
  BY QueueParts, QueueTail DEF CallsHaveJobs
<1>2. QED
  BY <1>1 DEF Returns

(* The answer for c is next. *)
LEMMA AnswerAtHead ==
    ASSUME QueueInv, NEW c \in Callers, mainQ # <<>>, Returns(Head(mainQ), c)
    PROVE  /\ Place[c] = Head(mainQ).st /\ calls[c].pc = "return"
           /\ Tail(mainQ) \in Seq(Job) /\ OneReturn(Tail(mainQ))
           /\ Head(mainQ) \in Job
           /\ Queued = JobsIn(Tail(mainQ)) \union {Head(mainQ)}
           /\ \A k \in JobsIn(Tail(mainQ)) : ~Returns(k, c)
<1>1. /\ Tail(mainQ) \in Seq(Job) /\ OneReturn(Tail(mainQ))
      /\ Head(mainQ) \in Job
      /\ Queued = JobsIn(Tail(mainQ)) \union {Head(mainQ)}
      /\ \A k \in JobsIn(Tail(mainQ)) : ~Returns(k, c)
  BY QueueParts, QueueTail DEF CallsHaveJobs
<1>2. Place[c] = Head(mainQ).st /\ calls[c].pc = "return"
  BY <1>1, PlaceOfJob, QueueParts
<1>3. QED
  BY <1>1, <1>2

(* The call c is resumed with its answer; others may begin or end. *)
LEMMA AnswerTaken ==
    ASSUME QueueInv, NEW c \in Callers, mainQ # <<>>, Returns(Head(mainQ), c),
           mainQ' = Tail(mainQ), calls'[c].pc # "return",
           \A d \in Callers : \/ d = c
                              \/ calls'[d].pc = calls[d].pc
                              \/ calls'[d].pc # "return" /\ calls[d].pc # "return"
    PROVE  /\ mainQ' \in Seq(Job) /\ CallsHaveJobs'
           /\ Queued' \subseteq Queued
           /\ \A d \in Callers : calls'[d].pc # "return" => Place'[d] = calls'[d].pc
           /\ \A d \in Callers : d # c /\ calls'[d].pc = calls[d].pc =>
                                    Place'[d] = Place[d]
<1> DEFINE t == Tail(mainQ)
<1>1. /\ t \in Seq(Job) /\ OneReturn(t)
      /\ Queued = JobsIn(t) \union {Head(mainQ)}
      /\ \A k \in JobsIn(t) : ~Returns(k, c)
      /\ mainQ' = t
  BY AnswerAtHead
<1> HIDE DEF t
<1>2. Queued' = JobsIn(t)
  BY <1>1, QueuedNext
<1>3. \A d \in Callers : d # c => ~Returns(Head(mainQ), d)
  BY DEF Returns
<1>4. ASSUME NEW d \in Callers
      PROVE  calls'[d].pc = "return" <=> \E job \in Queued' : Returns(job, d)
  <2>1. calls[d].pc = "return" <=> \E job \in Queued : Returns(job, d)
    BY QueueParts DEF CallsHaveJobs
  <2>2. CASE d = c
    BY <2>2, <1>1, <1>2
  <2>3. CASE d # c
    BY <2>1, <2>3, <1>1, <1>2, <1>3
  <2>4. QED BY <2>2, <2>3
<1>5. CallsHaveJobs'
  BY <1>1, <1>4 DEF CallsHaveJobs, OneReturn
<1>6. ASSUME NEW d \in Callers, d # c, calls'[d].pc = calls[d].pc
      PROVE  Place'[d] = Place[d]
  <2>1. \A job : Returns(job, d) /\ job \in Queued => job \in Queued'
    BY <1>1, <1>2, <1>3, <1>6
  <2>2. QED BY <2>1, <1>5, <1>6, PlaceKept, QueueParts
<1>7. QED
  BY <1>1, <1>2, <1>5, <1>6, PlaceOfWaitNext

-----------------------------------------------------------------------------
(* QueueInv, by what a step does to the calls                               *)

(* A step that resumes nothing new of a display connection. *)
DisplayStep ==
    display' \in {"pending", "answered"} => display' = display /\ UsesSPICE'

(* The await of c ends: its answer is queued behind q. *)
LEMMA CallAnswered ==
    ASSUME QueueInv, NEW c \in Callers, calls[c].pc # "return",
           NEW r \in Result, NEW q \in Seq(Job), OneReturn(q),
           \A job : \A d \in Callers : Returns(job, d) =>
              (job \in JobsIn(q) <=> job \in Queued),
           \A job \in JobsIn(q) : job \in Queued \/ ~IsExitJob(job)
                                  \/ (job.gen # 0 /\ job.st \in CanStart),
           mainQ' = Append(q, ReturnJob(c, r)), Resume(c, "return"),
           RestTyped', DisplayStep,
           c = "start" => display' \notin {"pending", "answered"}
    PROVE  QueueInv'
<1>1. /\ mainQ' \in Seq(Job) /\ CallsHaveJobs'
      /\ Queued' = JobsIn(q) \union {ReturnJob(c, r)}
  BY AnswerQueued
<1>2. /\ calls' \in [Callers -> Call]
      /\ calls'[c].pc = "return" /\ \A d \in Callers : d # c => calls'[d] = calls[d]
  BY ResumeCall DEF PC
<1>3. ControllerHeld'
  BY <1>2, QueueParts DEF ControllerHeld, HoldsController
<1>4. ExitJobsTyped'
  BY <1>1, QueueParts DEF ExitJobsTyped, IsExitJob, ReturnJob
<1>5. DisplayAwaited'
  BY <1>2, StartIsCaller, QueueParts DEF DisplayAwaited, DisplayStep
<1>6. QED
  BY <1>1, <1>2, <1>3, <1>4, <1>5, QueuePartsNext

(* The call c moves to another await or returns, and start() may begin; c is
   resumed by its answer, or begins, or its await has another part. *)
AnswerStep(c) ==
    \/ mainQ' = mainQ /\ calls[c].pc # "return"
    \/ mainQ # <<>> /\ Returns(Head(mainQ), c) /\ mainQ' = Tail(mainQ)

CallMoves(c) ==
    /\ calls' \in [Callers -> Call]
    /\ calls'[c].pc # "return"
    /\ calls'[c].pc \in HoldsController => calls'[c].ctl # 0
    /\ \A d \in Callers \ {c} :
          \/ calls'[d] = calls[d]
          \/ calls[d].pc = "idle" /\ calls'[d].pc = "prepare"
    /\ c = "start" => calls["start"].pc # "display"
    /\ AnswerStep(c)

LEMMA CallMoved ==
    ASSUME QueueInv, NEW c \in Callers, CallMoves(c), RestTyped', DisplayStep
    PROVE  /\ QueueInv'
           /\ Queued' \subseteq Queued
           /\ \A d \in Callers : calls'[d].pc # "return" => Place'[d] = calls'[d].pc
           /\ \A d \in Callers : d # c /\ calls'[d] = calls[d] => Place'[d] = Place[d]
<1>1. \A d \in Callers : \/ d = c
                         \/ calls'[d].pc = calls[d].pc
                         \/ calls'[d].pc # "return" /\ calls[d].pc # "return"
  BY DEF CallMoves
<1>2. /\ mainQ' \in Seq(Job) /\ CallsHaveJobs' /\ Queued' \subseteq Queued
      /\ \A d \in Callers : calls'[d].pc # "return" => Place'[d] = calls'[d].pc
      /\ \A d \in Callers : d # c /\ calls'[d].pc = calls[d].pc => Place'[d] = Place[d]
  <2>1. CASE mainQ' = mainQ /\ calls[c].pc # "return"
    <3>1. \A d \in Callers : \/ calls'[d].pc = calls[d].pc
                             \/ calls'[d].pc # "return" /\ calls[d].pc # "return"
      BY <2>1, <1>1 DEF CallMoves
    <3>2. QED BY <2>1, <3>1, QueueKept
  <2>2. CASE mainQ # <<>> /\ Returns(Head(mainQ), c) /\ mainQ' = Tail(mainQ)
    BY <2>2, <1>1, AnswerTaken DEF CallMoves
  <2>3. QED BY <2>1, <2>2 DEF CallMoves, AnswerStep
<1>3. ControllerHeld'
  <2>1. ASSUME NEW d \in Callers, calls'[d].pc \in HoldsController
        PROVE  calls'[d].ctl # 0
    <3>1. CASE d = c
      BY <3>1, <2>1 DEF CallMoves
    <3>2. CASE d # c
      BY <3>2, <2>1, QueueParts DEF CallMoves, ControllerHeld, HoldsController
    <3>3. QED BY <3>1, <3>2
  <2>2. QED BY <2>1 DEF ControllerHeld
<1>4. ExitJobsTyped'
  BY <1>2, QueueParts DEF ExitJobsTyped
<1>5. DisplayAwaited'
  <2>1. SUFFICES ASSUME display' \in {"pending", "answered"}
                 PROVE  UsesSPICE' /\ calls'["start"].pc = "display"
    BY DEF DisplayAwaited
  <2>2. UsesSPICE' /\ calls["start"].pc = "display"
    BY <2>1, QueueParts DEF DisplayStep, DisplayAwaited
  <2>3. QED BY <2>2, StartIsCaller DEF CallMoves
<1>6. QED
  BY <1>2, <1>3, <1>4, <1>5, QueuePartsNext DEF CallMoves

(* No call moves; other jobs may be queued or taken. *)
LEMMA NoCallMoves ==
    ASSUME QueueInv, mainQ' \in Seq(Job), OneReturn(mainQ'), calls' = calls,
           \A job : \A d \in Callers : Returns(job, d) =>
              (job \in Queued' <=> job \in Queued),
           \A job \in Queued' : job \in Queued \/ ~IsExitJob(job)
                                \/ (job.gen # 0 /\ job.st \in CanStart),
           RestTyped', DisplayAwaited'
    PROVE  QueueInv' /\ \A d \in Callers : Place'[d] = Place[d]
<1>1. CallsHaveJobs' /\ \A d \in Callers : Place'[d] = Place[d]
  BY NoAnswer
<1>2. ControllerHeld' /\ calls' \in [Callers -> Call]
  BY QueueParts DEF ControllerHeld
<1>3. ExitJobsTyped'
  BY QueueParts DEF ExitJobsTyped
<1>4. QED
  BY <1>1, <1>2, <1>3, QueuePartsNext

LEMMA QueueUntouched ==
    ASSUME QueueInv, mainQ' = mainQ, calls' = calls, RestTyped', DisplayAwaited'
    PROVE  QueueInv' /\ Queued' = Queued /\ \A d \in Callers : Place'[d] = Place[d]
<1>1. OneReturn(mainQ') /\ mainQ' \in Seq(Job) /\ Queued' = Queued
  BY QueueParts, QueuedNext DEF CallsHaveJobs
<1>2. QED
  BY <1>1, NoCallMoves

-----------------------------------------------------------------------------
(* The steps that end an await                                              *)

PlaceStep(c, place) ==
    /\ Place'[c] = place
    /\ \A d \in Callers : d # c => Place'[d] = Place[d]

(* c keeps what it holds, every other call is as it was. *)
CallKept(c) ==
    /\ calls'[c].ctl = calls[c].ctl
    /\ calls'[c].tpm = calls[c].tpm
    /\ calls'[c].reboot = calls[c].reboot
    /\ \A d \in Callers : d # c => calls'[d] = calls[d]

NoNewExit == \A job \in Queued' : IsExitJob(job) => job \in Queued

LEMMA Answered ==
    ASSUME QueueInv, NEW c \in Callers, calls[c].pc # "return",
           NEW r \in Result, ResumeWith(c, r), RestTyped', DisplayStep,
           c = "start" => display' \notin {"pending", "answered"}
    PROVE  /\ QueueInv' /\ PlaceStep(c, r) /\ NoNewExit
           /\ CallKept(c) /\ calls'[c].pc = "return"
<1>1. /\ mainQ \in Seq(Job) /\ OneReturn(mainQ) /\ JobsIn(mainQ) = Queued
  BY QueueParts DEF CallsHaveJobs
<1>2. Resume(c, "return") /\ mainQ' = Append(mainQ, ReturnJob(c, r))
  BY DEF ResumeWith, Enqueue
<1>3. QueueInv'
  BY <1>1, <1>2, CallAnswered
<1>4. /\ Queued' = Queued \union {ReturnJob(c, r)}
      /\ Place'[c] = r /\ \A d \in Callers : d # c => Place'[d] = Place[d]
  BY <1>1, <1>2, AnswerQueued
<1>5. NoNewExit
  BY <1>4 DEF NoNewExit, IsExitJob, ReturnJob
<1>6. CallKept(c) /\ calls'[c].pc = "return"
  BY <1>2, ResumeCall DEF CallKept, PC
<1>7. QED
  BY <1>3, <1>4, <1>5, <1>6 DEF PlaceStep

(* The controller calls its stateHandler and then answers c. *)
LEMMA ReportedAndAnswered ==
    ASSUME QueueInv, NEW c \in Callers, calls[c].pc # "return",
           NEW r \in Result, NEW g \in Gens, NEW s \in CanStart,
           Resume(c, "return"), mainQ' = mainQ \o <<ExitJob(g, s), ReturnJob(c, r)>>,
           RestTyped', DisplayStep,
           c = "start" => display' \notin {"pending", "answered"}
    PROVE  /\ QueueInv' /\ PlaceStep(c, r)
           /\ \A job \in Queued' : IsExitJob(job) => job \in Queued \/ job.gen = g
           /\ CallKept(c) /\ calls'[c].pc = "return"
<1> DEFINE exit == ExitJob(g, s)
           q == Append(mainQ, exit)
<1>1. exit \in Job /\ exit.kind = "exit" /\ exit.gen = g /\ exit.st \in CanStart /\ g # 0
  BY StartIsCaller DEF ExitJob, Job, Refs, Gens, CanStart, Result
<1> HIDE DEF exit
<1>2. /\ mainQ \in Seq(Job) /\ OneReturn(mainQ) /\ JobsIn(mainQ) = Queued
  BY QueueParts DEF CallsHaveJobs
<1>3. \A d \in Callers : ~Returns(exit, d)
  BY <1>1 DEF Returns
<1>4. q \in Seq(Job) /\ OneReturn(q) /\ JobsIn(q) = Queued \union {exit}
  BY <1>1, <1>2, <1>3, QueueAppend
<1>5. ReturnJob(c, r) \in Job
  BY ConstantsAssumption DEF ReturnJob, Job, Refs
<1> DEFINE answer == ReturnJob(c, r)
<1>6. mainQ \o <<exit, answer>> = Append(q, answer)
  <2> HIDE DEF answer
  <2> QED BY <1>1, <1>2, <1>5 DEF answer
<1>7. mainQ' = Append(q, answer)
  BY <1>6 DEF exit
<1> HIDE DEF q
<1>8. QueueInv'
  BY <1>1, <1>3, <1>4, <1>7, CallAnswered
<1>9. /\ Queued' = JobsIn(q) \union {answer}
      /\ Place'[c] = r /\ \A d \in Callers : d # c => Place'[d] = Place[d]
  BY <1>3, <1>4, <1>7, AnswerQueued
<1>10. ~IsExitJob(answer)
  BY DEF IsExitJob, ReturnJob
<1>11. CallKept(c) /\ calls'[c].pc = "return"
  BY ResumeCall DEF CallKept, PC
<1>12. QED
  BY <1>1, <1>4, <1>8, <1>9, <1>10, <1>11 DEF PlaceStep

(* A step that leaves the machine, the runtime and the display as they are. *)
LEMMA RuntimeKept ==
    ASSUME QueueInv, UNCHANGED <<machine, runtimeVars>>
    PROVE  /\ DisplayStep
           /\ UNCHANGED <<operatingSystem, displayBackend, state, runtimeGeneration,
                          processController, softwareTPMController, tools, display>>
           /\ qemu' \in [Gens -> Controller] /\ finishing' \subseteq finishing
              /\ swtpm' \in [Gens -> {"none", "alive", "dead"}] => RestTyped'
           /\ calls["start"].pc # "display" => display' \notin {"pending", "answered"}
<1>1. RestTyped
  BY QueueParts
<1>2. UNCHANGED <<operatingSystem, displayBackend, state, runtimeGeneration,
                  processController, softwareTPMController, tools, display>>
  BY DEF machine, runtimeVars, refVars
<1>3. DisplayStep
  BY <1>2, QueueParts DEF DisplayStep, DisplayAwaited, UsesSPICE
<1>4. QED
  BY <1>1, <1>2, <1>3, QueueParts DEF RestTyped, DisplayAwaited

(* Nothing but the calls, the queue and the ends of swtpm's waits changes. *)
LEMMA WaitEnds ==
    ASSUME QueueInv, NEW c \in Callers, calls[c].pc \notin {"return"},
           c = "start" => calls["start"].pc # "display" \/ display \notin {"pending", "answered"},
           NEW r \in Result, ResumeWith(c, r),
           UNCHANGED <<machine, runtimeVars, worldVars, finishing>>
    PROVE  /\ QueueInv' /\ PlaceStep(c, r) /\ NoNewExit
           /\ CallKept(c) /\ calls'[c].pc = "return"
<1>1. RestTyped /\ UNCHANGED <<qemu, swtpm, finishing>>
  BY QueueParts DEF worldVars
<1>2. RestTyped' /\ DisplayStep
      /\ (c = "start" => display' \notin {"pending", "answered"})
  BY <1>1, RuntimeKept DEF RestTyped
<1>3. QED
  BY <1>2, Answered

LEMMA PrepareQueue ==
    ASSUME QueueInv, Prepare
    PROVE  /\ QueueInv' /\ NoNewExit /\ CallKept("start") /\ calls'["start"].pc = "return"
           /\ PlaceStep("start", "prepared") \/ PlaceStep("start", "unprepared")
  BY StartIsCaller, WaitEnds DEF Prepare, Result

LEMMA AllocatePortQueue ==
    ASSUME QueueInv, AllocatePort
    PROVE  /\ QueueInv' /\ NoNewExit /\ CallKept("start") /\ calls'["start"].pc = "return"
           /\ PlaceStep("start", "allocated") \/ PlaceStep("start", "error")
  BY StartIsCaller, WaitEnds DEF AllocatePort, Result

LEMMA VNCConnectedQueue ==
    ASSUME QueueInv, VNCConnected
    PROVE  /\ QueueInv' /\ NoNewExit /\ CallKept("start") /\ calls'["start"].pc = "return"
           /\ PlaceStep("start", "connected")
<1>1. /\ calls["start"].pc = "display" /\ display' = "up"
      /\ ResumeWith("start", "connected")
      /\ UNCHANGED <<machine, state, runtimeGeneration, processController,
                     softwareTPMController, tools, worldVars, finishing>>
  BY DEF VNCConnected
<1>2. RestTyped'
  BY <1>1, QueueParts DEF RestTyped, machine, worldVars, Display
<1>3. DisplayStep
  BY <1>1 DEF DisplayStep
<1>4. QED
  BY <1>1, <1>2, <1>3, StartIsCaller, Answered DEF Result

LEMMA DisplayUnavailableQueue ==
    ASSUME QueueInv, DisplayUnavailable
    PROVE  /\ QueueInv' /\ NoNewExit /\ CallKept("start") /\ calls'["start"].pc = "return"
           /\ PlaceStep("start", "error")
  BY StartIsCaller, WaitEnds DEF DisplayUnavailable, Result

(* Of the other calls; start() too waits for its controller and for swtpm. *)
LEMMA GuestAnswersQueue ==
    ASSUME QueueInv, NEW c \in Callers, GuestAnswers(c)
    PROVE  /\ QueueInv' /\ NoNewExit /\ CallKept(c) /\ calls'[c].pc = "return"
           /\ PlaceStep(c, "accepted") \/ PlaceStep(c, "refused")
  BY WaitEnds DEF GuestAnswers, Result

LEMMA TPMStoppedQueue ==
    ASSUME QueueInv, NEW c \in Callers, TPMStopped(c)
    PROVE  /\ QueueInv' /\ NoNewExit /\ CallKept(c) /\ calls'[c].pc = "return"
           /\ PlaceStep(c, "tpmStopped")
  BY WaitEnds DEF TPMStopped, Result

LEMMA ControllerStoppedQueue ==
    ASSUME QueueInv, NEW c \in Callers, ControllerStopped(c)
    PROVE  /\ QueueInv' /\ NoNewExit /\ CallKept(c) /\ calls'[c].pc = "return"
           /\ PlaceStep(c, "stopped")
  BY WaitEnds DEF ControllerStopped, OnController, Result

LEMMA PollTimesOutQueue ==
    ASSUME QueueInv, NEW c \in Callers, PollTimesOut(c)
    PROVE  /\ QueueInv' /\ NoNewExit /\ CallKept(c) /\ calls'[c].pc = "return"
           /\ PlaceStep(c, "timedOut")
  BY WaitEnds DEF PollTimesOut, OnController, Result

LEMMA StartTPMQueue ==
    ASSUME QueueInv, StartTPM
    PROVE  /\ QueueInv' /\ NoNewExit /\ CallKept("start") /\ calls'["start"].pc = "return"
           /\ PlaceStep("start", "tpmReady") \/ PlaceStep("start", "error")
<1>1. /\ calls["start"].pc = "tpmStart"
      /\ UNCHANGED <<machine, runtimeVars, qemu, finishing>>
      /\ swtpm' \in [Gens -> {"none", "alive", "dead"}]
  BY QueueParts DEF StartTPM, RestTyped
<1>2. RestTyped' /\ DisplayStep /\ display' \notin {"pending", "answered"}
  BY <1>1, RuntimeKept, QueueParts DEF RestTyped
<1>3. PICK r \in {"tpmReady", "error"} : ResumeWith("start", r)
  BY DEF StartTPM
<1>4. QED
  BY <1>1, <1>2, <1>3, StartIsCaller, Answered DEF Result

(* A controller's fields are replaced. *)
LEMMA ControllerTyped ==
    ASSUME QueueInv, NEW c \in Callers, calls[c].pc \in HoldsController
    PROVE  calls[c].ctl \in Gens /\ qemu[calls[c].ctl] \in Controller
<1>1. calls[c].ctl \in Refs /\ calls[c].ctl # 0
  BY QueueParts DEF Call, ControllerHeld
<1>2. QED
  BY <1>1, ConstantsAssumption, QueueParts DEF RestTyped, Refs, Gens

LEMMA ControllerState ==
    ASSUME NEW q \in [Gens -> Controller], NEW g \in Gens, NEW s \in RuntimeState
    PROVE  LET new == [q EXCEPT ![g].state = s]
           IN  /\ new \in [Gens -> Controller]
               /\ new[g].state = s
               /\ new[g].os = q[g].os /\ new[g].process = q[g].process
               /\ \A h \in Gens : h # g => new[h] = q[h]
<1> DEFINE new == [q EXCEPT ![g].state = s]
<1>1. q[g] \in Controller /\ [q[g] EXCEPT !.state = s] \in Controller
  BY DEF Controller
<1>2. new = [q EXCEPT ![g] = [q[g] EXCEPT !.state = s]]
  OBVIOUS
<1>3. new \in [Gens -> Controller] /\ \A h \in Gens : h # g => new[h] = q[h]
  BY <1>1, <1>2
<1>4. new[g] = [q[g] EXCEPT !.state = s]
  BY <1>2
<1>5. new[g].state = s /\ new[g].os = q[g].os /\ new[g].process = q[g].process
  BY <1>1, <1>4 DEF Controller
<1>6. QED
  BY <1>3, <1>5

LEMMA SpawnQueue ==
    ASSUME QueueInv, Spawn
    PROVE  /\ QueueInv' /\ CallKept("start") /\ calls'["start"].pc = "return"
           /\ calls["start"].ctl \in Gens
           /\ \/ /\ PlaceStep("start", "spawned") /\ NoNewExit
                 /\ qemu' = [qemu EXCEPT ![calls["start"].ctl] =
                               [os |-> "alive", process |-> TRUE,
                                expectsTermination |-> FALSE, state |-> "running"]]
              \/ /\ PlaceStep("start", "error")
                 /\ \A job \in Queued' : IsExitJob(job) =>
                       job \in Queued \/ job.gen = calls["start"].ctl
                 /\ \E s \in {"failed", "starting"} :
                       qemu' = [qemu EXCEPT ![calls["start"].ctl].state = s]
<1> DEFINE g == calls["start"].ctl
<1>1. /\ calls["start"].pc = "spawn" /\ UNCHANGED <<machine, runtimeVars, swtpm, finishing>>
  BY DEF Spawn
<1>2. g \in Gens
  BY <1>1, StartIsCaller, ControllerTyped DEF HoldsController
<1> HIDE DEF g
<1>3. /\ qemu' \in [Gens -> Controller] => RestTyped'
      /\ DisplayStep /\ display' \notin {"pending", "answered"}
  BY <1>1, RuntimeKept, QueueParts DEF RestTyped
<1>4. qemu \in [Gens -> Controller]
  BY QueueParts DEF RestTyped
<1>5. CASE /\ qemu' = [qemu EXCEPT ![g] = [os |-> "alive", process |-> TRUE,
                                    expectsTermination |-> FALSE, state |-> "running"]]
           /\ ResumeWith("start", "spawned")
  <2>1. qemu' \in [Gens -> Controller]
    BY <1>4, <1>5 DEF Controller, RuntimeState
  <2>2. /\ QueueInv' /\ PlaceStep("start", "spawned") /\ NoNewExit
        /\ CallKept("start") /\ calls'["start"].pc = "return"
    BY <2>1, <1>1, <1>3, <1>5, StartIsCaller, Answered DEF Result
  <2>3. QED BY <2>2, <1>2, <1>5 DEF g
<1>6. CASE /\ qemu' = [qemu EXCEPT ![g].state = "failed"]
           /\ Resume("start", "return")
           /\ mainQ' = mainQ \o <<ExitJob(g, "failed"), ReturnJob("start", "error")>>
  <2>1. qemu' \in [Gens -> Controller]
    BY <1>2, <1>4, <1>6, ControllerState DEF RuntimeState
  <2>2. /\ QueueInv' /\ PlaceStep("start", "error")
        /\ CallKept("start") /\ calls'["start"].pc = "return"
        /\ \A job \in Queued' : IsExitJob(job) => job \in Queued \/ job.gen = g
    BY <2>1, <1>1, <1>2, <1>3, <1>6, StartIsCaller, ReportedAndAnswered DEF CanStart, Result
  <2>3. QED BY <2>2, <1>2, <1>6 DEF g
<1>7. CASE /\ qemu' = [qemu EXCEPT ![g].state = "starting"]
           /\ ResumeWith("start", "error")
  <2>1. qemu' \in [Gens -> Controller]
    BY <1>2, <1>4, <1>7, ControllerState DEF RuntimeState
  <2>2. /\ QueueInv' /\ PlaceStep("start", "error") /\ NoNewExit
        /\ CallKept("start") /\ calls'["start"].pc = "return"
    BY <2>1, <1>1, <1>3, <1>7, StartIsCaller, Answered DEF Result
  <2>3. \A job \in Queued' : IsExitJob(job) => job \in Queued \/ job.gen = g
    BY <2>2 DEF NoNewExit
  <2>4. QED BY <2>2, <2>3, <1>2, <1>7 DEF g
<1>8. QED
  BY <1>5, <1>6, <1>7 DEF Spawn, g

-----------------------------------------------------------------------------
(* The controller, the child processes and the guest                        *)

(* The call c waits for something else. *)
LEMMA WaitMoves ==
    ASSUME QueueInv, NEW c \in Callers, NEW pc \in PC, pc # "return", Resume(c, pc),
           calls[c].pc \notin {"return", "display"},
           pc \in HoldsController => calls[c].ctl # 0,
           mainQ' = mainQ, RestTyped', DisplayStep
    PROVE  /\ QueueInv' /\ PlaceStep(c, pc) /\ NoNewExit
           /\ CallKept(c) /\ calls'[c].pc = pc
<1>1. /\ calls' \in [Callers -> Call] /\ calls'[c].pc = pc /\ calls'[c].ctl = calls[c].ctl
      /\ \A d \in Callers : d # c => calls'[d] = calls[d]
      /\ CallKept(c)
  BY ResumeCall DEF CallKept
<1>2. CallMoves(c)
  BY <1>1 DEF CallMoves, AnswerStep
<1>3. /\ QueueInv' /\ Queued' \subseteq Queued
      /\ \A d \in Callers : calls'[d].pc # "return" => Place'[d] = calls'[d].pc
      /\ \A d \in Callers : d # c /\ calls'[d] = calls[d] => Place'[d] = Place[d]
  BY <1>2, CallMoved
<1>4. QED
  BY <1>1, <1>3 DEF PlaceStep, NoNewExit

LEMMA ControllerStopQueue ==
    ASSUME QueueInv, NEW c \in Callers, ControllerStop(c)
    PROVE  /\ QueueInv' /\ NoNewExit /\ CallKept(c) /\ calls'[c].pc # "idle"
           /\ PlaceStep(c, "qmp") \/ PlaceStep(c, "requestFailed")
<1> DEFINE g == calls[c].ctl
<1>1. calls[c].pc = "stop" /\ UNCHANGED <<machine, runtimeVars, swtpm, finishing>>
  BY DEF ControllerStop, OnController
<1>2. g \in Gens /\ g # 0 /\ qemu \in [Gens -> Controller]
  BY <1>1, ControllerTyped, QueueParts DEF HoldsController, RestTyped, Gens
<1>3. /\ qemu' \in [Gens -> Controller] => RestTyped'
      /\ DisplayStep /\ (c = "start" => display' \notin {"pending", "answered"})
  BY <1>1, RuntimeKept, QueueParts DEF RestTyped
<1>4. qemu' \in [Gens -> Controller]
  BY <1>2 DEF ControllerStop, Controller, RuntimeState
<1>5. CASE Resume(c, "qmp") /\ UNCHANGED mainQ
  BY <1>1, <1>2, <1>3, <1>4, <1>5, WaitMoves DEF PC
<1>6. CASE ResumeWith(c, "requestFailed")
  BY <1>1, <1>3, <1>4, <1>6, Answered DEF Result
<1>7. QED
  BY <1>5, <1>6 DEF ControllerStop

LEMMA QMPAnsweredQueue ==
    ASSUME QueueInv, NEW c \in Callers, QMPAnswered(c)
    PROVE  /\ QueueInv' /\ NoNewExit /\ CallKept(c) /\ calls'[c].pc # "idle"
           /\ PlaceStep(c, "poll") \/ PlaceStep(c, "requestFailed")
<1> DEFINE g == calls[c].ctl
<1>1. calls[c].pc = "qmp" /\ UNCHANGED <<machine, runtimeVars, swtpm, finishing>>
  BY DEF QMPAnswered
<1>2. g \in Gens /\ g # 0 /\ qemu \in [Gens -> Controller]
  BY <1>1, ControllerTyped, QueueParts DEF HoldsController, RestTyped, Gens
<1>3. /\ qemu' \in [Gens -> Controller] => RestTyped'
      /\ DisplayStep /\ (c = "start" => display' \notin {"pending", "answered"})
  BY <1>1, RuntimeKept, QueueParts DEF RestTyped
<1>4. qemu' \in [Gens -> Controller]
  BY <1>2 DEF QMPAnswered, Controller, RuntimeState
<1>5. CASE Resume(c, "poll") /\ UNCHANGED mainQ
  BY <1>1, <1>2, <1>3, <1>4, <1>5, WaitMoves DEF PC
<1>6. CASE ResumeWith(c, "requestFailed")
  BY <1>1, <1>3, <1>4, <1>6, Answered DEF Result
<1>7. QED
  BY <1>5, <1>6 DEF QMPAnswered

LEMMA ControllerKillQueue ==
    ASSUME QueueInv, NEW c \in Callers, ControllerKill(c)
    PROVE  /\ QueueInv' /\ NoNewExit /\ CallKept(c) /\ calls'[c].pc = "killing"
           /\ PlaceStep(c, "killing")
<1> DEFINE g == calls[c].ctl
<1>1. calls[c].pc = "force" /\ UNCHANGED <<machine, runtimeVars, swtpm, finishing>>
  BY DEF ControllerKill, OnController
<1>2. g \in Gens /\ g # 0 /\ qemu \in [Gens -> Controller]
  BY <1>1, ControllerTyped, QueueParts DEF HoldsController, RestTyped, Gens
<1>3. (qemu' \in [Gens -> Controller] => RestTyped') /\ DisplayStep
  BY <1>1, RuntimeKept, QueueParts DEF RestTyped
<1>4. qemu' \in [Gens -> Controller]
  BY <1>2 DEF ControllerKill, Controller, RuntimeState
<1>5. QED
  BY <1>1, <1>2, <1>3, <1>4, WaitMoves DEF ControllerKill, PC

LEMMA ControllerCompletesQueue ==
    ASSUME QueueInv, NEW c \in Callers, ControllerCompletes(c)
    PROVE  /\ QueueInv' /\ CallKept(c) /\ calls'[c].pc = "return"
           /\ \A job \in Queued' : IsExitJob(job) => job \in Queued \/ job.gen = calls[c].ctl
           /\ PlaceStep(c, "stopped")
<1> DEFINE g == calls[c].ctl
<1>1. calls[c].pc \in {"poll", "killing"} /\ UNCHANGED <<machine, runtimeVars, swtpm, finishing>>
  BY DEF ControllerCompletes, OnController
<1>2. g \in Gens /\ g # 0 /\ qemu \in [Gens -> Controller]
  BY <1>1, ControllerTyped, QueueParts DEF HoldsController, RestTyped, Gens
<1>3. /\ qemu' \in [Gens -> Controller] => RestTyped'
      /\ DisplayStep /\ (c = "start" => display' \notin {"pending", "answered"})
  BY <1>1, RuntimeKept, QueueParts DEF RestTyped
<1>4. CASE qemu[g].process
  <2>1. /\ qemu' = [qemu EXCEPT ![g].process = FALSE, ![g].expectsTermination = FALSE,
                                ![g].state = "stopped"]
        /\ Resume(c, "return")
        /\ mainQ' = mainQ \o <<ExitJob(g, "stopped"), ReturnJob(c, "stopped")>>
    BY <1>4 DEF ControllerCompletes
  <2> HIDE DEF g
  <2>a. qemu[g] \in Controller
    BY <1>2
  <2>b. [qemu[g] EXCEPT !.process = FALSE, !.expectsTermination = FALSE,
                        !.state = "stopped"] \in Controller
    BY <2>a DEF Controller, RuntimeState
  <2>2. qemu' \in [Gens -> Controller]
    BY <1>2, <2>1, <2>b
  <2>3. QED
    BY <2>1, <2>2, <1>1, <1>2, <1>3, ReportedAndAnswered DEF CanStart, Result, g
<1>5. CASE ~qemu[g].process
  <2>1. ResumeWith(c, "stopped") /\ qemu' \in [Gens -> Controller]
    BY <1>2, <1>5 DEF ControllerCompletes
  <2>2. QED
    BY <2>1, <1>1, <1>3, Answered DEF Result, NoNewExit
<1>6. QED
  BY <1>4, <1>5

(* A job that is not a call's is queued; the calls do not change. *)
LEMMA JobQueued ==
    ASSUME QueueInv, NEW job \in Job, job.kind # "return",
           IsExitJob(job) => job.gen # 0 /\ job.st \in CanStart,
           Enqueue(job), calls' = calls, RestTyped', DisplayAwaited'
    PROVE  /\ QueueInv' /\ Queued' = Queued \union {job}
           /\ \A d \in Callers : Place'[d] = Place[d]
<1>1. /\ mainQ \in Seq(Job) /\ OneReturn(mainQ) /\ JobsIn(mainQ) = Queued
  BY QueueParts DEF CallsHaveJobs
<1>2. \A d \in Callers : ~Returns(job, d)
  BY DEF Returns
<1>3. /\ mainQ' \in Seq(Job) /\ OneReturn(mainQ') /\ JobsIn(mainQ') = Queued \union {job}
  BY <1>1, <1>2, QueueAppend DEF Enqueue
<1>4. Queued' = Queued \union {job}
  BY <1>3, QueuedNext
<1>5. QED
  BY <1>2, <1>3, <1>4, NoCallMoves

LEMMA ExitJobTyped ==
    ASSUME NEW g \in Gens, NEW s \in CanStart
    PROVE  /\ ExitJob(g, s) \in Job /\ FinishJob(g, s) \in Job
           /\ \A job \in {ExitJob(g, s), FinishJob(g, s)} :
                 /\ IsExitJob(job) /\ job.kind # "return"
                 /\ job.gen = g /\ job.gen # 0 /\ job.st = s
  BY StartIsCaller DEF ExitJob, FinishJob, Job, Refs, Gens, CanStart, Result, IsExitJob

LEMMA ProcessTerminatedQueue ==
    ASSUME QueueInv, NEW g \in Gens, ProcessTerminated(g)
    PROVE  /\ QueueInv' /\ \A d \in Callers : Place'[d] = Place[d]
           /\ \A job \in Queued' : IsExitJob(job) => job \in Queued \/ job.gen = g
<1>1. UNCHANGED <<machine, runtimeVars, swtpm, calls, finishing>>
  BY DEF ProcessTerminated
<1>2. qemu \in [Gens -> Controller]
  BY QueueParts DEF RestTyped
<1>3. (qemu' \in [Gens -> Controller] => RestTyped') /\ DisplayAwaited'
  BY <1>1, RuntimeKept, QueueParts DEF RestTyped, DisplayAwaited, UsesSPICE
<1>4. CASE qemu[g].process
  <2>1. PICK s \in CanStart :
          /\ qemu' = [qemu EXCEPT ![g] = [os |-> "reaped", process |-> FALSE,
                                          expectsTermination |-> FALSE, state |-> s]]
          /\ Enqueue(ExitJob(g, s))
    BY <1>4 DEF ProcessTerminated, CanStart
  <2>2. qemu' \in [Gens -> Controller]
    BY <1>2, <2>1 DEF Controller, RuntimeState, CanStart
  <2>3. /\ QueueInv' /\ Queued' = Queued \union {ExitJob(g, s)}
        /\ \A d \in Callers : Place'[d] = Place[d]
    BY <2>1, <2>2, <1>1, <1>3, ExitJobTyped, JobQueued
  <2>4. QED BY <2>3, ExitJobTyped
<1>5. CASE ~qemu[g].process
  <2>1. qemu' = [qemu EXCEPT ![g].os = "reaped"] /\ mainQ' = mainQ
    BY <1>5 DEF ProcessTerminated
  <2>2. qemu' \in [Gens -> Controller]
    BY <1>2, <2>1 DEF Controller
  <2>3. QED
    BY <2>1, <2>2, <1>1, <1>3, QueueUntouched
<1>6. QED
  BY <1>4, <1>5

LEMMA QEMUExitsQueue ==
    ASSUME QueueInv, NEW g \in Gens, QEMUExits(g)
    PROVE  QueueInv' /\ Queued' = Queued /\ \A d \in Callers : Place'[d] = Place[d]
<1>1. UNCHANGED <<machine, runtimeVars, swtpm, calls, finishing, mainQ>>
      /\ qemu' = [qemu EXCEPT ![g].os = "exited"]
  BY DEF QEMUExits
<1>2. qemu' \in [Gens -> Controller]
  BY <1>1, QueueParts DEF RestTyped, Controller
<1>3. RestTyped' /\ DisplayAwaited'
  BY <1>1, <1>2, RuntimeKept, QueueParts DEF RestTyped, DisplayAwaited, UsesSPICE
<1>4. QED
  BY <1>1, <1>3, QueueUntouched

LEMMA SwtpmExitsQueue ==
    ASSUME QueueInv, NEW g \in Gens, SwtpmExits(g)
    PROVE  QueueInv' /\ Queued' = Queued /\ \A d \in Callers : Place'[d] = Place[d]
<1>1. UNCHANGED <<machine, runtimeVars, qemu, calls, finishing, mainQ>>
      /\ swtpm' = [swtpm EXCEPT ![g] = "dead"]
  BY DEF SwtpmExits
<1>2. swtpm' \in [Gens -> {"none", "alive", "dead"}]
  BY <1>1, QueueParts DEF RestTyped
<1>3. RestTyped' /\ DisplayAwaited'
  BY <1>1, <1>2, RuntimeKept, QueueParts DEF RestTyped, DisplayAwaited, UsesSPICE
<1>4. QED
  BY <1>1, <1>3, QueueUntouched

LEMMA ProbeToolsQueue ==
    ASSUME QueueInv, ProbeTools
    PROVE  QueueInv' /\ Queued' = Queued /\ \A d \in Callers : Place'[d] = Place[d]
<1>1. RestTyped' /\ DisplayAwaited'
  BY QueueParts DEF ProbeTools, machine, worldVars, RestTyped, DisplayAwaited, UsesSPICE, Tools
<1>2. QED
  BY <1>1, QueueUntouched DEF ProbeTools

LEMMA FinishingQueue ==
    ASSUME QueueInv, NEW f \in finishing, FinishingTPMStopped(f)
    PROVE  /\ QueueInv' /\ \A d \in Callers : Place'[d] = Place[d]
           /\ \A job \in Queued' : IsExitJob(job) => job \in Queued \/ job.gen = f[1]
<1>1. /\ UNCHANGED <<machine, runtimeVars, worldVars, calls>>
      /\ finishing' \subseteq finishing /\ Enqueue(FinishJob(f[1], f[2]))
  BY DEF FinishingTPMStopped
<1>2. f[1] \in Gens /\ f[2] \in CanStart
  BY QueueParts DEF RestTyped, CanStart
<1>3. RestTyped' /\ DisplayAwaited'
  BY <1>1, RuntimeKept, QueueParts DEF worldVars, RestTyped, DisplayAwaited, UsesSPICE
<1>4. /\ QueueInv' /\ Queued' = Queued \union {FinishJob(f[1], f[2])}
      /\ \A d \in Callers : Place'[d] = Place[d]
  BY <1>1, <1>2, <1>3, ExitJobTyped, JobQueued
<1>5. QED
  BY <1>2, <1>4, ExitJobTyped

LEMMA DisplayAttemptQueue ==
    ASSUME QueueInv, DisplayAttempt
    PROVE  QueueInv' /\ Queued' = Queued /\ \A d \in Callers : Place'[d] = Place[d]
<1>1. RestTyped' /\ DisplayAwaited'
  BY QueueParts DEF DisplayAttempt, machine, worldVars, RestTyped, DisplayAwaited, UsesSPICE,
                    Display
<1>2. QED
  BY <1>1, QueueUntouched DEF DisplayAttempt

LEMMA VNCFailsQueue ==
    ASSUME QueueInv, VNCFails
    PROVE  QueueInv' /\ Queued' = Queued /\ \A d \in Callers : Place'[d] = Place[d]
<1>1. RestTyped' /\ DisplayAwaited'
  BY QueueParts DEF VNCFails, machine, worldVars, RestTyped, DisplayAwaited, Display
<1>2. QED
  BY <1>1, QueueUntouched DEF VNCFails

LEMMA SpiceCallbackQueue ==
    ASSUME QueueInv, SpiceCallback
    PROVE  QueueInv' /\ NoNewExit /\ \A d \in Callers : Place'[d] = Place[d]
<1>1. RestTyped' /\ DisplayAwaited' /\ calls' = calls
  BY QueueParts DEF SpiceCallback, machine, worldVars, RestTyped, DisplayAwaited, UsesSPICE,
                    Display
<1>2. PICK r \in {"connected", "error"} : Enqueue(SpiceJob(r))
  BY DEF SpiceCallback
<1>3. SpiceJob(r) \in Job /\ SpiceJob(r).kind = "spice" /\ ~IsExitJob(SpiceJob(r))
  BY StartIsCaller, ConstantsAssumption DEF SpiceJob, Job, Refs, Result, IsExitJob
<1>4. /\ QueueInv' /\ Queued' = Queued \union {SpiceJob(r)}
      /\ \A d \in Callers : Place'[d] = Place[d]
  BY <1>1, <1>2, <1>3, JobQueued
<1>5. QED
  BY <1>3, <1>4 DEF NoNewExit

-----------------------------------------------------------------------------
(* The jobs that are not a call's                                           *)

(* Such a job is taken and nothing is queued. *)
LEMMA JobTaken ==
    ASSUME QueueInv, mainQ # <<>>, Head(mainQ).kind # "return",
           mainQ' = Tail(mainQ), calls' = calls, RestTyped', DisplayAwaited'
    PROVE  QueueInv' /\ Queued' \subseteq Queued /\ \A d \in Callers : Place'[d] = Place[d]
<1>1. /\ mainQ' \in Seq(Job) /\ OneReturn(mainQ')
      /\ Queued' = JobsIn(Tail(mainQ)) /\ Queued' \subseteq Queued
      /\ \A job : \A d \in Callers : Returns(job, d) =>
           (job \in Queued' <=> job \in Queued)
  BY OtherTaken, QueuedNext
<1>2. QED
  BY <1>1, NoCallMoves

LEMMA ExitTaken ==
    ASSUME QueueInv, IsNext("exit") \/ IsNext("finish")
    PROVE  /\ mainQ # <<>> /\ Head(mainQ) \in Queued /\ IsExitJob(Head(mainQ))
           /\ Head(mainQ).kind # "return"
           /\ Head(mainQ).gen \in Gens /\ Head(mainQ).st \in CanStart
<1>1. mainQ # <<>> /\ Head(mainQ).kind \in {"exit", "finish"}
  BY DEF IsNext
<1>2. Head(mainQ) \in Queued /\ Head(mainQ) \in Job
  BY <1>1, OtherTaken
<1>3. Head(mainQ).gen # 0 /\ Head(mainQ).st \in CanStart
  BY <1>1, <1>2, QueueParts DEF ExitJobsTyped, IsExitJob
<1>4. QED
  BY <1>1, <1>2, <1>3, ConstantsAssumption DEF IsExitJob, Job, Refs, Gens

LEMMA HandleExitQueue ==
    ASSUME QueueInv, HandleExit
    PROVE  /\ QueueInv' /\ \A d \in Callers : Place'[d] = Place[d]
           /\ \A job \in Queued' : IsExitJob(job) =>
                 job \in Queued \/ job.gen = Head(mainQ).gen
<1> DEFINE job == Head(mainQ)
           g == job.gen
           tail == Tail(mainQ)
<1>1. /\ IsNext("exit") /\ calls' = calls
      /\ UNCHANGED <<machine, state, runtimeGeneration, processController,
                     tools, display, worldVars>>
  BY DEF HandleExit
<1>2. /\ mainQ # <<>> /\ job \in Queued /\ IsExitJob(job) /\ job.kind # "return"
      /\ g \in Gens /\ job.st \in CanStart
  BY <1>1, ExitTaken
<1>3. /\ tail \in Seq(Job) /\ OneReturn(tail)
      /\ Queued = JobsIn(tail) \union {job}
      /\ \A k : \A d \in Callers : Returns(k, d) => (k \in JobsIn(tail) <=> k \in Queued)
  BY <1>2, OtherTaken
<1>4. DisplayAwaited'
  BY <1>1, QueueParts DEF DisplayAwaited, UsesSPICE, machine
<1>5. softwareTPMController' \in Refs /\ finishing' \subseteq (Gens \X {"stopped", "failed"} \X Gens)
        => RestTyped'
  BY <1>1, QueueParts DEF RestTyped, machine, worldVars
<1>6. softwareTPMController \in Refs /\ finishing \subseteq (Gens \X {"stopped", "failed"} \X Gens)
  BY QueueParts DEF RestTyped
<1>7. CASE g # runtimeGeneration
  <2>1. mainQ' = tail /\ UNCHANGED <<softwareTPMController, finishing>>
    BY <1>7 DEF HandleExit
  <2>2. QED BY <2>1, <1>1, <1>2, <1>4, <1>5, <1>6, JobTaken
<1>8. CASE g = runtimeGeneration /\ softwareTPMController = 0
  <2>1. /\ mainQ' = Append(tail, FinishJob(g, job.st))
        /\ softwareTPMController' = 0 /\ finishing' = finishing
    BY <1>8 DEF HandleExit
  <2>2. RestTyped'
    BY <2>1, <1>5, <1>6, <1>8
  <2>3. /\ FinishJob(g, job.st) \in Job /\ FinishJob(g, job.st).kind # "return"
        /\ FinishJob(g, job.st).gen = g /\ g # 0 /\ FinishJob(g, job.st).st \in CanStart
    BY <1>2, ExitJobTyped
  <2>4. /\ mainQ' \in Seq(Job) /\ Queued' = JobsIn(tail) \union {FinishJob(g, job.st)}
        /\ OneReturn(mainQ')
    <3>1. \A d \in Callers : ~Returns(FinishJob(g, job.st), d)
      BY <2>3 DEF Returns
    <3>2. QED BY <3>1, <2>1, <2>3, <1>3, QueueAppend, QueuedNext
  <2>5. \A k : \A d \in Callers : Returns(k, d) => (k \in Queued' <=> k \in Queued)
    BY <2>3, <2>4, <1>3 DEF Returns
  <2>6. QueueInv' /\ \A d \in Callers : Place'[d] = Place[d]
    BY <2>2, <2>3, <2>4, <2>5, <1>1, <1>3, <1>4, NoCallMoves
  <2>7. QED BY <2>3, <2>4, <2>6, <1>3
<1>9. CASE g = runtimeGeneration /\ softwareTPMController # 0
  <2>1. /\ mainQ' = tail /\ softwareTPMController' = 0
        /\ finishing' = finishing \union {<<g, job.st, softwareTPMController>>}
    BY <1>9 DEF HandleExit
  <2>2. softwareTPMController \in Gens
    BY <1>6, <1>9, ConstantsAssumption DEF Refs, Gens
  <2>3. softwareTPMController' \in Refs
        /\ finishing' \subseteq (Gens \X {"stopped", "failed"} \X Gens)
    BY <2>1, <2>2, <1>2, <1>6, ConstantsAssumption DEF CanStart, Refs
  <2>4. QED BY <2>1, <2>3, <1>1, <1>2, <1>4, <1>5, JobTaken
<1>10. QED
  BY <1>7, <1>8, <1>9

LEMMA ClearTyped ==
    ASSUME QueueInv, ClearRuntime, machine' = machine
    PROVE  /\ processController' \in Refs /\ softwareTPMController' \in Refs
           /\ tools' \in Tools /\ display' \in Display
           /\ display' \notin {"pending", "answered"}
<1>1. 0 \in Refs
  BY ConstantsAssumption DEF Refs
<1>2. processController' = 0 /\ softwareTPMController' = 0 /\ tools' = "stopped"
      /\ tools' \in Tools
  BY DEF ClearRuntime, Tools
<1>3. display \in Display /\ (display \in {"pending", "answered"} => UsesSPICE)
  BY QueueParts DEF RestTyped, DisplayAwaited
<1>4. display' \in Display /\ display' \notin {"pending", "answered"}
  BY <1>3 DEF ClearRuntime, Display
<1>5. QED
  BY <1>1, <1>2, <1>4

LEMMA FinishAfterExitQueue ==
    ASSUME QueueInv, FinishAfterExit
    PROVE  QueueInv' /\ NoNewExit /\ \A d \in Callers : Place'[d] = Place[d]
<1>1. /\ IsNext("finish") /\ mainQ' = Tail(mainQ)
      /\ UNCHANGED <<machine, worldVars, calls, finishing>>
  BY DEF FinishAfterExit
<1>2. /\ mainQ # <<>> /\ Head(mainQ).kind # "return" /\ Head(mainQ).st \in CanStart
  BY <1>1, ExitTaken
<1>3. RestTyped' /\ DisplayAwaited'
  <2>1. CASE Head(mainQ).gen = runtimeGeneration
    <3>1. ClearRuntime /\ state' \in RuntimeState /\ UNCHANGED runtimeGeneration
      BY <1>2, <2>1 DEF FinishAfterExit, CanStart, RuntimeState
    <3>2. QED
      BY <3>1, <1>1, ClearTyped, QueueParts DEF RestTyped, DisplayAwaited, machine, worldVars
  <2>2. CASE Head(mainQ).gen # runtimeGeneration
    <3>1. UNCHANGED runtimeVars
      BY <2>2 DEF FinishAfterExit
    <3>2. QED
      BY <3>1, <1>1, RuntimeKept, QueueParts
      DEF RestTyped, DisplayAwaited, UsesSPICE, worldVars
  <2>3. QED BY <2>1, <2>2
<1>4. QueueInv' /\ Queued' \subseteq Queued /\ \A d \in Callers : Place'[d] = Place[d]
  BY <1>1, <1>2, <1>3, JobTaken
<1>5. QED
  BY <1>4 DEF NoNewExit

LEMMA HandleSpiceQueue ==
    ASSUME QueueInv, HandleSpice
    PROVE  /\ QueueInv' /\ NoNewExit
           /\ \/ calls' = calls /\ \A d \in Callers : Place'[d] = Place[d]
              \/ /\ PlaceStep("start", "connected") /\ calls["start"].pc = "display"
                 /\ CallKept("start") /\ calls'["start"].pc = "return"
<1>1. /\ mainQ # <<>> /\ Head(mainQ).kind = "spice"
      /\ UNCHANGED <<machine, state, runtimeGeneration, processController,
                     softwareTPMController, tools, worldVars, finishing>>
  BY DEF HandleSpice, IsNext
<1>2. display' \in Display => RestTyped'
  BY <1>1, QueueParts DEF RestTyped, machine, worldVars
<1>3. CASE display # "answered" \/ Head(mainQ).st # "connected"
  <2>1. /\ mainQ' = Tail(mainQ) /\ calls' = calls
        /\ display' = display \/ display' = "waiting"
    BY <1>3 DEF HandleSpice
  <2>2. RestTyped' /\ DisplayAwaited'
    BY <2>1, <1>1, <1>2, QueueParts
    DEF RestTyped, Display, DisplayAwaited, UsesSPICE, machine
  <2>3. QueueInv' /\ Queued' \subseteq Queued /\ \A d \in Callers : Place'[d] = Place[d]
    BY <2>1, <2>2, <1>1, JobTaken
  <2>4. QED BY <2>1, <2>3 DEF NoNewExit
<1>4. CASE display = "answered" /\ Head(mainQ).st = "connected"
  <2> DEFINE q == Tail(mainQ)
  <2>1. /\ display' = "up" /\ Resume("start", "return")
        /\ mainQ' = Append(q, ReturnJob("start", "connected"))
    BY <1>4 DEF HandleSpice
  <2>2. calls["start"].pc = "display"
    BY <1>4, QueueParts DEF DisplayAwaited
  <2>3. /\ q \in Seq(Job) /\ OneReturn(q) /\ Queued = JobsIn(q) \union {Head(mainQ)}
        /\ \A k : \A d \in Callers : Returns(k, d) => (k \in JobsIn(q) <=> k \in Queued)
    BY <1>1, OtherTaken
  <2>4. RestTyped' /\ DisplayStep /\ display' \notin {"pending", "answered"}
    BY <2>1, <1>2 DEF Display, DisplayStep
  <2> HIDE DEF q
  <2>5. QueueInv'
    BY <2>1, <2>2, <2>3, <2>4, StartIsCaller, CallAnswered DEF Result
  <2>6. /\ Queued' = JobsIn(q) \union {ReturnJob("start", "connected")}
        /\ Place'["start"] = "connected"
        /\ \A d \in Callers : d # "start" => Place'[d] = Place[d]
    BY <2>1, <2>2, <2>3, StartIsCaller, AnswerQueued DEF Result
  <2>7. CallKept("start") /\ calls'["start"].pc = "return"
    BY <2>1, ResumeCall, StartIsCaller DEF CallKept, PC
  <2>8. NoNewExit
    BY <2>3, <2>6 DEF NoNewExit, IsExitJob, ReturnJob
  <2>9. QED BY <2>2, <2>5, <2>6, <2>7, <2>8 DEF PlaceStep
<1>5. QED
  BY <1>3, <1>4

-----------------------------------------------------------------------------
(* The calls begin, go on and return                                        *)

LEMMA Preparing ==
    /\ [NoCall EXCEPT !.pc = "prepare"] \in Call
    /\ [NoCall EXCEPT !.pc = "prepare"].pc = "prepare"
    /\ [NoCall EXCEPT !.pc = "prepare"].ctl = 0
<1>1. "prepare" \in PC
  BY DEF PC
<1>2. \A call \in Call : /\ [call EXCEPT !.pc = "prepare"] \in Call
                         /\ [call EXCEPT !.pc = "prepare"].pc = "prepare"
                         /\ [call EXCEPT !.pc = "prepare"].ctl = call.ctl
  BY <1>1 DEF Call
<1>3. QED
  BY <1>2, StartIsCaller

LEMMA StartQueue ==
    ASSUME QueueInv, Start
    PROVE  /\ CallMoves("start") /\ RestTyped' /\ DisplayStep /\ QueueInv'
           /\ calls'["start"].pc = "prepare"
           /\ \A d \in Callers : d # "start" => calls'[d] = calls[d]
<1> DEFINE call == [NoCall EXCEPT !.pc = "prepare"]
<1>1. /\ calls["start"].pc = "idle" /\ SetCall("start", call)
      /\ UNCHANGED <<machine, runtimeVars, worldVars, finishing, mainQ>>
  BY DEF Start, IsStarting
<1>2. call \in Call /\ call.pc = "prepare" /\ call.ctl = 0
  BY Preparing
<1> HIDE DEF call
<1>3. /\ calls' \in [Callers -> Call] /\ calls'["start"] = call
      /\ \A d \in Callers : d # "start" => calls'[d] = calls[d]
  BY <1>1, <1>2, StartIsCaller, SetOneCall
<1>4. CallMoves("start")
  BY <1>1, <1>2, <1>3 DEF CallMoves, AnswerStep, HoldsController
<1>5. RestTyped' /\ DisplayStep
  BY <1>1, RuntimeKept, QueueParts DEF worldVars, RestTyped
<1>6. QED
  BY <1>2, <1>3, <1>4, <1>5, StartIsCaller, CallMoved

(* What is left alone when a call returns or is suspended. *)
RestKept == UNCHANGED <<machine, worldVars, finishing>>

LEMMA CallReturns ==
    ASSUME QueueInv, NEW c \in Calls, NEW call \in Call, NEW s, Return(c, call, s)
    PROVE  /\ calls' \in [Callers -> Call] /\ calls'[c] = NoCall
           /\ \A d \in Calls : d # c => calls'[d] = calls[d]
           /\ \/ calls'["start"] = calls["start"] /\ ~(call.reboot /\ s = "stopped" /\ ~IsStarting)
              \/ /\ call.reboot /\ s = "stopped" /\ calls["start"].pc = "idle"
                 /\ calls'["start"].pc = "prepare"
           /\ AnswerStep(c) => CallMoves(c)
<1> DEFINE prepare == [NoCall EXCEPT !.pc = "prepare"]
<1>1. prepare \in Call /\ prepare.pc = "prepare"
  BY Preparing
<1>2. c # "start" /\ c \in Callers /\ calls \in [Callers -> Call]
  BY StartIsCaller, QueueParts
<1>3. CASE call.reboot /\ s = "stopped" /\ ~IsStarting
  <2>1. calls' = [calls EXCEPT ![c] = NoCall, !["start"] = prepare]
    BY <1>3 DEF Return
  <2> HIDE DEF prepare
  <2>2. /\ calls' \in [Callers -> Call] /\ calls'[c] = NoCall /\ calls'["start"] = prepare
        /\ \A d \in Callers : d # c /\ d # "start" => calls'[d] = calls[d]
    BY <2>1, <1>1, <1>2, StartIsCaller
  <2>3. AnswerStep(c) => CallMoves(c)
    BY <2>2, <1>1, <1>2, <1>3, StartIsCaller DEF CallMoves, HoldsController, IsStarting
  <2>4. QED BY <2>2, <2>3, <1>1, <1>2, <1>3, StartIsCaller DEF IsStarting
<1>4. CASE ~(call.reboot /\ s = "stopped" /\ ~IsStarting)
  <2>1. calls' = [calls EXCEPT ![c] = NoCall]
    BY <1>4 DEF Return
  <2>2. /\ calls' \in [Callers -> Call] /\ calls'[c] = NoCall
        /\ \A d \in Callers : d # c => calls'[d] = calls[d]
    BY <2>1, <1>2, StartIsCaller
  <2>3. AnswerStep(c) => CallMoves(c)
    BY <2>2, <1>2, StartIsCaller DEF CallMoves, HoldsController
  <2>4. QED BY <2>2, <2>3, <1>2, <1>4, StartIsCaller
<1>5. QED
  BY <1>3, <1>4

LEMMA FinishCallQueue ==
    ASSUME QueueInv, NEW c \in Calls, NEW call \in Call, FinishCall(c, call),
           AnswerStep(c), RestKept
    PROVE  CallMoves(c) /\ RestTyped' /\ DisplayStep
<1>1. CallMoves(c)
  BY CallReturns DEF FinishCall
<1>2. UNCHANGED <<machine, qemu, swtpm, finishing, runtimeGeneration>>
      /\ state' \in RuntimeState
  BY DEF FinishCall, RestKept, worldVars, RuntimeState
<1>3. RestTyped' /\ DisplayStep
  BY <1>2, ClearTyped, QueueParts DEF FinishCall, RestTyped, machine, DisplayStep
<1>4. QED
  BY <1>1, <1>3

LEMMA SuspendQueue ==
    ASSUME QueueInv, NEW c \in Callers, NEW call \in Call, NEW pc \in PC,
           NEW ctl \in Refs, NEW tpm \in Refs, Suspend(c, call, pc, ctl, tpm),
           pc # "return", pc \in HoldsController => ctl # 0,
           c = "start" => calls["start"].pc # "display",
           state' \in RuntimeState, AnswerStep(c), RestKept
    PROVE  /\ CallMoves(c) /\ RestTyped' /\ DisplayStep
           /\ calls'[c].pc = pc /\ calls'[c].ctl = ctl /\ calls'[c].tpm = tpm
           /\ calls'[c].reboot = call.reboot
           /\ \A d \in Callers : d # c => calls'[d] = calls[d]
<1> DEFINE new == [call EXCEPT !.pc = pc, !.ctl = ctl, !.tpm = tpm]
<1>1. /\ new \in Call /\ new.pc = pc /\ new.ctl = ctl /\ new.tpm = tpm
      /\ new.reboot = call.reboot
  BY DEF Call
<1>2. SetCall(c, new) /\ UNCHANGED <<runtimeGeneration, refVars>>
  BY DEF Suspend
<1> HIDE DEF new
<1>3. /\ calls' \in [Callers -> Call] /\ calls'[c] = new
      /\ \A d \in Callers : d # c => calls'[d] = calls[d]
  BY <1>1, <1>2, SetOneCall
<1>4. CallMoves(c)
  BY <1>1, <1>3 DEF CallMoves
<1>5. RestTyped' /\ DisplayStep
  BY <1>2, QueueParts DEF refVars, RestKept, RestTyped, machine, worldVars, DisplayStep,
                          DisplayAwaited, UsesSPICE
<1>6. QED
  BY <1>1, <1>3, <1>4, <1>5

LEMMA StopTPMQueue ==
    ASSUME QueueInv, NEW c \in Calls, NEW call \in Call, NEW s \in RuntimeState,
           StopTPMThenFinish(c, call, s), AnswerStep(c), RestKept
    PROVE  CallMoves(c) /\ RestTyped' /\ DisplayStep
<1>1. CASE softwareTPMController = 0
  BY <1>1, FinishCallQueue DEF StopTPMThenFinish
<1>2. CASE softwareTPMController # 0
  <2>1. Suspend(c, call, "tpm", 0, softwareTPMController) /\ state' = s
    BY <1>2 DEF StopTPMThenFinish
  <2>2. 0 \in Refs /\ softwareTPMController \in Refs /\ "tpm" \in PC /\ "tpm" \notin HoldsController
    BY ConstantsAssumption, QueueParts DEF RestTyped, Refs, PC, HoldsController
  <2>3. QED BY <2>1, <2>2, StartIsCaller, SuspendQueue
<1>3. QED
  BY <1>1, <1>2

LEMMA StopChildrenQueue ==
    ASSUME QueueInv, NEW c \in Calls, NEW call \in Call, NEW s \in RuntimeState,
           NEW pc \in {"stop", "force"}, StopChildren(c, call, pc, s),
           AnswerStep(c), RestKept
    PROVE  CallMoves(c) /\ RestTyped' /\ DisplayStep
<1>1. CASE processController = 0
  BY <1>1, StopTPMQueue DEF StopChildren
<1>2. CASE processController # 0
  <2>1. Suspend(c, call, pc, processController, 0) /\ state' = s
    BY <1>2 DEF StopChildren
  <2>2. 0 \in Refs /\ processController \in Refs /\ pc \in PC /\ pc # "return"
    BY ConstantsAssumption, QueueParts DEF RestTyped, Refs, PC
  <2>3. QED BY <1>2, <2>1, <2>2, StartIsCaller, SuspendQueue
<1>3. QED
  BY <1>1, <1>2

LEMMA StopQueue ==
    ASSUME QueueInv, NEW c \in Calls, Stop(c)
    PROVE  CallMoves(c) /\ RestTyped' /\ DisplayStep /\ QueueInv'
<1>1. calls[c].pc = "idle" /\ AnswerStep(c) /\ RestKept
  BY DEF Stop, AnswerStep, RestKept
<1>2. PICK reboot \in BOOLEAN :
        LET call == [NoCall EXCEPT !.reboot = reboot] IN
        IF tools = "connected"
        THEN Suspend(c, call, "guest", 0, 0) /\ state' = "stopping"
        ELSE StopChildren(c, call, "stop", "stopping")
  BY DEF Stop
<1> DEFINE call == [NoCall EXCEPT !.reboot = reboot]
<1>3. call \in Call
  BY StartIsCaller DEF Call
<1> HIDE DEF call
<1>4. CASE tools = "connected"
  <2>1. Suspend(c, call, "guest", 0, 0) /\ state' = "stopping"
    BY <1>2, <1>4 DEF call
  <2>2. 0 \in Refs /\ "guest" \in PC /\ "guest" \notin HoldsController
        /\ "stopping" \in RuntimeState
    BY ConstantsAssumption DEF Refs, PC, HoldsController, RuntimeState
  <2>3. QED BY <2>1, <2>2, <1>1, <1>3, StartIsCaller, SuspendQueue, CallMoved
<1>5. CASE tools # "connected"
  <2>1. StopChildren(c, call, "stop", "stopping") /\ "stopping" \in RuntimeState
    BY <1>2, <1>5 DEF call, RuntimeState
  <2>2. QED BY <2>1, <1>1, <1>3, StartIsCaller, StopChildrenQueue, CallMoved
<1>6. QED
  BY <1>4, <1>5

LEMMA ForceStopQueue ==
    ASSUME QueueInv, NEW c \in Calls, ForceStop(c)
    PROVE  CallMoves(c) /\ RestTyped' /\ DisplayStep /\ QueueInv'
<1>1. /\ AnswerStep(c) /\ RestKept /\ StopChildren(c, NoCall, "force", "stopping")
      /\ "stopping" \in RuntimeState
  BY DEF ForceStop, AnswerStep, RestKept, RuntimeState
<1>2. QED
  BY <1>1, StartIsCaller, StopChildrenQueue, CallMoved

LEMMA HandleReturnQueue ==
    ASSUME QueueInv, NEW c \in Calls, HandleReturn(c)
    PROVE  /\ CallMoves(c) /\ RestTyped' /\ DisplayStep /\ QueueInv'
           /\ mainQ # <<>> /\ Returns(Head(mainQ), c) /\ calls[c].pc = "return"
           /\ Place[c] = Head(mainQ).st
<1>1. mainQ # <<>> /\ Returns(Head(mainQ), c) /\ AnswerStep(c) /\ RestKept
  BY DEF HandleReturn, IsNext, Returns, AnswerStep, RestKept
<1>2. calls[c] \in Call /\ state \in RuntimeState /\ c \in Callers
  BY StartIsCaller, QueueParts DEF RestTyped
<1>3. calls[c].pc = "return" /\ Place[c] = Head(mainQ).st
  BY <1>1, <1>2, AnswerAtHead
<1>4. CASE StopChildren(c, calls[c], "stop", state)
  BY <1>1, <1>2, <1>3, <1>4, StopChildrenQueue, CallMoved
<1>5. CASE StopTPMThenFinish(c, calls[c], state)
  BY <1>1, <1>2, <1>3, <1>5, StopTPMQueue, CallMoved
<1>6. CASE FinishCall(c, calls[c])
  BY <1>1, <1>2, <1>3, <1>6, FinishCallQueue, CallMoved
<1>7. CASE Return(c, calls[c], state) /\ UNCHANGED runtimeVars
  <2>1. CallMoves(c)
    BY <1>1, <1>2, <1>7, CallReturns
  <2>2. RestTyped' /\ DisplayStep
    BY <1>1, <1>7, RuntimeKept, QueueParts DEF RestKept, worldVars, RestTyped
  <2>3. QED BY <2>1, <2>2, <1>1, <1>2, <1>3, CallMoved
<1>8. CASE /\ state' = "running" /\ SetCall(c, NoCall)
           /\ UNCHANGED <<runtimeGeneration, refVars>>
  <2>1. /\ calls' \in [Callers -> Call] /\ calls'[c] = NoCall
        /\ \A d \in Callers : d # c => calls'[d] = calls[d]
    BY <1>2, <1>8, StartIsCaller, SetOneCall
  <2>2. CallMoves(c)
    BY <2>1, <1>1, <1>2, StartIsCaller DEF CallMoves, HoldsController
  <2>3. RestTyped' /\ DisplayStep
    BY <1>1, <1>8, QueueParts DEF refVars, RestKept, RestTyped, machine, worldVars,
       DisplayStep, DisplayAwaited, UsesSPICE, RuntimeState
  <2>4. QED BY <2>2, <2>3, <1>1, <1>2, <1>3, CallMoved
<1>9. QED
  BY <1>4, <1>5, <1>6, <1>7, <1>8 DEF HandleReturn

(* start() goes on or returns: only its own record changes. *)
LEMMA StartMoves ==
    ASSUME QueueInv, HandleStartReturn, NEW call \in Call, SetCall("start", call),
           call.pc # "return", call.pc \in HoldsController => call.ctl # 0
    PROVE  /\ CallMoves("start") /\ calls'["start"] = call
           /\ \A d \in Calls : calls'[d] = calls[d]
<1>1. mainQ # <<>> /\ Returns(Head(mainQ), "start") /\ AnswerStep("start")
  BY DEF HandleStartReturn, IsNext, Returns, AnswerStep
<1>2. calls["start"].pc = "return"
  BY <1>1, StartIsCaller, AnswerAtHead
<1>3. /\ calls' \in [Callers -> Call] /\ calls'["start"] = call
      /\ \A d \in Callers : d # "start" => calls'[d] = calls[d]
  BY StartIsCaller, SetOneCall
<1>4. QED
  BY <1>1, <1>2, <1>3, StartIsCaller DEF CallMoves

LEMMA StartResumes ==
    ASSUME QueueInv, HandleStartReturn, NEW pc \in PC \ HoldsController, Resume("start", pc),
           pc # "return"
    PROVE  /\ CallMoves("start") /\ calls'["start"].pc = pc
           /\ calls'["start"].ctl = calls["start"].ctl
           /\ \A d \in Calls : calls'[d] = calls[d]
<1>1. mainQ # <<>> /\ Returns(Head(mainQ), "start") /\ AnswerStep("start")
  BY DEF HandleStartReturn, IsNext, Returns, AnswerStep
<1>2. calls["start"].pc = "return"
  BY <1>1, StartIsCaller, AnswerAtHead
<1>3. /\ calls' \in [Callers -> Call] /\ calls'["start"].pc = pc
      /\ calls'["start"].ctl = calls["start"].ctl
      /\ \A d \in Callers : d # "start" => calls'[d] = calls[d]
  BY StartIsCaller, ResumeCall
<1>4. QED
  BY <1>1, <1>2, <1>3, StartIsCaller DEF CallMoves

LEMMA HandleStartReturnFacts ==
    ASSUME QueueInv, HandleStartReturn
    PROVE  /\ Place["start"] = Head(mainQ).st /\ calls["start"].pc = "return"
           /\ display \notin {"pending", "answered"}
           /\ UNCHANGED <<machine, qemu, finishing>>
<1>1. mainQ # <<>> /\ Returns(Head(mainQ), "start")
  BY DEF HandleStartReturn, IsNext, Returns
<1>2. Place["start"] = Head(mainQ).st /\ calls["start"].pc = "return"
  BY <1>1, StartIsCaller, AnswerAtHead
<1>3. QED
  BY <1>2, QueueParts DEF HandleStartReturn, DisplayAwaited

(* What is left to show of a step of start(). *)
StartStep == CallMoves("start") /\ RestTyped' /\ DisplayStep /\ QueueInv'

LEMMA StartStepFrom ==
    ASSUME QueueInv, HandleStartReturn, CallMoves("start"),
           state' \in RuntimeState, runtimeGeneration' \in Refs,
           processController' \in Refs, softwareTPMController' \in Refs,
           tools' \in Tools, display' \in Display,
           swtpm' \in [Gens -> {"none", "alive", "dead"}],
           display' \notin {"pending", "answered"}
    PROVE  StartStep
<1>1. RestTyped' /\ DisplayStep
  BY HandleStartReturnFacts, QueueParts DEF RestTyped, machine, DisplayStep
<1>2. QED
  BY <1>1, StartIsCaller, CallMoved DEF StartStep

LEMMA FailStartQueue ==
    ASSUME QueueInv, HandleStartReturn, FailStart, UNCHANGED swtpm
    PROVE  StartStep /\ calls'["start"] = NoCall /\ \A d \in Calls : calls'[d] = calls[d]
<1>1. ClearRuntime /\ state' \in RuntimeState /\ SetCall("start", NoCall)
      /\ runtimeGeneration' = runtimeGeneration
  BY DEF FailStart, RuntimeState
<1>2. /\ CallMoves("start") /\ calls'["start"] = NoCall
      /\ \A d \in Calls : calls'[d] = calls[d]
  BY <1>1, StartIsCaller, StartMoves DEF HoldsController
<1>3. StartStep
  BY <1>1, <1>2, ClearTyped, HandleStartReturnFacts, StartStepFrom, QueueParts DEF RestTyped
<1>4. QED
  BY <1>2, <1>3

LEMMA SuspendStartQueue ==
    ASSUME QueueInv, HandleStartReturn, NEW pc \in {"force", "tpm"},
           NEW ctl \in Refs, NEW tpm \in Refs, Suspend("start", NoCall, pc, ctl, tpm),
           pc = "force" => ctl # 0, UNCHANGED <<state, swtpm>>
    PROVE  /\ StartStep
           /\ calls'["start"].pc = pc /\ calls'["start"].ctl = ctl
           /\ \A d \in Calls : calls'[d] = calls[d]
<1>1. /\ AnswerStep("start") /\ state' \in RuntimeState /\ pc \in PC /\ pc # "return"
      /\ (pc \in HoldsController => ctl # 0) /\ calls["start"].pc # "display"
  BY HandleStartReturnFacts, QueueParts
  DEF HandleStartReturn, IsNext, Returns, AnswerStep, RestTyped, PC, HoldsController
<1>2. RestKept
  BY HandleStartReturnFacts DEF RestKept, worldVars
<1>3. /\ CallMoves("start") /\ RestTyped' /\ DisplayStep
      /\ calls'["start"].pc = pc /\ calls'["start"].ctl = ctl
      /\ \A d \in Callers : d # "start" => calls'[d] = calls[d]
  BY <1>1, <1>2, StartIsCaller, SuspendQueue
<1>4. QED
  BY <1>3, StartIsCaller, CallMoved DEF StartStep

LEMMA CatchTPMQueue ==
    ASSUME QueueInv, HandleStartReturn, CatchTPM, UNCHANGED swtpm
    PROVE  StartStep /\ calls'["start"].pc \in {"idle", "tpm"}
<1>1. CASE softwareTPMController = 0
  BY <1>1, FailStartQueue, StartIsCaller DEF CatchTPM
<1>2. CASE softwareTPMController # 0
  <2>1. /\ Suspend("start", NoCall, "tpm", 0, softwareTPMController)
        /\ UNCHANGED state
    BY <1>2 DEF CatchTPM
  <2>2. softwareTPMController \in Refs /\ 0 \in Refs
    BY ConstantsAssumption, QueueParts DEF RestTyped, Refs
  <2>3. QED BY <2>1, <2>2, SuspendStartQueue
<1>3. QED
  BY <1>1, <1>2

LEMMA CatchQueue ==
    ASSUME QueueInv, HandleStartReturn, Catch, UNCHANGED swtpm
    PROVE  StartStep /\ calls'["start"].pc \in {"idle", "force", "tpm"}
<1>1. CASE processController = 0
  BY <1>1, CatchTPMQueue DEF Catch
<1>2. CASE processController # 0
  BY <1>2, ConstantsAssumption, QueueParts, SuspendStartQueue DEF Catch, RestTyped, Refs
<1>3. QED
  BY <1>1, <1>2

LEMMA NotPreparedQueue ==
    ASSUME QueueInv, HandleStartReturn, SetCall("start", NoCall), UNCHANGED <<runtimeVars, swtpm>>
    PROVE  StartStep /\ calls'["start"] = NoCall /\ \A d \in Calls : calls'[d] = calls[d]
<1>1. /\ CallMoves("start") /\ calls'["start"] = NoCall
      /\ \A d \in Calls : calls'[d] = calls[d]
  BY StartIsCaller, StartMoves DEF HoldsController
<1>2. UNCHANGED <<state, runtimeGeneration, processController, softwareTPMController,
                  tools, display, swtpm>>
  BY DEF runtimeVars, refVars
<1>3. StartStep
  BY <1>1, <1>2, HandleStartReturnFacts, StartStepFrom, QueueParts DEF RestTyped
<1>4. QED
  BY <1>1, <1>3

LEMMA StartRuntimeQueue ==
    ASSUME QueueInv, HandleStartReturn, StartRuntime
    PROVE  /\ StartStep /\ \A d \in Calls : calls'[d] = calls[d]
           /\ \/ calls'["start"].pc = "port" /\ state \in CanStart
                 /\ runtimeGeneration' = runtimeGeneration + 1 /\ runtimeGeneration' \in Gens
              \/ calls'["start"] = NoCall /\ UNCHANGED <<state, runtimeGeneration>>
<1>1. UNCHANGED <<processController, softwareTPMController, tools, display, swtpm>>
  BY DEF StartRuntime, refVars
<1>2. CASE state \in CanStart /\ runtimeGeneration < MaxStarts
  <2>1. /\ runtimeGeneration' = runtimeGeneration + 1 /\ state' = "starting"
        /\ Resume("start", "port")
    BY <1>2 DEF StartRuntime
  <2>2. runtimeGeneration' \in Gens /\ runtimeGeneration' \in Refs
    BY <1>2, <2>1, ConstantsAssumption, QueueParts DEF RestTyped, Gens, Refs
  <2>3. /\ CallMoves("start") /\ calls'["start"].pc = "port"
        /\ \A d \in Calls : calls'[d] = calls[d]
    BY <2>1, StartResumes DEF PC, HoldsController
  <2>4. StartStep
    BY <1>1, <2>1, <2>2, <2>3, HandleStartReturnFacts, StartStepFrom, QueueParts
    DEF RestTyped, RuntimeState
  <2>5. QED BY <1>2, <2>1, <2>2, <2>3, <2>4
<1>3. CASE ~(state \in CanStart /\ runtimeGeneration < MaxStarts)
  <2>1. SetCall("start", NoCall) /\ UNCHANGED <<state, runtimeGeneration>>
    BY <1>3 DEF StartRuntime
  <2>2. QED
    BY <1>1, <2>1, NotPreparedQueue DEF runtimeVars, refVars
<1>4. QED
  BY <1>2, <1>3

LEMMA WaitingCall ==
    ASSUME NEW g \in Refs, NEW pc \in {"tpmStart", "spawn"}
    PROVE  /\ [NoCall EXCEPT !.pc = pc, !.tpm = g] \in Call
           /\ [NoCall EXCEPT !.pc = pc, !.tpm = g].pc = pc
           /\ [NoCall EXCEPT !.pc = pc, !.tpm = g].tpm = g
           /\ [NoCall EXCEPT !.pc = pc, !.ctl = g] \in Call
           /\ [NoCall EXCEPT !.pc = pc, !.ctl = g].pc = pc
           /\ [NoCall EXCEPT !.pc = pc, !.ctl = g].ctl = g
<1>1. pc \in PC
  BY DEF PC
<1>2. \A call \in Call : /\ [call EXCEPT !.pc = pc, !.tpm = g] \in Call
                         /\ [call EXCEPT !.pc = pc, !.tpm = g].pc = pc
                         /\ [call EXCEPT !.pc = pc, !.tpm = g].tpm = g
                         /\ [call EXCEPT !.pc = pc, !.ctl = g] \in Call
                         /\ [call EXCEPT !.pc = pc, !.ctl = g].pc = pc
                         /\ [call EXCEPT !.pc = pc, !.ctl = g].ctl = g
  BY <1>1 DEF Call
<1>3. QED
  BY <1>2, StartIsCaller

(* start() has a generation once a port is asked for, and it is not 0 where a
   controller is made; without it nothing would be spawned. *)
LEMMA ConfiguredQueue ==
    ASSUME QueueInv, HandleStartReturn, Configured, runtimeGeneration # 0
    PROVE  /\ StartStep /\ \A d \in Calls : calls'[d] = calls[d]
           /\ \/ /\ calls'["start"].pc = "tpmStart"
                 /\ calls'["start"].tpm = runtimeGeneration
                 /\ UNCHANGED processController
              \/ /\ calls'["start"].pc = "spawn"
                 /\ calls'["start"].ctl = runtimeGeneration
                 /\ processController' = runtimeGeneration
<1>1. UNCHANGED <<state, runtimeGeneration, softwareTPMController, tools, display>>
  BY DEF Configured
<1>2. runtimeGeneration \in Refs /\ swtpm \in [Gens -> {"none", "alive", "dead"}]
  BY QueueParts DEF RestTyped
<1>3. CASE Windows
  <2> DEFINE call == [NoCall EXCEPT !.pc = "tpmStart", !.tpm = runtimeGeneration]
  <2>1. SetCall("start", call) /\ UNCHANGED processController
        /\ swtpm' \in [Gens -> {"none", "alive", "dead"}]
    BY <1>2, <1>3 DEF Configured
  <2>2. call \in Call /\ call.pc = "tpmStart" /\ call.tpm = runtimeGeneration
    BY <1>2, WaitingCall
  <2> HIDE DEF call
  <2>3. /\ CallMoves("start") /\ calls'["start"] = call
        /\ \A d \in Calls : calls'[d] = calls[d]
    BY <2>1, <2>2, StartMoves DEF HoldsController
  <2>4. StartStep
    BY <1>1, <2>1, <2>3, HandleStartReturnFacts, StartStepFrom, QueueParts DEF RestTyped
  <2>5. QED BY <2>1, <2>2, <2>3, <2>4
<1>4. CASE ~Windows
  <2> DEFINE call == [NoCall EXCEPT !.pc = "spawn", !.ctl = runtimeGeneration]
  <2>1. SetCall("start", call) /\ processController' = runtimeGeneration
        /\ UNCHANGED swtpm
    BY <1>4 DEF Configured
  <2>2. call \in Call /\ call.pc = "spawn" /\ call.ctl = runtimeGeneration
    BY <1>2, WaitingCall
  <2> HIDE DEF call
  <2>3. /\ CallMoves("start") /\ calls'["start"] = call
        /\ \A d \in Calls : calls'[d] = calls[d]
    BY <2>1, <2>2, StartMoves
  <2>4. StartStep
    BY <1>1, <2>1, <2>3, HandleStartReturnFacts, StartStepFrom, QueueParts DEF RestTyped
  <2>5. QED BY <2>1, <2>2, <2>3, <2>4
<1>5. QED
  BY <1>3, <1>4

LEMMA TPMReadyQueue ==
    ASSUME QueueInv, HandleStartReturn, TPMReady, calls["start"].tpm # 0
    PROVE  /\ StartStep /\ \A d \in Calls : calls'[d] = calls[d]
           /\ calls'["start"].pc = "spawn" /\ calls'["start"].ctl = calls["start"].tpm
<1> DEFINE g == calls["start"].tpm
           call == [NoCall EXCEPT !.pc = "spawn", !.ctl = g]
<1>1. /\ softwareTPMController' = g /\ processController' = g /\ SetCall("start", call)
      /\ UNCHANGED <<state, runtimeGeneration, tools, display, swtpm>>
  BY DEF TPMReady
<1>2. g \in Refs
  BY StartIsCaller, QueueParts DEF Call
<1>3. call \in Call /\ call.pc = "spawn" /\ call.ctl = g
  BY <1>2, WaitingCall
<1> HIDE DEF call
<1>4. /\ CallMoves("start") /\ calls'["start"] = call
      /\ \A d \in Calls : calls'[d] = calls[d]
  BY <1>1, <1>3, StartMoves
<1>5. StartStep
  BY <1>1, <1>2, <1>4, HandleStartReturnFacts, StartStepFrom, QueueParts DEF RestTyped
<1>6. QED
  BY <1>3, <1>4, <1>5

LEMMA ConnectDisplayQueue ==
    ASSUME QueueInv, HandleStartReturn, ConnectDisplay
    PROVE  /\ StartStep /\ \A d \in Calls : calls'[d] = calls[d]
           /\ calls'["start"].pc = "display"
<1>1. /\ Resume("start", "display") /\ display' = "waiting"
      /\ UNCHANGED <<state, runtimeGeneration, processController, softwareTPMController,
                     tools, swtpm>>
  BY DEF ConnectDisplay
<1>2. /\ CallMoves("start") /\ calls'["start"].pc = "display"
      /\ \A d \in Calls : calls'[d] = calls[d]
  BY <1>1, StartResumes DEF PC, HoldsController
<1>3. StartStep
  BY <1>1, <1>2, StartStepFrom, QueueParts DEF RestTyped, Display
<1>4. QED
  BY <1>2, <1>3

LEMMA RunningQueue ==
    ASSUME QueueInv, HandleStartReturn, Running
    PROVE  StartStep /\ calls'["start"] = NoCall /\ \A d \in Calls : calls'[d] = calls[d]
<1>1. /\ SetCall("start", NoCall) /\ state' = "running" /\ tools' \in Tools
      /\ UNCHANGED <<runtimeGeneration, processController, softwareTPMController,
                     display, swtpm>>
  BY QueueParts DEF Running, RestTyped, Tools
<1>2. /\ CallMoves("start") /\ calls'["start"] = NoCall
      /\ \A d \in Calls : calls'[d] = calls[d]
  BY <1>1, StartIsCaller, StartMoves DEF HoldsController
<1>3. StartStep
  BY <1>1, <1>2, HandleStartReturnFacts, StartStepFrom, QueueParts DEF RestTyped, RuntimeState
<1>4. QED
  BY <1>2, <1>3

-----------------------------------------------------------------------------
(* QueueInv is inductive, with the generation start() has by then           *)

(* Where a call may be after its next await. *)
Advances(c, place) ==
    \/ place = Place[c]
    \/ Place[c] = "prepare" /\ place \in {"prepared", "unprepared"}
    \/ Place[c] = "port" /\ place \in {"allocated", "error"}
    \/ Place[c] = "tpmStart" /\ place \in {"tpmReady", "error"}
    \/ Place[c] = "spawn" /\ place \in {"spawned", "error"}
    \/ Place[c] = "tpm" /\ place = "tpmStopped"
    \/ Place[c] = "guest" /\ place \in {"accepted", "refused"}
    \/ Place[c] = "display" /\ place \in {"connected", "error"}
    \/ /\ Place[c] \in {"stop", "force", "qmp", "poll", "killing"}
       /\ place \in {"qmp", "poll", "killing", "stopped", "timedOut", "requestFailed"}

(* What such a step does to the calls. *)
Advance(c, place) ==
    /\ Advances(c, place)
    /\ PlaceStep(c, place)
    /\ CallKept(c)
    /\ calls'[c].pc = "idle" <=> calls[c].pc = "idle"

LEMMA PlaceIn ==
    ASSUME QueueInv, NEW c \in Callers
    PROVE  /\ calls[c].pc # "return" => Place[c] = calls[c].pc
           /\ calls[c].pc = "return" => Place[c] \in Result
           /\ Place[c] \in PC => calls[c].pc = Place[c]
           /\ Place[c] \in Result => calls[c].pc = "return"
<1>1. calls[c].pc # "return" => Place[c] = calls[c].pc
  BY PlaceOfWait
<1>2. ASSUME calls[c].pc = "return" PROVE Place[c] \in Result
  <2>1. PICK job \in Queued : Returns(job, c)
    BY <1>2, QueueParts DEF CallsHaveJobs
  <2>2. job.st \in Result
    BY <2>1, QueueParts DEF Job
  <2>3. QED BY <2>1, <2>2, PlaceOfJob, QueueParts
<1>3. calls[c].pc \in PC /\ \A place \in PC : place \notin Result
  BY QueueParts DEF Call, PC, Result
<1>4. QED
  BY <1>1, <1>2, <1>3 DEF PC

LEMMA AwaitAdvances ==
    ASSUME QueueInv,
           \/ Prepare \/ AllocatePort \/ StartTPM \/ VNCConnected \/ VNCFails
           \/ DisplayUnavailable
           \/ DisplayAttempt \/ SpiceCallback \/ HandleSpice
    PROVE  \E place : /\ Advance("start", place)
                      /\ Place["start"] = "spawn" => place = "spawn"
                      /\ place \in {"qmp", "poll", "killing", "stopped"} => place = Place["start"]
<1> "start" \in Callers
  BY StartIsCaller
<1>1. CASE Prepare
  <2>1. Place["start"] = "prepare" /\ calls["start"].pc = "prepare"
    BY <1>1, PlaceIn DEF Prepare
  <2>2. QED BY <1>1, <2>1, PrepareQueue DEF Advance, Advances
<1>2. CASE AllocatePort
  <2>1. Place["start"] = "port" /\ calls["start"].pc = "port"
    BY <1>2, PlaceIn DEF AllocatePort
  <2>2. QED BY <1>2, <2>1, AllocatePortQueue DEF Advance, Advances
<1>3. CASE StartTPM
  <2>1. Place["start"] = "tpmStart" /\ calls["start"].pc = "tpmStart"
    BY <1>3, PlaceIn DEF StartTPM
  <2>2. QED BY <1>3, <2>1, StartTPMQueue DEF Advance, Advances
<1>4. CASE VNCConnected
  <2>1. Place["start"] = "display" /\ calls["start"].pc = "display"
    BY <1>4, PlaceIn DEF VNCConnected
  <2>2. QED BY <1>4, <2>1, VNCConnectedQueue DEF Advance, Advances
<1>5. CASE DisplayUnavailable
  <2>1. Place["start"] = "display" /\ calls["start"].pc = "display"
    BY <1>5, PlaceIn DEF DisplayUnavailable
  <2>2. QED BY <1>5, <2>1, DisplayUnavailableQueue DEF Advance, Advances
<1>6. CASE DisplayAttempt
  BY <1>6, DisplayAttemptQueue DEF Advance, Advances, PlaceStep, CallKept, DisplayAttempt
<1>7. CASE SpiceCallback
  BY <1>7, SpiceCallbackQueue DEF Advance, Advances, PlaceStep, CallKept, SpiceCallback
<1>8. CASE HandleSpice
  <2>1. CASE calls' = calls /\ \A d \in Callers : Place'[d] = Place[d]
    BY <2>1 DEF Advance, Advances, PlaceStep, CallKept
  <2>2. CASE /\ PlaceStep("start", "connected") /\ calls["start"].pc = "display"
             /\ CallKept("start") /\ calls'["start"].pc = "return"
    <3>1. Place["start"] = "display"
      BY <2>2, PlaceIn
    <3>2. QED BY <2>2, <3>1 DEF Advance, Advances
  <2>3. QED BY <1>8, <2>1, <2>2, HandleSpiceQueue
<1>9. CASE VNCFails
  BY <1>9, VNCFailsQueue DEF Advance, Advances, PlaceStep, CallKept, VNCFails
<1>10. QED
  BY <1>1, <1>2, <1>3, <1>4, <1>5, <1>6, <1>7, <1>8, <1>9

(* The same of the steps that end a call's await. *)
LEMMA CallAdvances ==
    ASSUME QueueInv, NEW c \in Callers, CallSteps(c)
    PROVE  \E place : /\ Advance(c, place)
                      /\ Place[c] # "spawn"
                      /\ place \in {"qmp", "poll", "killing", "stopped"} =>
                            \/ Place[c] \in {"qmp", "poll", "killing"}
                            \/ OnController(c, {"stop", "force"})
                      /\ place = "stopped" => ControllerStopped(c) \/ ControllerCompletes(c)
<1>1. CASE GuestAnswers(c)
  <2>1. Place[c] = "guest" /\ calls[c].pc = "guest"
    BY <1>1, PlaceIn DEF GuestAnswers
  <2>2. QED BY <1>1, <2>1, GuestAnswersQueue DEF Advance, Advances
<1>2. CASE TPMStopped(c)
  <2>1. Place[c] = "tpm" /\ calls[c].pc = "tpm"
    BY <1>2, PlaceIn DEF TPMStopped
  <2>2. QED BY <1>2, <2>1, TPMStoppedQueue DEF Advance, Advances
<1>3. CASE ControllerStopped(c)
  <2>1. /\ Place[c] \in {"stop", "force"} /\ calls[c].pc # "idle"
        /\ OnController(c, {"stop", "force"})
    BY <1>3, PlaceIn DEF ControllerStopped, OnController
  <2>2. QED BY <1>3, <2>1, ControllerStoppedQueue DEF Advance, Advances
<1>4. CASE ControllerStop(c)
  <2>1. Place[c] = "stop" /\ calls[c].pc # "idle" /\ OnController(c, {"stop", "force"})
    BY <1>4, PlaceIn DEF ControllerStop, OnController
  <2>2. PICK place \in {"qmp", "requestFailed"} :
          PlaceStep(c, place) /\ CallKept(c) /\ calls'[c].pc # "idle"
    BY <1>4, ControllerStopQueue
  <2>3. QED BY <2>1, <2>2 DEF Advance, Advances
<1>5. CASE PollTimesOut(c)
  <2>1. Place[c] = "poll" /\ calls[c].pc = "poll"
    BY <1>5, PlaceIn DEF PollTimesOut, OnController
  <2>2. QED BY <1>5, <2>1, PollTimesOutQueue DEF Advance, Advances
<1>6. CASE ControllerKill(c)
  <2>1. Place[c] = "force" /\ calls[c].pc # "idle" /\ OnController(c, {"stop", "force"})
    BY <1>6, PlaceIn DEF ControllerKill, OnController
  <2>2. QED BY <1>6, <2>1, ControllerKillQueue DEF Advance, Advances
<1>7. CASE ControllerCompletes(c)
  <2>1. Place[c] \in {"poll", "killing"} /\ calls[c].pc # "idle"
    BY <1>7, PlaceIn DEF ControllerCompletes, OnController
  <2>2. QED BY <1>7, <2>1, ControllerCompletesQueue DEF Advance, Advances
<1>8. CASE QMPAnswered(c)
  <2>1. Place[c] = "qmp" /\ calls[c].pc # "idle"
    BY <1>8, PlaceIn DEF QMPAnswered
  <2>2. PICK place \in {"poll", "requestFailed"} :
          PlaceStep(c, place) /\ CallKept(c) /\ calls'[c].pc # "idle"
    BY <1>8, QMPAnsweredQueue
  <2>3. QED BY <2>1, <2>2 DEF Advance, Advances
<1>9. QED
  BY <1>1, <1>2, <1>3, <1>4, <1>5, <1>6, <1>7, <1>8 DEF CallSteps

(* The rest leaves every call where it is. *)
LEMMA NoAdvance ==
    ASSUME calls' = calls, \A d \in Callers : Place'[d] = Place[d]
    PROVE  Advance("start", Place["start"])
  BY StartIsCaller DEF Advance, Advances, PlaceStep, CallKept

LEMMA SpawnAdvances ==
    ASSUME QueueInv, Spawn
    PROVE  Place["start"] = "spawn" /\ \E place : Advance("start", place) /\ place # "spawn"
<1>1. Place["start"] = "spawn" /\ calls["start"].pc = "spawn"
  BY StartIsCaller, PlaceIn DEF Spawn
<1>2. QED
  BY <1>1, SpawnQueue DEF Advance, Advances

(* No step of the calls, the processes or a child changes the generation. *)
LEMMA AdvancesGenerally ==
    ASSUME QueueInv,
           \/ StartSteps
           \/ \E c \in Callers : CallSteps(c)
           \/ FinishSteps
           \/ \E g \in Gens : ProcessTerminated(g) \/ QEMUExits(g) \/ SwtpmExits(g)
           \/ ProbeTools \/ HandleExit \/ FinishAfterExit \/ HandleSpice
    PROVE  /\ QueueInv' /\ runtimeGeneration' = runtimeGeneration
           /\ \E c \in Callers : \E place : Advance(c, place)
<1> "start" \in Callers
  BY StartIsCaller
<1> USE DEF runtimeVars
<1>1. CASE \/ Prepare \/ AllocatePort \/ StartTPM \/ VNCConnected \/ VNCFails
           \/ DisplayUnavailable
           \/ DisplayAttempt \/ SpiceCallback \/ HandleSpice
  <2>1. QueueInv'
    BY <1>1, PrepareQueue, AllocatePortQueue, StartTPMQueue, VNCConnectedQueue,
       DisplayUnavailableQueue, VNCFailsQueue, DisplayAttemptQueue, SpiceCallbackQueue, HandleSpiceQueue
  <2>2. runtimeGeneration' = runtimeGeneration
    BY <1>1 DEF Prepare, AllocatePort, StartTPM, VNCConnected, VNCFails, DisplayUnavailable,
                DisplayAttempt, SpiceCallback, HandleSpice
  <2>3. QED BY <1>1, <2>1, <2>2, AwaitAdvances
<1>2. CASE Spawn
  BY <1>2, SpawnQueue, SpawnAdvances DEF Spawn
<1>3. ASSUME NEW c \in Callers, CallSteps(c)
      PROVE  /\ QueueInv' /\ runtimeGeneration' = runtimeGeneration
             /\ \E place : Advance(c, place)
  <2>1. QueueInv'
    BY <1>3, GuestAnswersQueue, TPMStoppedQueue, ControllerStoppedQueue, ControllerStopQueue,
       QMPAnsweredQueue, PollTimesOutQueue, ControllerKillQueue, ControllerCompletesQueue DEF CallSteps
  <2>2. runtimeGeneration' = runtimeGeneration
    BY <1>3 DEF CallSteps, GuestAnswers, TPMStopped, ControllerStopped, ControllerStop,
                QMPAnswered, PollTimesOut, ControllerKill, ControllerCompletes
  <2>3. QED BY <1>3, <2>1, <2>2, CallAdvances
<1>4. CASE FinishSteps
  BY <1>4, FinishingQueue, NoAdvance DEF FinishSteps, FinishingTPMStopped
<1>5. ASSUME NEW g \in Gens, ProcessTerminated(g) \/ QEMUExits(g) \/ SwtpmExits(g)
      PROVE  /\ QueueInv' /\ runtimeGeneration' = runtimeGeneration
             /\ \E place : Advance("start", place)
  BY <1>5, ProcessTerminatedQueue, QEMUExitsQueue, SwtpmExitsQueue, NoAdvance
  DEF ProcessTerminated, QEMUExits, SwtpmExits
<1>6. CASE ProbeTools
  BY <1>6, ProbeToolsQueue, NoAdvance DEF ProbeTools
<1>7. CASE HandleExit
  BY <1>7, HandleExitQueue, NoAdvance DEF HandleExit
<1>8. CASE FinishAfterExit
  BY <1>8, FinishAfterExitQueue, NoAdvance DEF FinishAfterExit
<1>9. QED
  BY <1>1, <1>2, <1>3, <1>4, <1>5, <1>6, <1>7, <1>8 DEF StartSteps

(* Of the generation start() has: without one it would make no controller. *)
StartGeneration ==
    /\ Place["start"] \in {"port", "allocated", "tpmStart", "tpmReady"} =>
          runtimeGeneration # 0
    /\ Place["start"] \in {"tpmStart", "tpmReady"} => calls["start"].tpm # 0

LEMMA StartGenerationKept ==
    ASSUME StartGeneration, NEW c \in Callers, NEW place, Advance(c, place),
           runtimeGeneration' = runtimeGeneration
    PROVE  StartGeneration'
  BY StartIsCaller DEF StartGeneration, Advance, Advances, PlaceStep, CallKept

(* A call of Calls moves: start() stays or begins. *)
LEMMA StartGenerationBegins ==
    ASSUME QueueInv, StartGeneration, NEW c \in Calls, CallMoves(c), RestTyped', DisplayStep,
           runtimeGeneration' = runtimeGeneration
    PROVE  StartGeneration'
<1>1. c \in Callers /\ c # "start" /\ "start" \in Callers
  BY StartIsCaller
<1>2. CASE calls'["start"] = calls["start"]
  <2>1. Place'["start"] = Place["start"]
    BY <1>1, <1>2, CallMoved
  <2>2. QED BY <1>2, <2>1 DEF StartGeneration
<1>3. CASE calls'["start"].pc = "prepare"
  <2>1. Place'["start"] = "prepare"
    BY <1>1, <1>3, CallMoved
  <2>2. QED BY <2>1 DEF StartGeneration
<1>4. QED
  BY <1>1, <1>2, <1>3 DEF CallMoves

LEMMA HandleStartReturnQueue ==
    ASSUME QueueInv, StartGeneration, HandleStartReturn
    PROVE  StartStep /\ StartGeneration'
<1> DEFINE r == Head(mainQ).st
<1>1. Place["start"] = r /\ "start" \in Callers
  BY HandleStartReturnFacts, StartIsCaller
<1>2. ASSUME StartStep PROVE Place'["start"] = calls'["start"].pc
  BY <1>2, <1>1, CallMoved DEF StartStep, CallMoves
<1>3. CASE r = "unprepared" /\ SetCall("start", NoCall) /\ UNCHANGED <<runtimeVars, swtpm>>
  BY <1>1, <1>2, <1>3, NotPreparedQueue, StartIsCaller DEF StartGeneration
<1>4. CASE StartRuntime
  <2>1. \A g \in Gens : g # 0
    BY DEF Gens
  <2>2. QED BY <2>1, <1>2, <1>4, StartRuntimeQueue, StartIsCaller DEF StartGeneration
<1>5. CASE r = "allocated" /\ Configured
  <2>1. runtimeGeneration # 0
    BY <1>1, <1>5 DEF StartGeneration
  <2>2. QED BY <2>1, <1>2, <1>5, ConfiguredQueue DEF StartGeneration, Configured
<1>6. CASE r = "tpmReady" /\ TPMReady
  <2>1. calls["start"].tpm # 0
    BY <1>1, <1>6 DEF StartGeneration
  <2>2. QED BY <2>1, <1>2, <1>6, TPMReadyQueue DEF StartGeneration
<1>7. CASE ConnectDisplay
  BY <1>2, <1>7, ConnectDisplayQueue DEF StartGeneration
<1>8. CASE Running
  BY <1>2, <1>8, RunningQueue, StartIsCaller DEF StartGeneration
<1>9. CASE Catch /\ UNCHANGED swtpm
  BY <1>2, <1>9, CatchQueue DEF StartGeneration
<1>10. CASE CatchTPM /\ UNCHANGED swtpm
  BY <1>2, <1>10, CatchTPMQueue DEF StartGeneration
<1>11. CASE FailStart /\ UNCHANGED swtpm
  BY <1>2, <1>11, FailStartQueue, StartIsCaller DEF StartGeneration
<1>12. QED
  BY <1>3, <1>4, <1>5, <1>6, <1>7, <1>8, <1>9, <1>10, <1>11 DEF HandleStartReturn

LEMMA InitQueue ==
    ASSUME Init
    PROVE  QueueInv /\ StartGeneration /\ \A c \in Callers : Place[c] = "idle"
<1>1. /\ calls = [c \in Callers |-> NoCall] /\ mainQ = <<>> /\ DOMAIN mainQ = {}
      /\ calls \in [Callers -> Call] /\ mainQ \in Seq(Job)
  BY StartIsCaller DEF Init
<1>2. Queued = {}
  BY <1>1 DEF Queued
<1>3. \A c \in Callers : calls[c].pc = "idle" /\ Place[c] = "idle"
  BY <1>1, StartIsCaller DEF Place
<1>4. qemu \in [Gens -> Controller] /\ swtpm \in [Gens -> {"none", "alive", "dead"}]
  BY DEF Init, Controller, RuntimeState
<1>5. 0 \in Refs /\ "stopped" \in RuntimeState /\ "none" \in Display
  BY ConstantsAssumption DEF Refs, RuntimeState, Display
<1>6. TypeOK
  BY <1>1, <1>4, <1>5 DEF Init, TypeOK, Tools
<1>7. QueueInv
  BY <1>1, <1>2, <1>3, <1>6 DEF QueueInv, Init
<1>8. QED
  BY <1>3, <1>7, StartIsCaller DEF StartGeneration

LEMMA QueueStutter ==
    ASSUME QueueInv, UNCHANGED vars
    PROVE  /\ QueueInv' /\ Queued' = Queued /\ \A d \in Callers : Place'[d] = Place[d]
           /\ calls' = calls /\ runtimeGeneration' = runtimeGeneration
<1>1. RestTyped' /\ DisplayAwaited' /\ calls' = calls /\ mainQ' = mainQ
  BY QueueParts DEF vars, machine, RestTyped, DisplayAwaited, UsesSPICE
<1>2. QED
  BY <1>1, QueueUntouched DEF vars

LEMMA QueueNext ==
    ASSUME QueueInv, StartGeneration, [Next]_vars
    PROVE  QueueInv' /\ StartGeneration'
<1> "start" \in Callers
  BY StartIsCaller
<1>1. CASE Start
  <2>1. /\ QueueInv' /\ CallMoves("start") /\ RestTyped' /\ DisplayStep
        /\ calls'["start"].pc = "prepare"
    BY <1>1, StartQueue
  <2>2. Place'["start"] = "prepare"
    BY <2>1, CallMoved
  <2>3. QED BY <2>1, <2>2 DEF StartGeneration
<1>2. ASSUME NEW c \in Calls, Stop(c) \/ ForceStop(c) \/ HandleReturn(c)
      PROVE  QueueInv' /\ StartGeneration'
  <2>1. CallMoves(c) /\ RestTyped' /\ DisplayStep /\ QueueInv'
    BY <1>2, StopQueue, ForceStopQueue, HandleReturnQueue
  <2>2. runtimeGeneration' = runtimeGeneration
    BY <1>2 DEF Stop, ForceStop, HandleReturn, StopChildren, StopTPMThenFinish, FinishCall,
                Suspend, runtimeVars
  <2>3. QED BY <2>1, <2>2, StartGenerationBegins
<1>3. CASE HandleStartReturn
  BY <1>3, HandleStartReturnQueue DEF StartStep
<1>4. CASE \/ StartSteps
           \/ \E c \in Callers : CallSteps(c)
           \/ FinishSteps
           \/ \E g \in Gens : ProcessTerminated(g) \/ QEMUExits(g) \/ SwtpmExits(g)
           \/ ProbeTools \/ HandleExit \/ FinishAfterExit \/ HandleSpice
  BY <1>4, AdvancesGenerally, StartGenerationKept
<1>5. CASE UNCHANGED vars
  BY <1>5, QueueStutter DEF StartGeneration
<1>6. QED
  BY <1>1, <1>2, <1>3, <1>4, <1>5 DEF Next, MainJob

(* The variables keep their types, a call has one job exactly when its await
   has ended, and no exit is queued without a generation: whatever the user
   does, also while a stop is in flight. *)
THEOREM TypeTheorem == Spec => []TypeOK
<1>1. Init => QueueInv /\ StartGeneration
  BY InitQueue
<1>2. QueueInv /\ StartGeneration /\ [Next]_vars => QueueInv' /\ StartGeneration'
  BY QueueNext
<1>3. QueueInv => TypeOK
  BY DEF QueueInv
<1>4. QED
  BY <1>1, <1>2, <1>3, PTL DEF Spec

-----------------------------------------------------------------------------
(* LifecycleInv, for a user who waits for stop to return                    *)

LEMMA Processes ==
    /\ On \subseteq Gens /\ Fresh \subseteq Gens /\ Ended \subseteq Gens
    /\ \A g \in Gens : /\ ~(g \in On /\ g \in Fresh)
                       /\ g \in Ended <=> g \notin On /\ g \notin Fresh
    /\ 0 \notin Gens
  BY DEF On, Fresh, Ended, Alive, Gens

LEMMA ProcessesNext ==
    /\ On' \subseteq Gens /\ Fresh' \subseteq Gens /\ Ended' \subseteq Gens
    /\ \A g \in Gens : /\ ~(g \in On' /\ g \in Fresh')
                       /\ g \in Ended' <=> g \notin On' /\ g \notin Fresh'
  BY DEF On, Fresh, Ended, Alive, Gens

(* No process begins, and what runs is still the controller's. *)
ProcessesEnd ==
    /\ On' \subseteq On
    /\ Fresh' = Fresh
    /\ \A g \in On' : qemu'[g].process

(* The exits that are reported are exits. *)
ExitsEnd ==
    /\ \A job \in Queued' : IsExitJob(job) => job \in Queued \/ job.gen \in Ended'
    /\ \A f \in finishing' : f \in finishing \/ f[1] \in Ended'

LEMMA EndedGrows ==
    ASSUME Fresh' = Fresh, On' \subseteq On
    PROVE  Ended \subseteq Ended'
  BY DEF Ended

LEMMA ExitsKept ==
    ASSUME LifecycleInv, ExitsEnd, Ended \subseteq Ended'
    PROVE  ExitsInv'
  BY DEF LifecycleInv, ExitsInv, ExitsEnd, IsExitJob

(* An await ends, and the runtime goes on as it is; handle() may have taken
   the software TPM from it. *)
LEMMA AdvanceKeeps ==
    ASSUME LifecycleInv, NEW c \in Callers, NEW place, Advance(c, place),
           UNCHANGED <<state, runtimeGeneration, processController>>,
           softwareTPMController' \in {0, softwareTPMController},
           ProcessesEnd, ExitsEnd,
           Place[c] = "spawn" => place = "spawn",
           place \in {"qmp", "poll", "killing", "stopped"} =>
              place = Place[c] \/ runtimeGeneration \notin Fresh,
           place = "stopped" => place = Place[c] \/ runtimeGeneration \in Ended'
    PROVE  ControllersInv' /\ StartInv' /\ CallsInv' /\ ExitsInv'
<1> "start" \in Callers /\ Calls \subseteq Callers
  BY StartIsCaller
<1>1. /\ Fresh' = Fresh /\ On' \subseteq On /\ Ended \subseteq Ended'
      /\ \A g \in On' : qemu'[g].process
  BY EndedGrows DEF ProcessesEnd
<1>2. /\ Place'[c] = place /\ \A d \in Callers : d # c => Place'[d] = Place[d]
      /\ \A d \in Callers : /\ calls'[d].ctl = calls[d].ctl /\ calls'[d].tpm = calls[d].tpm
                            /\ calls'[d].reboot = calls[d].reboot
                            /\ calls'[d].pc = "idle" <=> calls[d].pc = "idle"
  BY DEF Advance, PlaceStep, CallKept
<1>3. ControllersInv'
  BY <1>1, <1>2 DEF LifecycleInv, ControllersInv
<1>4. NoCallInFlight' <=> NoCallInFlight
  BY <1>2 DEF NoCallInFlight
<1>5. StartInv'
  BY <1>1, <1>2, <1>4 DEF LifecycleInv, StartInv, Advance, Advances
<1>6. CallsInv'
  <2>1. ASSUME NEW d \in Callers
        PROVE  /\ Place'[d] \in {"stop", "force", "qmp", "poll", "killing"} =>
                    /\ calls'[d].ctl = runtimeGeneration'
                    /\ runtimeGeneration' \in Fresh' =>
                        Place'[d] \in {"stop", "force"} /\ Place'["start"] = "spawn"
               /\ Place'[d] \in {"stopped", "tpm", "tpmStopped"} =>
                    runtimeGeneration' \in Ended'
    BY <1>1, <1>2 DEF LifecycleInv, CallsInv, Advance, Advances
  <2>2. QED BY <1>2, <2>1 DEF LifecycleInv, CallsInv
<1>7. QED
  BY <1>1, <1>3, <1>5, <1>6, ExitsKept

(* What a step may change of the runtime and the processes, if it is one of
   those above. *)
RuntimeStays ==
    /\ UNCHANGED <<state, runtimeGeneration, processController>>
    /\ softwareTPMController' \in {0, softwareTPMController}

LEMMA SameProcesses ==
    ASSUME LifecycleInv, UNCHANGED qemu
    PROVE  ProcessesEnd /\ On' = On /\ Fresh' = Fresh /\ Ended' = Ended
<1>1. On' = On /\ Fresh' = Fresh /\ Ended' = Ended
  BY DEF On, Fresh, Ended, Alive
<1>2. QED
  BY <1>1 DEF ProcessesEnd, LifecycleInv, ControllersInv

LEMMA AwaitsKeep ==
    ASSUME LifecycleInv,
           \/ Prepare \/ AllocatePort \/ StartTPM \/ VNCConnected \/ VNCFails
           \/ DisplayUnavailable
           \/ DisplayAttempt \/ SpiceCallback \/ HandleSpice
    PROVE  ControllersInv' /\ StartInv' /\ CallsInv' /\ ExitsInv'
<1>1. QueueInv
  BY DEF LifecycleInv
<1>2. RuntimeStays /\ UNCHANGED <<qemu, finishing>>
  BY DEF Prepare, AllocatePort, StartTPM, VNCConnected, VNCFails, DisplayUnavailable, DisplayAttempt,
         SpiceCallback, HandleSpice, runtimeVars, refVars, worldVars, RuntimeStays
<1>3. NoNewExit
  BY <1>1, PrepareQueue, AllocatePortQueue, StartTPMQueue, VNCConnectedQueue,
     DisplayUnavailableQueue, VNCFailsQueue, DisplayAttemptQueue, SpiceCallbackQueue, HandleSpiceQueue
  DEF NoNewExit
<1>4. ProcessesEnd /\ ExitsEnd
  BY <1>2, <1>3, SameProcesses DEF ExitsEnd, NoNewExit
<1>5. QED
  BY <1>1, <1>2, <1>4, AwaitAdvances, AdvanceKeeps, StartIsCaller DEF RuntimeStays

(* The call is the only one of the newest start's controller, which had its
   turn: start() called Process.run before. *)
LEMMA OnNewest ==
    ASSUME LifecycleInv, NEW c \in Callers,
           Place[c] \in {"qmp", "poll", "killing"} \/ OnController(c, {"stop", "force"})
    PROVE  /\ calls[c].ctl = runtimeGeneration /\ runtimeGeneration \in Gens
           /\ runtimeGeneration \notin Fresh
<1>1. QueueInv
  BY DEF LifecycleInv
<1>2. Place[c] \in {"stop", "force", "qmp", "poll", "killing"} /\ calls[c].pc = Place[c]
  BY <1>1, PlaceIn DEF OnController, PC
<1>3. calls[c].ctl = runtimeGeneration
  BY <1>2 DEF LifecycleInv, CallsInv
<1>4. runtimeGeneration \in Gens
  BY <1>1, <1>2, <1>3, ControllerTyped DEF HoldsController
<1>5. ASSUME runtimeGeneration \in Fresh PROVE FALSE
  <2>1. Place["start"] = "spawn" /\ Place[c] \in {"stop", "force"}
    BY <1>2, <1>5 DEF LifecycleInv, CallsInv
  <2>2. calls["start"].pc = "spawn" /\ calls["start"].ctl = runtimeGeneration
    BY <2>1, <1>1, StartIsCaller, PlaceIn DEF LifecycleInv, StartInv, PC
  <2>3. QED BY <2>1, <2>2, <1>3 DEF OnController
<1>6. QED
  BY <1>3, <1>4, <1>5

(* What the handlers that end a process do to the controllers: only the call's
   own one changes, and no process comes alive in it. *)
LEMMA HandlerOfProcess ==
    ASSUME NEW c \in Callers, qemu \in [Gens -> Controller], calls[c].ctl \in Gens,
           \/ ControllerStop(c) \/ ControllerKill(c) \/ ControllerCompletes(c)
           \/ QMPAnswered(c) /\ (qemu[calls[c].ctl].os = "alive" => qemu[calls[c].ctl].process)
              /\ ~(qemu[calls[c].ctl].os = "none" /\ qemu[calls[c].ctl].state = "stopped")
    PROVE  /\ \A h \in Gens : h # calls[c].ctl => qemu'[h] = qemu[h]
           /\ \A h \in Gens : qemu'[h].os = "alive" => qemu[h].os = "alive"
           /\ qemu'[calls[c].ctl].os = "alive" => qemu'[calls[c].ctl].process
           /\ ControllerCompletes(c) => qemu'[calls[c].ctl].os # "alive"
           /\ ~(qemu'[calls[c].ctl].os = "none" /\ qemu'[calls[c].ctl].state = "stopped")
<1> DEFINE g == calls[c].ctl
<1> HIDE DEF g
<1>1. g \in Gens /\ g = calls[c].ctl /\ qemu[g] \in Controller
  BY DEF g
<1>2. ASSUME ControllerStop(c)
      PROVE  /\ \A h \in Gens : h # g => qemu'[h] = qemu[h]
             /\ qemu'[g].os = qemu[g].os /\ qemu'[g].process
             /\ qemu'[g].state \in {"stopping", "running"}
  BY <1>1, <1>2 DEF ControllerStop, Controller
<1>3. ASSUME ControllerKill(c)
      PROVE  /\ \A h \in Gens : h # g => qemu'[h] = qemu[h]
             /\ qemu'[g].os # "alive" /\ qemu'[g].state = "stopping"
  BY <1>1, <1>3 DEF ControllerKill, Controller
<1>4. ASSUME ControllerCompletes(c)
      PROVE  /\ \A h \in Gens : h # g => qemu'[h] = qemu[h]
             /\ qemu'[g].os = qemu[g].os /\ qemu[g].os \in {"exited", "reaped"}
  BY <1>1, <1>4 DEF ControllerCompletes, Controller
<1>5. ASSUME QMPAnswered(c)
      PROVE  /\ \A h \in Gens : h # g => qemu'[h] = qemu[h]
             /\ qemu'[g].os = qemu[g].os /\ qemu'[g].process = qemu[g].process
             /\ qemu'[g].state \in {qemu[g].state, "running"}
  BY <1>1, <1>5 DEF QMPAnswered, Controller
<1>6. \A h \in Gens : h # g => qemu'[h] = qemu[h]
  BY <1>2, <1>3, <1>4, <1>5
<1>7. qemu'[g].os = "alive" => qemu[g].os = "alive" /\ qemu'[g].process
  BY <1>1, <1>2, <1>3, <1>4, <1>5
<1>8. ~(qemu'[g].os = "none" /\ qemu'[g].state = "stopped")
  BY <1>1, <1>2, <1>3, <1>4, <1>5
<1>9. QED BY <1>1, <1>4, <1>6, <1>7, <1>8

LEMMA CallsKeep ==
    ASSUME LifecycleInv, NEW c \in Callers, CallSteps(c)
    PROVE  ControllersInv' /\ StartInv' /\ CallsInv' /\ ExitsInv'
<1> DEFINE g == runtimeGeneration
<1>1. QueueInv /\ qemu \in [Gens -> Controller]
  BY QueueParts DEF LifecycleInv, RestTyped
<1>2. RuntimeStays /\ UNCHANGED finishing
  BY DEF CallSteps, GuestAnswers, TPMStopped, ControllerStopped, ControllerStop, QMPAnswered,
         PollTimesOut, ControllerKill, ControllerCompletes, runtimeVars, refVars, RuntimeStays
<1>3. PICK place : /\ Advance(c, place)
                   /\ Place[c] # "spawn"
                   /\ place \in {"qmp", "poll", "killing", "stopped"} =>
                         \/ Place[c] \in {"qmp", "poll", "killing"}
                         \/ OnController(c, {"stop", "force"})
                   /\ place = "stopped" => ControllerStopped(c) \/ ControllerCompletes(c)
  BY <1>1, CallAdvances
<1>4. place \in {"qmp", "poll", "killing", "stopped"} => g \notin Fresh
  BY <1>3, OnNewest
<1>5. CASE GuestAnswers(c) \/ TPMStopped(c) \/ ControllerStopped(c) \/ PollTimesOut(c)
  <2>1. UNCHANGED qemu /\ NoNewExit
    BY <1>1, <1>5, GuestAnswersQueue, TPMStoppedQueue, ControllerStoppedQueue, PollTimesOutQueue
    DEF GuestAnswers, TPMStopped, ControllerStopped, PollTimesOut, worldVars
  <2>2. ProcessesEnd /\ ExitsEnd /\ Ended' = Ended
    BY <2>1, <1>2, SameProcesses DEF ExitsEnd, NoNewExit
  <2>3. ASSUME place = "stopped" PROVE g \in Ended
    <3>1. ControllerStopped(c)
      BY <2>3, <1>3, <1>5, PlaceIn, <1>1
      DEF ControllerCompletes, GuestAnswers, TPMStopped, PollTimesOut, OnController
    <3>2. g = calls[c].ctl /\ g \in Gens /\ ~qemu[g].process /\ g \notin Fresh
      BY <3>1, OnNewest DEF ControllerStopped
    <3>3. g \notin On
      BY <3>2 DEF LifecycleInv, ControllersInv
    <3>4. QED BY <3>2, <3>3, Processes
  <2>4. QED BY <1>2, <1>3, <1>4, <2>2, <2>3, AdvanceKeeps DEF RuntimeStays
<1>6. CASE ControllerStop(c) \/ QMPAnswered(c) \/ ControllerKill(c) \/ ControllerCompletes(c)
  <2>1. calls[c].ctl = g /\ g \in Gens /\ g \notin Fresh
    <3>1. Place[c] \in {"qmp", "poll", "killing"} \/ OnController(c, {"stop", "force"})
      BY <1>1, <1>6, PlaceIn
      DEF ControllerStop, QMPAnswered, ControllerKill, ControllerCompletes, OnController
    <3>2. QED BY <3>1, OnNewest
  <2>a. /\ qemu[g].os = "alive" => qemu[g].process
        /\ ~(qemu[g].os = "none" /\ qemu[g].state = "stopped")
    BY <2>1 DEF LifecycleInv, ControllersInv, On, Fresh, Alive
  <2>2. \A h \in Gens : h # g => qemu'[h] = qemu[h]
    BY <1>1, <1>6, <2>1, <2>a, HandlerOfProcess
  <2>3. /\ qemu'[g].os = "alive" => qemu[g].os = "alive" /\ qemu'[g].process
        /\ ControllerCompletes(c) => qemu'[g].os # "alive"
    BY <1>1, <1>6, <2>1, <2>a, HandlerOfProcess
  <2>4. ~(qemu'[g].os = "none" /\ qemu'[g].state = "stopped")
    BY <1>1, <1>6, <2>1, <2>a, HandlerOfProcess
  <2>5. Fresh' = Fresh /\ On' \subseteq On
    BY <2>1, <2>2, <2>3, <2>4 DEF On, Fresh, Alive
  <2>6. ProcessesEnd
    <3>1. ASSUME NEW h \in On' PROVE qemu'[h].process
      <4>1. h \in Gens /\ qemu'[h].os = "alive"
        BY <3>1 DEF On, Alive
      <4>2. h \in On
        BY <2>5, <3>1
      <4>3. QED BY <4>1, <4>2, <2>2, <2>3 DEF LifecycleInv, ControllersInv
    <3>2. QED BY <3>1, <2>5 DEF ProcessesEnd
  <2>7. ControllerCompletes(c) => g \in Ended'
    BY <2>1, <2>3, <2>4, ProcessesNext DEF On, Fresh, Alive
  <2>8. ExitsEnd
    BY <1>1, <1>2, <1>6, <2>1, <2>7, ControllerStopQueue, QMPAnsweredQueue,
       ControllerKillQueue, ControllerCompletesQueue DEF ExitsEnd, NoNewExit
  <2>9. place = "stopped" => ControllerCompletes(c)
    <3>1. ~(ControllerStopped(c) /\ QMPAnswered(c))
      BY DEF ControllerStopped, QMPAnswered, OnController
    <3>2. QED BY <1>3, <1>6, <3>1 DEF ControllerStopped, ControllerStop, ControllerKill
  <2>10. QED BY <1>2, <1>3, <1>4, <2>6, <2>7, <2>8, <2>9, AdvanceKeeps DEF RuntimeStays
<1>7. QED
  BY <1>5, <1>6 DEF CallSteps

(* Process.run: the process begins, or there will be none. *)
LEMMA SpawnKeeps ==
    ASSUME LifecycleInv, Spawn
    PROVE  ControllersInv' /\ StartInv' /\ CallsInv' /\ ExitsInv'
<1> DEFINE g == runtimeGeneration
<1> "start" \in Callers /\ Calls \subseteq Callers
  BY StartIsCaller
<1>1. QueueInv /\ qemu \in [Gens -> Controller]
  BY QueueParts DEF LifecycleInv, RestTyped
<1>2. UNCHANGED <<state, runtimeGeneration, processController, softwareTPMController, finishing>>
  BY DEF Spawn, runtimeVars, refVars
<1>3. Place["start"] = "spawn"
  BY <1>1, SpawnAdvances
<1>4. /\ g \in Fresh /\ processController = g /\ calls["start"].ctl = g /\ g \in Gens
      /\ \A h \in On : h = g
  BY <1>3, Processes DEF LifecycleInv, StartInv, ControllersInv
<1>5. On = {}
  BY <1>4, Processes
<1>6. PICK place \in {"spawned", "error"} :
        /\ PlaceStep("start", place)
        /\ \A h \in Gens : h # g => qemu'[h] = qemu[h]
        /\ ~(qemu'[g].os = "none" /\ qemu'[g].state = "stopped")
        /\ qemu'[g].os = "alive" => qemu'[g].process
        /\ \A job \in Queued' : IsExitJob(job) =>
              job \in Queued \/ (job.gen = g /\ qemu'[g].os # "alive")
  <2>1. qemu[g].os = "none" /\ qemu[g] \in Controller
    BY <1>1, <1>4 DEF Fresh
  <2>2. CASE /\ PlaceStep("start", "spawned") /\ NoNewExit
             /\ qemu' = [qemu EXCEPT ![g] = [os |-> "alive", process |-> TRUE,
                                expectsTermination |-> FALSE, state |-> "running"]]
    BY <2>2, <1>1, <1>4 DEF NoNewExit
  <2>3. ASSUME /\ PlaceStep("start", "error")
               /\ \A job \in Queued' : IsExitJob(job) => job \in Queued \/ job.gen = g,
               NEW s \in {"failed", "starting"}, qemu' = [qemu EXCEPT ![g].state = s]
        PROVE  /\ PlaceStep("start", "error")
               /\ \A h \in Gens : h # g => qemu'[h] = qemu[h]
               /\ qemu'[g].os = "none" /\ qemu'[g].state # "stopped"
    <3>1. s \in RuntimeState
      BY DEF RuntimeState
    <3>2. QED BY <3>1, <2>1, <2>3, <1>1, <1>4, ControllerState
  <2>4. QED BY <1>1, <1>4, <2>2, <2>3, SpawnQueue
<1>7. CallKept("start") /\ (calls'["start"].pc = "idle" <=> calls["start"].pc = "idle")
      /\ Place'["start"] = place /\ \A d \in Callers : d # "start" => Place'[d] = Place[d]
  BY <1>1, <1>6, SpawnQueue DEF PlaceStep, Spawn
<1>8. Fresh' = Fresh \ {g} /\ On' \subseteq {g} /\ (qemu'[g].os # "alive" => On' = {})
  BY <1>4, <1>5, <1>6 DEF Fresh, On, Alive
<1>9. ControllersInv'
  <2>1. \A h \in On' : h = processController' /\ qemu'[h].process
    BY <1>2, <1>4, <1>6, <1>8 DEF On, Alive
  <2>2. \A h \in Gens : h > runtimeGeneration' => h \in Fresh'
    <3>1. \A h \in Gens : h > g => h # g
      BY <1>4 DEF Gens
    <3>2. QED BY <3>1, <1>2, <1>8 DEF LifecycleInv, ControllersInv
  <2>3. processController' \notin Fresh'
    BY <1>2, <1>4, <1>8
  <2>4. QED BY <2>1, <2>2, <2>3, <1>2 DEF LifecycleInv, ControllersInv
<1>10. StartInv'
  BY <1>6, <1>7 DEF StartInv
<1>11. CallsInv'
  <2>1. ASSUME NEW d \in Callers
        PROVE  /\ Place'[d] \in {"stop", "force", "qmp", "poll", "killing"} =>
                    calls'[d].ctl = runtimeGeneration'
               /\ Place'[d] \notin {"stopped", "tpm", "tpmStopped"}
    <3>1. g \notin Ended
      BY <1>4, Processes
    <3>2. CASE d = "start"
      BY <3>2, <1>6, <1>7
    <3>3. CASE d # "start"
      BY <3>1, <3>3, <1>2, <1>7 DEF LifecycleInv, CallsInv, CallKept
    <3>4. QED BY <3>2, <3>3
  <2>2. runtimeGeneration' \notin Fresh'
    BY <1>2, <1>8
  <2>3. \A d \in Calls : calls'[d] = calls[d]
    BY <1>7, StartIsCaller DEF CallKept
  <2>4. QED BY <2>1, <2>2, <2>3 DEF LifecycleInv, CallsInv
<1>12. Ended \subseteq Ended' /\ (qemu'[g].os # "alive" => g \in Ended')
  BY <1>4, <1>5, <1>8, Processes, ProcessesNext
<1>13. ExitsEnd
  BY <1>2, <1>6, <1>12 DEF ExitsEnd
<1>14. QED
  BY <1>9, <1>10, <1>11, <1>12, <1>13, ExitsKept

LEMMA FinishingKeeps ==
    ASSUME LifecycleInv, FinishSteps
    PROVE  ControllersInv' /\ StartInv' /\ CallsInv' /\ ExitsInv'
<1>1. PICK f \in finishing : FinishingTPMStopped(f)
  BY DEF FinishSteps
<1>2. QueueInv /\ f[1] \in Ended
  BY DEF LifecycleInv, ExitsInv
<1>3. UNCHANGED <<qemu, calls>> /\ RuntimeStays /\ finishing' \subseteq finishing
  BY <1>1 DEF FinishingTPMStopped, runtimeVars, refVars, worldVars, RuntimeStays
<1>4. ProcessesEnd /\ Ended' = Ended
  BY <1>3, SameProcesses
<1>5. /\ \A d \in Callers : Place'[d] = Place[d]
      /\ \A job \in Queued' : IsExitJob(job) => job \in Queued \/ job.gen = f[1]
  BY <1>1, <1>2, FinishingQueue
<1>6. ExitsEnd
  BY <1>2, <1>3, <1>4, <1>5 DEF ExitsEnd
<1>7. Advance("start", Place["start"])
  BY <1>3, <1>5, NoAdvance
<1>8. QED
  BY <1>3, <1>4, <1>6, <1>7, AdvanceKeeps, StartIsCaller DEF RuntimeStays

LEMMA ProcessKeeps ==
    ASSUME LifecycleInv, NEW g \in Gens, ProcessTerminated(g) \/ QEMUExits(g)
    PROVE  ControllersInv' /\ StartInv' /\ CallsInv' /\ ExitsInv'
<1>1. QueueInv /\ qemu \in [Gens -> Controller]
  BY QueueParts DEF LifecycleInv, RestTyped
<1>2. UNCHANGED <<calls, finishing>> /\ RuntimeStays
  BY DEF ProcessTerminated, QEMUExits, runtimeVars, refVars, RuntimeStays
<1>3. /\ \A h \in Gens : h # g => qemu'[h] = qemu[h]
      /\ qemu'[g].os \in {"exited", "reaped"} /\ qemu[g].os \in {"exited", "alive"}
  BY <1>1 DEF ProcessTerminated, QEMUExits, Controller
<1>4. /\ Fresh' = Fresh /\ On' = On \ {g} /\ g \in Ended'
  BY <1>3, ProcessesNext DEF Fresh, On, Alive
<1>5. ProcessesEnd
  <2>1. \A h \in On' : h \in On /\ qemu'[h] = qemu[h]
    BY <1>3, <1>4, Processes
  <2>2. QED BY <2>1, <1>4 DEF ProcessesEnd, LifecycleInv, ControllersInv
<1>6. /\ \A d \in Callers : Place'[d] = Place[d]
      /\ \A job \in Queued' : IsExitJob(job) => job \in Queued \/ job.gen = g
  BY <1>1, ProcessTerminatedQueue, QEMUExitsQueue
<1>7. ExitsEnd
  BY <1>2, <1>4, <1>6 DEF ExitsEnd
<1>8. Advance("start", Place["start"])
  BY <1>2, <1>6, NoAdvance
<1>9. QED
  BY <1>2, <1>5, <1>7, <1>8, AdvanceKeeps, StartIsCaller DEF RuntimeStays

LEMMA OthersKeep ==
    ASSUME LifecycleInv, (\E g \in Gens : SwtpmExits(g)) \/ ProbeTools \/ UNCHANGED vars
    PROVE  ControllersInv' /\ StartInv' /\ CallsInv' /\ ExitsInv'
<1>1. QueueInv
  BY DEF LifecycleInv
<1>2. UNCHANGED <<qemu, calls, finishing>> /\ RuntimeStays
  BY DEF SwtpmExits, ProbeTools, vars, runtimeVars, refVars, worldVars, RuntimeStays
<1>3. Queued' = Queued /\ \A d \in Callers : Place'[d] = Place[d]
  BY <1>1, SwtpmExitsQueue, ProbeToolsQueue, QueueStutter
<1>4. ProcessesEnd /\ ExitsEnd
  BY <1>2, <1>3, SameProcesses DEF ExitsEnd
<1>5. Advance("start", Place["start"])
  BY <1>2, <1>3, NoAdvance
<1>6. QED
  BY <1>2, <1>4, <1>5, AdvanceKeeps, StartIsCaller DEF RuntimeStays

LEMMA HandleExitKeeps ==
    ASSUME LifecycleInv, HandleExit
    PROVE  ControllersInv' /\ StartInv' /\ CallsInv' /\ ExitsInv'
<1>1. QueueInv
  BY DEF LifecycleInv
<1>2. Head(mainQ) \in Queued /\ Head(mainQ).gen \in Ended
  BY <1>1, ExitTaken DEF HandleExit, LifecycleInv, ExitsInv, IsExitJob
<1>3. UNCHANGED <<qemu, calls>> /\ RuntimeStays
  BY DEF HandleExit, worldVars, RuntimeStays
<1>4. \A f \in finishing' : f \in finishing \/ f[1] = Head(mainQ).gen
  BY DEF HandleExit
<1>5. /\ \A d \in Callers : Place'[d] = Place[d]
      /\ \A job \in Queued' : IsExitJob(job) => job \in Queued \/ job.gen = Head(mainQ).gen
  BY <1>1, HandleExitQueue
<1>6. ProcessesEnd /\ ExitsEnd
  BY <1>2, <1>3, <1>4, <1>5, SameProcesses DEF ExitsEnd
<1>7. Advance("start", Place["start"])
  BY <1>3, <1>5, NoAdvance
<1>8. QED
  BY <1>3, <1>6, <1>7, AdvanceKeeps, StartIsCaller DEF RuntimeStays

(* clearRuntime() forgets no process: there was no controller, or its process
   had ended. *)
MayClear == processController = 0 \/ runtimeGeneration \in Ended

LEMMA ClearedKeeps ==
    ASSUME LifecycleInv, ClearRuntime, MayClear, UNCHANGED <<runtimeGeneration, qemu>>
    PROVE  /\ ControllersInv' /\ On = {} /\ processController' = 0
           /\ On' = On /\ Fresh' = Fresh /\ Ended' = Ended
           /\ Place["start"] # "spawn"
<1>1. On' = On /\ Fresh' = Fresh /\ Ended' = Ended
  BY SameProcesses
<1>2. processController' = 0 /\ softwareTPMController' = 0
  BY DEF ClearRuntime
<1>3. On = {}
  BY Processes DEF LifecycleInv, ControllersInv, MayClear
<1>4. Place["start"] # "spawn"
  BY Processes DEF LifecycleInv, StartInv, MayClear
<1>5. ControllersInv'
  BY <1>1, <1>2, <1>3, Processes DEF LifecycleInv, ControllersInv
<1>6. QED
  BY <1>1, <1>2, <1>3, <1>4, <1>5

LEMMA FinishAfterExitKeeps ==
    ASSUME LifecycleInv, FinishAfterExit
    PROVE  ControllersInv' /\ StartInv' /\ CallsInv' /\ ExitsInv'
<1> DEFINE job == Head(mainQ)
<1>1. QueueInv
  BY DEF LifecycleInv
<1>2. job \in Queued /\ job.gen \in Ended /\ job.st \in CanStart
  BY <1>1, ExitTaken DEF FinishAfterExit, LifecycleInv, ExitsInv, IsExitJob
<1>3. UNCHANGED <<qemu, calls, finishing>>
  BY DEF FinishAfterExit, worldVars
<1>4. NoNewExit /\ \A d \in Callers : Place'[d] = Place[d]
  BY <1>1, FinishAfterExitQueue
<1>5. CASE job.gen # runtimeGeneration
  <2>1. RuntimeStays
    BY <1>5 DEF FinishAfterExit, runtimeVars, refVars, RuntimeStays
  <2>2. ProcessesEnd /\ ExitsEnd
    BY <1>3, <1>4, SameProcesses DEF ExitsEnd, NoNewExit
  <2>3. Advance("start", Place["start"])
    BY <1>3, <1>4, NoAdvance
  <2>4. QED BY <2>1, <2>2, <2>3, AdvanceKeeps, StartIsCaller DEF RuntimeStays
<1>6. CASE job.gen = runtimeGeneration
  <2>1. ClearRuntime /\ state' = job.st /\ UNCHANGED runtimeGeneration /\ MayClear
    BY <1>2, <1>6 DEF FinishAfterExit, MayClear
  <2>2. /\ ControllersInv' /\ processController' = 0
        /\ Fresh' = Fresh /\ Ended' = Ended /\ runtimeGeneration \notin Fresh
    BY <2>1, <1>2, <1>3, <1>6, ClearedKeeps, Processes
  <2>3. state' \in CanStart /\ state' # "starting" /\ NoCallInFlight' = NoCallInFlight
    BY <2>1, <1>2, <1>3 DEF CanStart, NoCallInFlight
  <2>4. StartInv'
    BY <2>1, <2>2, <2>3, <1>3, <1>4, StartIsCaller DEF LifecycleInv, StartInv
  <2>5. CallsInv'
    BY <2>1, <2>2, <1>3, <1>4, StartIsCaller DEF LifecycleInv, CallsInv
  <2>6. ExitsInv'
    BY <2>2, <1>3, <1>4, ExitsKept DEF ExitsEnd, NoNewExit
  <2>7. QED BY <2>2, <2>4, <2>5, <2>6
<1>7. QED
  BY <1>5, <1>6

-----------------------------------------------------------------------------
(* The calls of a user who waits                                            *)

(* A stop or forceStop runs: start() is not preparing, and no other call is
   the stop of a restart, nor is this one unless it is alone. *)
StopRuns(c, call) ==
    /\ Place["start"] \notin {"prepare", "prepared", "unprepared"}
    /\ \A d \in Calls \ {c} : ~calls[d].reboot
    /\ call.reboot => \A d \in Calls \ {c} : calls[d].pc = "idle"

(* What the lemmas on the steps of stop and forceStop assume of the step. *)
StopStep(c) ==
    /\ CallMoves(c) /\ RestTyped' /\ DisplayStep /\ QueueInv'
    /\ RestKept

LEMMA StopStepFacts ==
    ASSUME LifecycleInv, NEW c \in Calls, StopStep(c)
    PROVE  /\ \A d \in Callers : calls'[d].pc # "return" => Place'[d] = calls'[d].pc
           /\ \A d \in Callers : d # c /\ calls'[d] = calls[d] => Place'[d] = Place[d]
           /\ calls'[c].pc # "return" /\ UNCHANGED <<qemu, finishing>>
           /\ On' = On /\ Fresh' = Fresh /\ Ended' = Ended /\ ExitsInv'
<1>1. Queued' \subseteq Queued
  BY StartIsCaller, CallMoved DEF StopStep, LifecycleInv
<1>2. UNCHANGED <<qemu, finishing>>
  BY DEF StopStep, RestKept, worldVars
<1>3. On' = On /\ Fresh' = Fresh /\ Ended' = Ended
  BY <1>2, SameProcesses
<1>4. ExitsInv'
  BY <1>1, <1>2, <1>3, ExitsKept DEF ExitsEnd
<1>5. QED
  BY <1>2, <1>3, <1>4, StartIsCaller, CallMoved DEF StopStep, LifecycleInv, CallMoves

(* The call returns with the runtime in state s. *)
LEMMA ReturnKeeps ==
    ASSUME LifecycleInv, NEW c \in Calls, NEW call \in Call, NEW s, Return(c, call, s),
           StopStep(c), StopRuns(c, call), ControllersInv',
           runtimeGeneration' = runtimeGeneration, state' = s,
           s = "stopped" /\ ~IsStarting => processController' = 0,
           \/ processController' = processController /\ state' = state
           \/ processController' = 0 /\ Place["start"] # "spawn" /\ s = "stopped"
    PROVE  StartInv' /\ CallsInv'
<1> USE StartIsCaller
<1>1. /\ \A d \in Callers : calls'[d].pc # "return" => Place'[d] = calls'[d].pc
      /\ \A d \in Callers : d # c /\ calls'[d] = calls[d] => Place'[d] = Place[d]
      /\ Fresh' = Fresh /\ Ended' = Ended
  BY StopStepFacts
<1>2. /\ calls'[c] = NoCall /\ \A d \in Calls : d # c => calls'[d] = calls[d]
      /\ \/ calls'["start"] = calls["start"]
         \/ /\ call.reboot /\ s = "stopped" /\ calls["start"].pc = "idle"
            /\ calls'["start"].pc = "prepare"
  BY CallReturns DEF LifecycleInv
<1>3. /\ Place'[c] = "idle" /\ \A d \in Calls : d # c => Place'[d] = Place[d]
  BY <1>1, <1>2
<1>4. CASE calls'["start"] = calls["start"]
  <2>1. Place'["start"] = Place["start"]
    BY <1>1, <1>4
  <2>2. StartInv'
    BY <2>1, <1>1, <1>4 DEF LifecycleInv, StartInv, StopRuns, CanStart
  <2>3. CallsInv'
    BY <2>1, <1>1, <1>2, <1>3, <1>4 DEF LifecycleInv, CallsInv, Callers
  <2>4. QED BY <2>2, <2>3
<1>5. CASE /\ call.reboot /\ s = "stopped" /\ calls["start"].pc = "idle"
           /\ calls'["start"].pc = "prepare"
  <2>1. Place["start"] = "idle" /\ Place'["start"] = "prepare"
    BY <1>1, <1>5, PlaceIn DEF LifecycleInv
  <2>2. NoCallInFlight'
    BY <1>2, <1>5 DEF StopRuns, NoCallInFlight
  <2>3. StartInv'
    BY <2>1, <2>2, <1>5 DEF StartInv, CanStart, IsStarting
  <2>4. CallsInv'
    BY <2>1, <1>1, <1>2, <1>3 DEF LifecycleInv, CallsInv, Callers
  <2>5. QED BY <2>3, <2>4
<1>6. QED
  BY <1>2, <1>4, <1>5

LEMMA FinishCallKeeps ==
    ASSUME LifecycleInv, NEW c \in Calls, NEW call \in Call, FinishCall(c, call),
           StopStep(c), StopRuns(c, call), MayClear
    PROVE  ControllersInv' /\ StartInv' /\ CallsInv' /\ ExitsInv'
<1>1. /\ ClearRuntime /\ state' = "stopped" /\ Return(c, call, "stopped")
      /\ runtimeGeneration' = runtimeGeneration
  BY DEF FinishCall
<1>2. ControllersInv' /\ processController' = 0 /\ Place["start"] # "spawn"
  BY <1>1, StopStepFacts, ClearedKeeps
<1>3. StartInv' /\ CallsInv'
  BY <1>1, <1>2, ReturnKeeps
<1>4. QED
  BY <1>2, <1>3, StopStepFacts

(* The call waits for swtpm, or for the controller. *)
LEMMA SuspendKeeps ==
    ASSUME LifecycleInv, NEW c \in Calls, NEW call \in Call, NEW pc \in {"guest", "stop", "force", "tpm"},
           NEW ctl \in Refs, NEW tpm \in Refs, Suspend(c, call, pc, ctl, tpm),
           StopStep(c), StopRuns(c, call), state' \in {"stopping", state}, 
           calls'[c].pc = pc, calls'[c].ctl = ctl, calls'[c].reboot = call.reboot,
           \A d \in Callers : d # c => calls'[d] = calls[d],
           pc \in {"stop", "force"} => ctl = runtimeGeneration /\ processController = ctl,
           pc = "tpm" => runtimeGeneration \in Ended
    PROVE  ControllersInv' /\ StartInv' /\ CallsInv' /\ ExitsInv'
<1> USE StartIsCaller
<1>1. /\ \A d \in Callers : d # c => calls'[d] = calls[d] /\ Place'[d] = Place[d]
      /\ Place'[c] = pc
      /\ UNCHANGED qemu /\ On' = On /\ Fresh' = Fresh /\ Ended' = Ended /\ ExitsInv'
  BY StopStepFacts
<1>2. UNCHANGED <<runtimeGeneration, processController, softwareTPMController>>
  BY DEF Suspend, refVars
<1>3. ControllersInv'
  BY <1>1, <1>2 DEF LifecycleInv, ControllersInv
<1>4. StartInv'
  BY <1>1, <1>2 DEF LifecycleInv, StartInv, StopRuns, CanStart
<1>5. CallsInv'
  <2>1. runtimeGeneration \in Fresh /\ pc \in {"stop", "force"} => Place["start"] = "spawn"
    BY DEF LifecycleInv, ControllersInv
  <2>2. ASSUME NEW d \in Callers
        PROVE  /\ Place'[d] \in {"stop", "force", "qmp", "poll", "killing"} =>
                    /\ calls'[d].ctl = runtimeGeneration'
                    /\ runtimeGeneration' \in Fresh' =>
                        Place'[d] \in {"stop", "force"} /\ Place'["start"] = "spawn"
               /\ Place'[d] \in {"stopped", "tpm", "tpmStopped"} =>
                    runtimeGeneration' \in Ended'
    <3>1. CASE d = c
      BY <3>1, <2>1, <1>1, <1>2
    <3>2. CASE d # c
      BY <3>2, <1>1, <1>2 DEF LifecycleInv, CallsInv
    <3>3. QED BY <3>1, <3>2
  <2>3. ASSUME NEW d \in Calls
        PROVE  /\ calls'[d].pc = "idle" => ~calls'[d].reboot
               /\ calls'[d].reboot => \A e \in Calls \ {d} : calls'[e].pc = "idle"
    <3>1. CASE d = c
      BY <3>1, <1>1 DEF StopRuns
    <3>2. CASE d # c
      BY <3>2, <1>1 DEF StopRuns, LifecycleInv, CallsInv
    <3>3. QED BY <3>1, <3>2
  <2>4. QED BY <2>2, <2>3 DEF CallsInv
<1>6. QED
  BY <1>1, <1>3, <1>4, <1>5

LEMMA StopTPMKeeps ==
    ASSUME LifecycleInv, NEW c \in Calls, NEW call \in Call, NEW s \in {"stopping", state},
           StopTPMThenFinish(c, call, s), StopStep(c), StopRuns(c, call), AnswerStep(c),
           MayClear
    PROVE  ControllersInv' /\ StartInv' /\ CallsInv' /\ ExitsInv'
<1>1. CASE softwareTPMController = 0
  BY <1>1, FinishCallKeeps DEF StopTPMThenFinish
<1>2. CASE softwareTPMController # 0
  <2>1. Suspend(c, call, "tpm", 0, softwareTPMController) /\ state' = s
    BY <1>2 DEF StopTPMThenFinish
  <2>2. 0 \in Refs /\ softwareTPMController \in Refs /\ "tpm" \in PC
        /\ "tpm" \notin HoldsController /\ state' \in RuntimeState
    BY <2>1, ConstantsAssumption, QueueParts
    DEF LifecycleInv, RestTyped, Refs, PC, HoldsController, RuntimeState
  <2>3. /\ calls'[c].pc = "tpm" /\ calls'[c].ctl = 0 /\ calls'[c].reboot = call.reboot
        /\ \A d \in Callers : d # c => calls'[d] = calls[d]
    BY <2>1, <2>2, StartIsCaller, SuspendQueue DEF LifecycleInv, StopStep
  <2>4. runtimeGeneration \in Ended
    BY <1>2 DEF MayClear, LifecycleInv, ControllersInv
  <2>5. QED BY <2>1, <2>2, <2>3, <2>4, SuspendKeeps
<1>3. QED
  BY <1>1, <1>2

LEMMA StopChildrenKeeps ==
    ASSUME LifecycleInv, NEW c \in Calls, NEW call \in Call, NEW s \in {"stopping", state},
           NEW pc \in {"stop", "force"}, StopChildren(c, call, pc, s),
           StopStep(c), StopRuns(c, call), AnswerStep(c)
    PROVE  ControllersInv' /\ StartInv' /\ CallsInv' /\ ExitsInv'
<1>1. CASE processController = 0
  BY <1>1, StopTPMKeeps DEF StopChildren, MayClear
<1>2. CASE processController # 0
  <2>1. Suspend(c, call, pc, processController, 0) /\ state' = s
    BY <1>2 DEF StopChildren
  <2>2. 0 \in Refs /\ processController \in Refs /\ pc \in PC /\ pc # "return"
        /\ state' \in RuntimeState
    BY <2>1, ConstantsAssumption, QueueParts
    DEF LifecycleInv, RestTyped, Refs, PC, RuntimeState
  <2>3. /\ calls'[c].pc = pc /\ calls'[c].ctl = processController
        /\ calls'[c].reboot = call.reboot
        /\ \A d \in Callers : d # c => calls'[d] = calls[d]
    BY <1>2, <2>1, <2>2, StartIsCaller, SuspendQueue DEF LifecycleInv, StopStep
  <2>4. processController = runtimeGeneration
    BY <1>2 DEF LifecycleInv, ControllersInv
  <2>5. QED BY <2>1, <2>2, <2>3, <2>4, SuspendKeeps
<1>3. QED
  BY <1>1, <1>2

LEMMA StartKeeps ==
    ASSUME LifecycleInv, Sequential, Start
    PROVE  ControllersInv' /\ StartInv' /\ CallsInv' /\ ExitsInv'
<1> USE StartIsCaller
<1>1. /\ QueueInv /\ calls["start"].pc = "idle" /\ state \in CanStart /\ NoCallInFlight
      /\ UNCHANGED <<state, runtimeGeneration, processController, softwareTPMController,
                     qemu, finishing, mainQ>>
  BY DEF LifecycleInv, Start, IsStarting, runtimeVars, refVars, worldVars
<1>2. /\ CallMoves("start") /\ RestTyped' /\ DisplayStep
      /\ calls'["start"].pc = "prepare"
      /\ \A d \in Callers : d # "start" => calls'[d] = calls[d]
  BY <1>1, StartQueue
<1>3. /\ Place["start"] = "idle" /\ Place'["start"] = "prepare"
      /\ \A d \in Callers : d # "start" => Place'[d] = Place[d]
      /\ Queued' \subseteq Queued
  BY <1>1, <1>2, PlaceIn, CallMoved
<1>4. On' = On /\ Fresh' = Fresh /\ Ended' = Ended
  BY <1>1, SameProcesses
<1>5. ControllersInv'
  BY <1>1, <1>3, <1>4 DEF LifecycleInv, ControllersInv
<1>6. StartInv'
  BY <1>1, <1>2, <1>3 DEF LifecycleInv, StartInv, NoCallInFlight
<1>7. CallsInv'
  BY <1>1, <1>2, <1>3, <1>4 DEF LifecycleInv, CallsInv
<1>8. ExitsInv'
  BY <1>1, <1>3, <1>4, ExitsKept DEF ExitsEnd
<1>9. QED
  BY <1>5, <1>6, <1>7, <1>8

LEMMA StopKeeps ==
    ASSUME LifecycleInv, Sequential, NEW c \in Calls, Stop(c)
    PROVE  ControllersInv' /\ StartInv' /\ CallsInv' /\ ExitsInv'
<1>1. StopStep(c) /\ AnswerStep(c)
  BY StopQueue DEF LifecycleInv, StopStep, RestKept, Stop, CallMoves
<1>2. /\ ~RebootInFlight /\ state \in {"running", "stopping"}
  BY DEF Stop
<1>3. PICK reboot \in BOOLEAN :
        LET call == [NoCall EXCEPT !.reboot = reboot] IN
        /\ reboot => NoCallInFlight
        /\ IF tools = "connected"
           THEN Suspend(c, call, "guest", 0, 0) /\ state' = "stopping"
           ELSE StopChildren(c, call, "stop", "stopping")
  BY DEF Stop
<1> DEFINE call == [NoCall EXCEPT !.reboot = reboot]
<1>4. call \in Call /\ call.reboot = reboot
  BY StartIsCaller DEF Call, NoCall
<1>5. /\ reboot => NoCallInFlight
      /\ IF tools = "connected"
         THEN Suspend(c, call, "guest", 0, 0) /\ state' = "stopping"
         ELSE StopChildren(c, call, "stop", "stopping")
  BY <1>3
<1> HIDE DEF call
<1>6. StopRuns(c, call)
  BY <1>2, <1>4, <1>5 DEF StopRuns, LifecycleInv, StartInv, CanStart, RebootInFlight,
                          NoCallInFlight
<1>7. CASE tools = "connected"
  <2>1. 0 \in Refs /\ "guest" \in PC /\ "guest" \notin HoldsController
        /\ "stopping" \in RuntimeState
    BY ConstantsAssumption DEF Refs, PC, HoldsController, RuntimeState
  <2>2. Suspend(c, call, "guest", 0, 0) /\ state' = "stopping"
    BY <1>5, <1>7
  <2>3. /\ calls'[c].pc = "guest" /\ calls'[c].ctl = 0 /\ calls'[c].reboot = call.reboot
        /\ \A d \in Callers : d # c => calls'[d] = calls[d]
    BY <2>1, <2>2, <1>1, <1>4, StartIsCaller, SuspendQueue DEF LifecycleInv, StopStep
  <2>4. QED BY <2>1, <2>2, <2>3, <1>1, <1>4, <1>6, SuspendKeeps
<1>8. CASE tools # "connected"
  BY <1>1, <1>4, <1>5, <1>6, <1>8, StopChildrenKeeps
<1>9. QED
  BY <1>7, <1>8

LEMMA ForceStopKeeps ==
    ASSUME LifecycleInv, Sequential, NEW c \in Calls, ForceStop(c)
    PROVE  ControllersInv' /\ StartInv' /\ CallsInv' /\ ExitsInv'
<1>1. StopStep(c) /\ AnswerStep(c)
  BY ForceStopQueue DEF LifecycleInv, StopStep, RestKept, ForceStop, CallMoves
<1>2. /\ ~RebootInFlight /\ state \in {"starting", "running", "stopping"}
      /\ StopChildren(c, NoCall, "force", "stopping")
  BY DEF ForceStop
<1>3. StopRuns(c, NoCall)
  BY <1>2, StartIsCaller DEF StopRuns, LifecycleInv, StartInv, CanStart, RebootInFlight
<1>4. QED
  BY <1>1, <1>2, <1>3, StartIsCaller, StopChildrenKeeps

LEMMA HandleReturnKeeps ==
    ASSUME LifecycleInv, NEW c \in Calls, HandleReturn(c)
    PROVE  ControllersInv' /\ StartInv' /\ CallsInv' /\ ExitsInv'
<1> DEFINE r == Head(mainQ).st
<1> USE StartIsCaller
<1>1. QueueInv /\ calls[c] \in Call
  BY QueueParts DEF LifecycleInv
<1>2. /\ StopStep(c) /\ AnswerStep(c) /\ Place[c] = r /\ calls[c].pc = "return"
  BY <1>1, HandleReturnQueue DEF StopStep, RestKept, HandleReturn, CallMoves
<1>3. StopRuns(c, calls[c])
  <2>1. ~NoCallInFlight
    BY <1>2 DEF NoCallInFlight
  <2>2. \A d \in Calls \ {c} : ~calls[d].reboot
    BY <1>2 DEF LifecycleInv, CallsInv
  <2>3. QED BY <2>1, <2>2 DEF StopRuns, LifecycleInv, StartInv, CallsInv
<1>4. CASE StopChildren(c, calls[c], "stop", state)
  BY <1>1, <1>2, <1>3, <1>4, StopChildrenKeeps
<1>5. CASE r = "stopped" /\ StopTPMThenFinish(c, calls[c], state)
  BY <1>1, <1>2, <1>3, <1>5, StopTPMKeeps DEF MayClear, LifecycleInv, CallsInv
<1>6. CASE r = "tpmStopped" /\ FinishCall(c, calls[c])
  BY <1>1, <1>2, <1>3, <1>6, FinishCallKeeps DEF MayClear, LifecycleInv, CallsInv
<1>7. CASE Return(c, calls[c], state) /\ UNCHANGED runtimeVars
  <2>1. /\ UNCHANGED <<state, runtimeGeneration, processController, softwareTPMController>>
    BY <1>7 DEF runtimeVars, refVars
  <2>2. /\ On' = On /\ Fresh' = Fresh /\ UNCHANGED qemu
        /\ Place["start"] = "spawn" => Place'["start"] = "spawn"
    <3>1. /\ \A d \in Callers : d # c /\ calls'[d] = calls[d] => Place'[d] = Place[d]
          /\ On' = On /\ Fresh' = Fresh /\ UNCHANGED qemu
      BY <1>2, StopStepFacts
    <3>2. Place["start"] = "spawn" => calls'["start"] = calls["start"]
      BY <1>1, <1>7, CallReturns, PlaceIn DEF PC
    <3>3. QED BY <3>1, <3>2
  <2>3. ControllersInv'
    BY <2>1, <2>2 DEF LifecycleInv, ControllersInv
  <2>4. state = "stopped" /\ ~IsStarting => processController' = 0
    BY <2>1, <1>1, PlaceIn DEF IsStarting, LifecycleInv, StartInv, CanStart
  <2>5. StartInv' /\ CallsInv'
    BY <2>1, <2>3, <2>4, <1>1, <1>2, <1>3, <1>7, ReturnKeeps
  <2>6. QED BY <2>3, <2>5, <1>2, StopStepFacts
<1>8. CASE /\ state' = "running" /\ SetCall(c, NoCall)
           /\ UNCHANGED <<runtimeGeneration, refVars>>
  <2>1. calls'[c] = NoCall /\ \A d \in Callers : d # c => calls'[d] = calls[d]
    BY <1>1, <1>8, SetOneCall
  <2>2. /\ \A d \in Callers : d # c => Place'[d] = Place[d]
        /\ Place'[c] = "idle"
        /\ UNCHANGED qemu /\ On' = On /\ Fresh' = Fresh /\ Ended' = Ended /\ ExitsInv'
    BY <2>1, <1>2, StopStepFacts
  <2>3. UNCHANGED <<runtimeGeneration, processController, softwareTPMController>>
    BY <1>8 DEF refVars
  <2>4. ControllersInv'
    BY <2>2, <2>3 DEF LifecycleInv, ControllersInv
  <2>5. StartInv'
    BY <2>1, <2>2, <2>3, <1>3, <1>8 DEF LifecycleInv, StartInv, StopRuns, CanStart
  <2>6. CallsInv'
    BY <2>1, <2>2, <2>3 DEF LifecycleInv, CallsInv
  <2>7. QED BY <2>2, <2>4, <2>5, <2>6
<1>9. QED
  BY <1>4, <1>5, <1>6, <1>7, <1>8 DEF HandleReturn

-----------------------------------------------------------------------------
(* start() goes on                                                          *)

CallsStay == \A d \in Calls : calls'[d] = calls[d]

LEMMA StartStepFacts ==
    ASSUME LifecycleInv, HandleStartReturn, StartStep, CallsStay
    PROVE  /\ Place["start"] = Head(mainQ).st /\ Place["start"] \in Result
           /\ Place'["start"] = calls'["start"].pc
           /\ \A d \in Calls : Place'[d] = Place[d]
           /\ UNCHANGED <<qemu, finishing>> /\ NoCallInFlight' = NoCallInFlight
           /\ On' = On /\ Fresh' = Fresh /\ Ended' = Ended /\ ExitsInv'
<1>1. QueueInv /\ "start" \in Callers /\ Calls \subseteq Callers /\ "start" \notin Calls
  BY StartIsCaller DEF LifecycleInv
<1>2. /\ Place["start"] = Head(mainQ).st /\ calls["start"].pc = "return"
      /\ UNCHANGED <<qemu, finishing>>
  BY <1>1, HandleStartReturnFacts
<1>3. /\ Queued' \subseteq Queued
      /\ Place'["start"] = calls'["start"].pc
      /\ \A d \in Calls : Place'[d] = Place[d]
  BY <1>1, CallMoved DEF StartStep, CallsStay, CallMoves
<1>4. On' = On /\ Fresh' = Fresh /\ Ended' = Ended
  BY <1>2, SameProcesses
<1>5. ExitsInv'
  BY <1>2, <1>3, <1>4, ExitsKept DEF ExitsEnd
<1>6. NoCallInFlight' = NoCallInFlight
  BY DEF NoCallInFlight, CallsStay
<1>7. QED
  BY <1>1, <1>2, <1>3, <1>4, <1>5, <1>6, PlaceIn

(* The other calls, while the newest start stays the newest. *)
LEMMA StartCallsKeep ==
    ASSUME LifecycleInv, HandleStartReturn, StartStep, CallsStay,
           runtimeGeneration' = runtimeGeneration,
           calls'["start"].pc \notin {"stop", "qmp", "poll", "killing", "stopped", "tpmStopped"},
           calls'["start"].pc = "force" =>
              calls'["start"].ctl = runtimeGeneration /\ runtimeGeneration \notin Fresh,
           calls'["start"].pc = "tpm" => runtimeGeneration \in Ended
    PROVE  CallsInv'
<1> USE StartIsCaller
<1>1. Place["start"] # "spawn"
  BY StartStepFacts DEF Result
<1>2. ASSUME NEW d \in Callers
      PROVE  /\ Place'[d] \in {"stop", "force", "qmp", "poll", "killing"} =>
                  /\ calls'[d].ctl = runtimeGeneration'
                  /\ runtimeGeneration' \notin Fresh'
             /\ Place'[d] \in {"stopped", "tpm", "tpmStopped"} =>
                  runtimeGeneration' \in Ended'
  <2>1. CASE d = "start"
    BY <2>1, StartStepFacts
  <2>2. CASE d # "start"
    BY <2>2, <1>1, StartStepFacts DEF CallsStay, Callers, LifecycleInv, CallsInv
  <2>3. QED BY <2>1, <2>2
<1>3. QED
  BY <1>2 DEF CallsStay, LifecycleInv, CallsInv

(* start() returns without a machine. *)
LEMMA StartEndsKeep ==
    ASSUME LifecycleInv, HandleStartReturn, StartStep, CallsStay,
           calls'["start"] = NoCall, UNCHANGED <<runtimeGeneration>>,
           state' # "starting", state' \in CanStart => processController' = 0,
           \/ processController' = 0 /\ softwareTPMController' = 0 /\ MayClear
           \/ UNCHANGED <<processController, softwareTPMController>>
    PROVE  ControllersInv' /\ StartInv' /\ CallsInv' /\ ExitsInv'
<1>1. Place'["start"] = "idle" /\ calls'["start"].pc = "idle" /\ ExitsInv'
  BY StartStepFacts, StartIsCaller
<1>2. Place["start"] # "spawn" /\ On' = On /\ Fresh' = Fresh /\ UNCHANGED qemu
  BY StartStepFacts DEF Result
<1>3. ControllersInv'
  BY <1>2, Processes DEF LifecycleInv, ControllersInv, MayClear
<1>4. StartInv'
  BY <1>1 DEF StartInv
<1>5. CallsInv'
  BY <1>1, StartCallsKeep
<1>6. QED
  BY <1>1, <1>3, <1>4, <1>5

LEMMA FailStartKeeps ==
    ASSUME LifecycleInv, HandleStartReturn, FailStart, UNCHANGED swtpm, MayClear
    PROVE  ControllersInv' /\ StartInv' /\ CallsInv' /\ ExitsInv'
<1>1. StartStep /\ CallsStay /\ calls'["start"] = NoCall
  BY FailStartQueue DEF LifecycleInv, CallsStay
<1>2. /\ processController' = 0 /\ softwareTPMController' = 0 /\ state' = "failed"
      /\ UNCHANGED runtimeGeneration
  BY DEF FailStart, ClearRuntime
<1>3. QED
  BY <1>1, <1>2, StartEndsKeep

(* The catch of start() waits for a child to end. *)
LEMMA SuspendStartKeeps ==
    ASSUME LifecycleInv, HandleStartReturn, NEW pc \in {"force", "tpm"},
           NEW ctl \in Refs, NEW tpm \in Refs, Suspend("start", NoCall, pc, ctl, tpm),
           UNCHANGED <<state, swtpm>>,
           pc = "force" => ctl # 0 /\ ctl = processController,
           pc = "tpm" => runtimeGeneration \in Ended
    PROVE  ControllersInv' /\ StartInv' /\ CallsInv' /\ ExitsInv'
<1>1. StartStep /\ CallsStay /\ calls'["start"].pc = pc /\ calls'["start"].ctl = ctl
  BY SuspendStartQueue DEF LifecycleInv, CallsStay
<1>2. UNCHANGED <<runtimeGeneration, processController, softwareTPMController>>
  BY DEF Suspend, refVars
<1>3. Place["start"] # "spawn" /\ Place'["start"] = pc /\ ExitsInv'
      /\ On' = On /\ Fresh' = Fresh /\ UNCHANGED qemu
  BY <1>1, StartStepFacts DEF Result
<1>4. ControllersInv'
  BY <1>2, <1>3 DEF LifecycleInv, ControllersInv
<1>5. StartInv'
  BY <1>3 DEF StartInv
<1>6. pc = "force" => ctl = runtimeGeneration /\ runtimeGeneration \notin Fresh
  BY <1>3 DEF LifecycleInv, ControllersInv
<1>7. CallsInv'
  BY <1>1, <1>2, <1>6, StartCallsKeep
<1>8. QED
  BY <1>3, <1>4, <1>5, <1>7

LEMMA CatchTPMKeeps ==
    ASSUME LifecycleInv, HandleStartReturn, CatchTPM, UNCHANGED swtpm, MayClear
    PROVE  ControllersInv' /\ StartInv' /\ CallsInv' /\ ExitsInv'
<1>1. CASE softwareTPMController = 0
  BY <1>1, FailStartKeeps DEF CatchTPM
<1>2. CASE softwareTPMController # 0
  <2>1. softwareTPMController \in Refs /\ 0 \in Refs
    BY ConstantsAssumption, QueueParts DEF LifecycleInv, RestTyped, Refs
  <2>2. runtimeGeneration \in Ended
    BY <1>2 DEF MayClear, LifecycleInv, ControllersInv
  <2>3. QED BY <1>2, <2>1, <2>2, SuspendStartKeeps DEF CatchTPM
<1>3. QED
  BY <1>1, <1>2

LEMMA CatchKeeps ==
    ASSUME LifecycleInv, HandleStartReturn, Catch, UNCHANGED swtpm
    PROVE  ControllersInv' /\ StartInv' /\ CallsInv' /\ ExitsInv'
<1>1. CASE processController = 0
  BY <1>1, CatchTPMKeeps DEF Catch, MayClear
<1>2. CASE processController # 0
  <2>1. processController \in Refs /\ 0 \in Refs
    BY ConstantsAssumption, QueueParts DEF LifecycleInv, RestTyped, Refs
  <2>2. QED BY <1>2, <2>1, SuspendStartKeeps DEF Catch
<1>3. QED
  BY <1>1, <1>2

LEMMA NotStartedKeeps ==
    ASSUME LifecycleInv, HandleStartReturn, StartStep, CallsStay,
           Head(mainQ).st \in {"prepared", "unprepared"}, calls'["start"] = NoCall,
           UNCHANGED <<state, runtimeGeneration, processController, softwareTPMController>>
    PROVE  ControllersInv' /\ StartInv' /\ CallsInv' /\ ExitsInv'
<1>1. state \in CanStart /\ processController = 0
  BY StartStepFacts DEF LifecycleInv, StartInv
<1>2. state' # "starting"
  BY <1>1 DEF CanStart
<1>3. QED
  BY <1>1, <1>2, StartEndsKeep

(* A new generation: nothing of an older one is left, and no call is in
   flight. *)
LEMMA StartRuntimeKeeps ==
    ASSUME LifecycleInv, HandleStartReturn, StartRuntime, Head(mainQ).st = "prepared"
    PROVE  ControllersInv' /\ StartInv' /\ CallsInv' /\ ExitsInv'
<1> DEFINE g == runtimeGeneration + 1
<1> USE StartIsCaller
<1>1. /\ StartStep /\ CallsStay
      /\ \/ calls'["start"].pc = "port" /\ state \in CanStart
            /\ runtimeGeneration' = g /\ g \in Gens
         \/ calls'["start"] = NoCall /\ UNCHANGED <<state, runtimeGeneration>>
  BY StartRuntimeQueue DEF LifecycleInv, CallsStay
<1>2. UNCHANGED <<processController, softwareTPMController>>
  BY DEF StartRuntime, refVars
<1>3. CASE calls'["start"] = NoCall /\ UNCHANGED <<state, runtimeGeneration>>
  BY <1>1, <1>2, <1>3, NotStartedKeeps
<1>4. CASE calls'["start"].pc = "port" /\ runtimeGeneration' = g /\ g \in Gens
  <2>1. /\ Place["start"] = "prepared" /\ Place'["start"] = "port"
        /\ \A d \in Calls : Place'[d] = Place[d]
        /\ On' = On /\ Fresh' = Fresh /\ Ended' = Ended /\ ExitsInv'
    BY <1>1, <1>4, StartStepFacts
  <2>2. processController = 0 /\ NoCallInFlight /\ softwareTPMController = 0
    BY <2>1 DEF LifecycleInv, StartInv, ControllersInv
  <2>3. On = {}
    BY <2>2, Processes DEF LifecycleInv, ControllersInv
  <2>4. runtimeGeneration \in Nat /\ g > runtimeGeneration
    BY QueueParts, ConstantsAssumption DEF LifecycleInv, RestTyped, Refs
  <2>5. g \in Fresh /\ \A h \in Gens : h > g => h \in Fresh
    <3>1. \A h \in Gens : h > g => h > runtimeGeneration
      BY <2>4 DEF Gens
    <3>2. QED BY <3>1, <2>4, <1>4 DEF LifecycleInv, ControllersInv
  <2>6. ControllersInv'
    BY <2>1, <2>2, <2>3, <2>5, <1>2, <1>4, Processes DEF ControllersInv
  <2>7. StartInv'
    BY <2>1, <2>2, <2>5, <1>2, <1>4 DEF StartInv
  <2>8. \A d \in Calls : Place'[d] = "idle"
    BY <2>1, <2>2, PlaceIn DEF NoCallInFlight, LifecycleInv
  <2>9. CallsInv'
    BY <2>1, <2>8, <1>1 DEF CallsStay, Callers, LifecycleInv, CallsInv
  <2>10. QED BY <2>1, <2>6, <2>7, <2>9
<1>5. QED
  BY <1>1, <1>3, <1>4

(* A controller is made for the generation, of which nothing runs yet. *)
LEMMA ControllerMadeKeeps ==
    ASSUME LifecycleInv, HandleStartReturn, StartStep, CallsStay,
           Place["start"] \in {"allocated", "tpmReady"},
           UNCHANGED runtimeGeneration, processController' = runtimeGeneration,
           softwareTPMController' \in {0, runtimeGeneration},
           calls'["start"].pc = "spawn", calls'["start"].ctl = runtimeGeneration
    PROVE  ControllersInv' /\ StartInv' /\ CallsInv' /\ ExitsInv'
<1>1. /\ Place'["start"] = "spawn" /\ ExitsInv'
      /\ On' = On /\ Fresh' = Fresh
  BY StartStepFacts
<1>2. runtimeGeneration \in Fresh /\ processController = 0
  BY DEF LifecycleInv, StartInv
<1>3. On = {}
  BY <1>2, Processes DEF LifecycleInv, ControllersInv
<1>4. ControllersInv'
  BY <1>1, <1>2, <1>3 DEF LifecycleInv, ControllersInv
<1>5. StartInv'
  BY <1>1, <1>2 DEF StartInv
<1>6. CallsInv'
  BY StartCallsKeep
<1>7. QED
  BY <1>1, <1>4, <1>5, <1>6

LEMMA ConfiguredKeeps ==
    ASSUME LifecycleInv, HandleStartReturn, Configured, Head(mainQ).st = "allocated"
    PROVE  ControllersInv' /\ StartInv' /\ CallsInv' /\ ExitsInv'
<1>1. QueueInv /\ Place["start"] = "allocated"
  BY HandleStartReturnFacts DEF LifecycleInv
<1>2. /\ runtimeGeneration \in Fresh /\ runtimeGeneration # 0
      /\ processController = 0 /\ softwareTPMController = 0
  BY <1>1, Processes DEF LifecycleInv, StartInv, ControllersInv
<1>3. /\ StartStep /\ CallsStay
      /\ \/ /\ calls'["start"].pc = "tpmStart"
            /\ calls'["start"].tpm = runtimeGeneration
            /\ UNCHANGED processController
         \/ /\ calls'["start"].pc = "spawn"
            /\ calls'["start"].ctl = runtimeGeneration
            /\ processController' = runtimeGeneration
  BY <1>1, <1>2, ConfiguredQueue DEF CallsStay
<1>4. UNCHANGED <<runtimeGeneration, softwareTPMController>>
  BY DEF Configured
<1>5. CASE /\ calls'["start"].pc = "tpmStart"
           /\ calls'["start"].tpm = runtimeGeneration
           /\ UNCHANGED processController
  <2>1. /\ Place'["start"] = "tpmStart" /\ ExitsInv' /\ On' = On /\ Fresh' = Fresh
        /\ UNCHANGED qemu
    BY <1>3, <1>5, StartStepFacts
  <2>2. ControllersInv'
    BY <2>1, <1>2, <1>4, <1>5, Processes DEF LifecycleInv, ControllersInv
  <2>3. StartInv'
    BY <2>1, <1>2, <1>4, <1>5 DEF StartInv
  <2>4. CallsInv'
    BY <1>3, <1>4, <1>5, StartCallsKeep
  <2>5. QED BY <2>1, <2>2, <2>3, <2>4
<1>6. CASE /\ calls'["start"].pc = "spawn"
           /\ calls'["start"].ctl = runtimeGeneration
           /\ processController' = runtimeGeneration
  BY <1>1, <1>2, <1>3, <1>4, <1>6, ControllerMadeKeeps
<1>7. QED
  BY <1>3, <1>5, <1>6

LEMMA TPMReadyKeeps ==
    ASSUME LifecycleInv, HandleStartReturn, TPMReady, Head(mainQ).st = "tpmReady"
    PROVE  ControllersInv' /\ StartInv' /\ CallsInv' /\ ExitsInv'
<1>1. QueueInv /\ Place["start"] = "tpmReady"
  BY HandleStartReturnFacts DEF LifecycleInv
<1>2. calls["start"].tpm = runtimeGeneration /\ runtimeGeneration # 0
  BY <1>1, Processes DEF LifecycleInv, StartInv
<1>3. /\ StartStep /\ CallsStay
      /\ calls'["start"].pc = "spawn" /\ calls'["start"].ctl = runtimeGeneration
  BY <1>1, <1>2, TPMReadyQueue DEF CallsStay
<1>4. /\ UNCHANGED runtimeGeneration /\ processController' = runtimeGeneration
      /\ softwareTPMController' = runtimeGeneration
  BY <1>2 DEF TPMReady
<1>5. QED
  BY <1>1, <1>3, <1>4, ControllerMadeKeeps

LEMMA ConnectDisplayKeeps ==
    ASSUME LifecycleInv, HandleStartReturn, ConnectDisplay
    PROVE  ControllersInv' /\ StartInv' /\ CallsInv' /\ ExitsInv'
<1>1. StartStep /\ CallsStay /\ calls'["start"].pc = "display"
  BY ConnectDisplayQueue DEF LifecycleInv, CallsStay
<1>2. UNCHANGED <<runtimeGeneration, processController, softwareTPMController>>
  BY DEF ConnectDisplay
<1>3. /\ Place'["start"] = "display" /\ Place["start"] # "spawn" /\ ExitsInv'
      /\ On' = On /\ Fresh' = Fresh /\ UNCHANGED qemu
  BY <1>1, StartStepFacts DEF Result
<1>4. ControllersInv'
  BY <1>2, <1>3 DEF LifecycleInv, ControllersInv
<1>5. StartInv'
  BY <1>3 DEF StartInv
<1>6. CallsInv'
  BY <1>1, <1>2, StartCallsKeep
<1>7. QED
  BY <1>3, <1>4, <1>5, <1>6

LEMMA RunningKeeps ==
    ASSUME LifecycleInv, HandleStartReturn, Running
    PROVE  ControllersInv' /\ StartInv' /\ CallsInv' /\ ExitsInv'
<1>1. StartStep /\ CallsStay /\ calls'["start"] = NoCall
  BY RunningQueue DEF LifecycleInv, CallsStay
<1>2. state' = "running"
      /\ UNCHANGED <<runtimeGeneration, processController, softwareTPMController>>
  BY DEF Running, refVars
<1>3. QED
  BY <1>1, <1>2, StartEndsKeep DEF CanStart

LEMMA HandleStartReturnKeeps ==
    ASSUME LifecycleInv, HandleStartReturn
    PROVE  ControllersInv' /\ StartInv' /\ CallsInv' /\ ExitsInv'
<1> DEFINE r == Head(mainQ).st
<1>1. CASE r = "unprepared" /\ SetCall("start", NoCall) /\ UNCHANGED <<runtimeVars, swtpm>>
  <2>1. StartStep /\ CallsStay /\ calls'["start"] = NoCall
    BY <1>1, NotPreparedQueue DEF LifecycleInv, CallsStay
  <2>2. QED BY <2>1, <1>1, NotStartedKeeps DEF runtimeVars, refVars
<1>2. CASE r = "stopped" /\ CatchTPM /\ UNCHANGED swtpm
  <2>1. Place["start"] = "stopped"
    BY <1>2, HandleStartReturnFacts DEF LifecycleInv
  <2>2. MayClear
    BY <2>1, StartIsCaller DEF MayClear, LifecycleInv, CallsInv
  <2>3. QED BY <2>2, <1>2, CatchTPMKeeps
<1>3. CASE r = "tpmStopped" /\ FailStart /\ UNCHANGED swtpm
  <2>1. Place["start"] = "tpmStopped"
    BY <1>3, HandleStartReturnFacts DEF LifecycleInv
  <2>2. MayClear
    BY <2>1, StartIsCaller DEF MayClear, LifecycleInv, CallsInv
  <2>3. QED BY <2>2, <1>3, FailStartKeeps
<1>4. QED
  BY <1>1, <1>2, <1>3, StartRuntimeKeeps, ConfiguredKeeps, TPMReadyKeeps, ConnectDisplayKeeps,
     RunningKeeps, CatchKeeps DEF HandleStartReturn

-----------------------------------------------------------------------------
(* The invariant                                                            *)

LEMMA InitLifecycle == Init => LifecycleInv
<1> SUFFICES ASSUME Init PROVE LifecycleInv
  OBVIOUS
<1>1. QueueInv /\ \A c \in Callers : Place[c] = "idle"
  BY InitQueue
<1>2. /\ state = "stopped" /\ runtimeGeneration = 0 /\ processController = 0
      /\ softwareTPMController = 0 /\ mainQ = <<>> /\ finishing = {}
      /\ \A c \in Callers : calls[c] = NoCall
  BY DEF Init
<1>3. On = {} /\ Fresh = Gens /\ Queued = {}
  BY <1>2 DEF Init, On, Fresh, Alive, Queued
<1>4. ControllersInv /\ StartInv
  BY <1>1, <1>2, <1>3, Processes, StartIsCaller DEF ControllersInv, StartInv
<1>5. CallsInv /\ ExitsInv
  BY <1>1, <1>2, <1>3, StartIsCaller DEF CallsInv, ExitsInv
<1>6. QED
  BY <1>1, <1>4, <1>5 DEF LifecycleInv

LEMMA LifecycleNext ==
    ASSUME LifecycleInv, Sequential, [Next]_vars
    PROVE  LifecycleInv'
<1>1. QueueInv /\ StartGeneration
  BY Processes DEF LifecycleInv, StartInv, StartGeneration
<1>2. QueueInv'
  BY <1>1, QueueNext
<1> SUFFICES ControllersInv' /\ StartInv' /\ CallsInv' /\ ExitsInv'
  BY <1>2 DEF LifecycleInv
<1>3. CASE StartSteps
  BY <1>3, AwaitsKeep, SpawnKeeps DEF StartSteps
<1>4. CASE \E c \in Callers : CallSteps(c)
  BY <1>4, CallsKeep
<1>5. CASE Start \/ \E c \in Calls : Stop(c) \/ ForceStop(c)
  BY <1>5, StartKeeps, StopKeeps, ForceStopKeeps
<1>6. CASE MainJob
  BY <1>6, HandleExitKeeps, FinishAfterExitKeeps, AwaitsKeep, HandleStartReturnKeeps,
     HandleReturnKeeps DEF MainJob
<1>7. CASE \/ FinishSteps
           \/ \E g \in Gens : ProcessTerminated(g) \/ QEMUExits(g) \/ SwtpmExits(g)
           \/ ProbeTools \/ UNCHANGED vars
  BY <1>7, FinishingKeeps, ProcessKeeps, OthersKeep
<1>8. QED
  BY <1>3, <1>4, <1>5, <1>6, <1>7 DEF Next

(* For a user who presses Start only when stop, forceStop and reboot have
   returned, the runtime, its calls in flight, the jobs of the main actor, the
   controllers and their processes stay related in every reachable state. *)
THEOREM LifecycleTheorem ==
    ASSUME Sequential
    PROVE  Spec => []LifecycleInv
<1>1. LifecycleInv /\ [Next]_vars => LifecycleInv'
  BY LifecycleNext
<1>2. QED
  BY <1>1, InitLifecycle, PTL DEF Spec

(* Then a machine never has two QEMU processes on its disk, although a stop
   may end while the controller of the process is being replaced. *)
THEOREM OneQEMUTheorem ==
    ASSUME Sequential
    PROVE  Spec => []OneQEMU
<1>1. LifecycleInv => OneQEMU
  BY DEF LifecycleInv, ControllersInv, On, OneQEMU
<1>2. QED
  BY <1>1, LifecycleTheorem, PTL

LEMMA LiveIsControlled ==
    ASSUME LifecycleInv
    PROVE  AliveIsControlled
<1>1. SUFFICES ASSUME NEW g \in Gens, Alive(g), ~IsStarting
               PROVE  state \in {"running", "stopping"} /\ processController = g
  BY DEF AliveIsControlled
<1>2. g = processController /\ g # 0
  BY <1>1, Processes DEF LifecycleInv, ControllersInv, On
<1>3. Place["start"] = "idle"
  BY <1>1, StartIsCaller, PlaceIn DEF IsStarting, LifecycleInv
<1>4. state \in RuntimeState /\ state # "starting" /\ state \notin CanStart
  BY <1>2, <1>3, QueueParts DEF LifecycleInv, StartInv, RestTyped
<1>5. QED
  BY <1>2, <1>4 DEF RuntimeState, CanStart

(* Then a live QEMU process whose machine is not being started is shown as
   running or stopping, and Stop and Force Power Off act on that process. *)
THEOREM AliveIsControlledTheorem ==
    ASSUME Sequential
    PROVE  Spec => []AliveIsControlled
<1>1. LifecycleInv => AliveIsControlled
  BY LiveIsControlled
<1>2. QED
  BY <1>1, LifecycleTheorem, PTL

-----------------------------------------------------------------------------
(* The runtime implements RuntimeContract                                   *)

PoweredOn == \E g \in Gens : Alive(g)

(* A step is one of the contract if the power changes only under the state
   that is shown, is switched on only by start(), and a start begins with the
   state as it is or .stopped; what is shown after it is right. *)
LEMMA ContractStep ==
    ASSUME TypeOK', AliveIsControlled',
           ~(PoweredOn' <=> PoweredOn) =>
              /\ state' = state /\ (IsStarting' <=> IsStarting)
              /\ PoweredOn' => IsStarting,
           ~IsStarting /\ IsStarting' => state' \in {state, "stopped"}
    PROVE  [Contract!ContractNext]_(Contract!contractVars)
<1>1. state' \in Contract!RuntimeState
  BY DEF TypeOK, RuntimeState, Contract!RuntimeState
<1>2. CASE ~(PoweredOn' <=> PoweredOn)
  BY <1>2 DEF PoweredOn, IsStarting, Contract!ContractNext, Contract!PowerOn,
              Contract!PowerOff
<1>3. CASE (PoweredOn' <=> PoweredOn) /\ IsStarting /\ IsStarting'
  BY <1>1, <1>3 DEF PoweredOn, Contract!ContractNext, Contract!Report
<1>4. CASE (PoweredOn' <=> PoweredOn) /\ ~IsStarting /\ IsStarting'
  BY <1>4 DEF PoweredOn, Contract!ContractNext, Contract!BeginStart
<1>5. CASE (PoweredOn' <=> PoweredOn) /\ ~IsStarting'
  <2>1. Contract!MayShow(state')
    BY <1>5 DEF PoweredOn, AliveIsControlled, Contract!MayShow, Contract!CanStart
  <2>2. CASE IsStarting
    BY <1>1, <1>5, <2>1, <2>2 DEF PoweredOn, IsStarting, Contract!ContractNext,
                                  Contract!EndStart
  <2>3. CASE ~IsStarting
    BY <1>1, <1>5, <2>1, <2>3 DEF PoweredOn, IsStarting, Contract!ContractNext,
                                  Contract!Report
  <2>4. QED BY <2>2, <2>3
<1>6. QED
  BY <1>2, <1>3, <1>4, <1>5

LEMMA AdvanceStarting ==
    ASSUME NEW c \in Callers, NEW place, Advance(c, place)
    PROVE  IsStarting' <=> IsStarting
  BY StartIsCaller DEF Advance, CallKept, IsStarting

(* Who switches the machine on and off. *)
LEMMA PowerSteps ==
    ASSUME LifecycleInv, [Next]_vars, ~(PoweredOn' <=> PoweredOn)
    PROVE  /\ state' = state /\ (IsStarting' <=> IsStarting)
           /\ PoweredOn' => IsStarting
<1> USE DEF runtimeVars
<1>1. QueueInv /\ qemu \in [Gens -> Controller] /\ qemu' # qemu
  BY QueueParts DEF LifecycleInv, RestTyped, PoweredOn, Alive
<1>2. CASE Spawn
  <2>1. IsStarting' <=> IsStarting
    BY <1>1, <1>2, SpawnAdvances, AdvanceStarting, StartIsCaller
  <2>2. QED BY <1>2, <2>1 DEF Spawn, IsStarting
<1>3. ASSUME NEW c \in Callers,
             \/ ControllerStop(c) \/ QMPAnswered(c)
             \/ ControllerKill(c) \/ ControllerCompletes(c)
      PROVE  /\ state' = state /\ (IsStarting' <=> IsStarting)
             /\ PoweredOn' => PoweredOn
  <2>1. calls[c].ctl \in Gens
    BY <1>1, <1>3, ControllerTyped
    DEF ControllerStop, QMPAnswered, ControllerKill, ControllerCompletes, OnController,
        HoldsController
  <2>2. \A g \in Gens : qemu'[g].os = "alive" => qemu[g].os = "alive"
    <3>1. CASE QMPAnswered(c)
      BY <1>1, <2>1, <3>1 DEF QMPAnswered, Controller
    <3>2. CASE ~QMPAnswered(c)
      BY <1>1, <1>3, <2>1, <3>2, HandlerOfProcess
    <3>3. QED BY <3>1, <3>2
  <2>3. IsStarting' <=> IsStarting
    BY <1>1, <1>3, CallAdvances, AdvanceStarting DEF CallSteps
  <2>4. state' = state
    BY <1>3 DEF ControllerStop, QMPAnswered, ControllerKill, ControllerCompletes
  <2>5. QED BY <2>2, <2>3, <2>4 DEF PoweredOn, Alive
<1>4. ASSUME NEW g \in Gens, ProcessTerminated(g) \/ QEMUExits(g)
      PROVE  /\ state' = state /\ (IsStarting' <=> IsStarting)
             /\ PoweredOn' => PoweredOn
  <2>1. \A h \in Gens : qemu'[h].os = "alive" => qemu[h].os = "alive"
    BY <1>1, <1>4 DEF ProcessTerminated, QEMUExits, Controller
  <2>2. QED BY <1>4, <2>1 DEF PoweredOn, Alive, ProcessTerminated, QEMUExits, IsStarting
<1>5. CASE StartSteps
  BY <1>1, <1>2, <1>5 DEF StartSteps, Prepare, AllocatePort, StartTPM, DisplayAttempt,
     SpiceCallback, VNCConnected, VNCFails, DisplayUnavailable, worldVars
<1>6. ASSUME NEW c \in Callers, CallSteps(c)
      PROVE  \/ ControllerStop(c) \/ QMPAnswered(c)
             \/ ControllerKill(c) \/ ControllerCompletes(c)
  BY <1>1, <1>6 DEF CallSteps, GuestAnswers, TPMStopped, ControllerStopped, PollTimesOut,
     worldVars
<1>7. ~(\/ Start \/ FinishSteps \/ ProbeTools \/ MainJob \/ UNCHANGED vars
        \/ (\E c \in Calls : Stop(c) \/ ForceStop(c)) \/ (\E g \in Gens : SwtpmExits(g)))
  BY <1>1 DEF Start, FinishSteps, FinishingTPMStopped, ProbeTools, MainJob, HandleExit,
     FinishAfterExit, HandleSpice, HandleStartReturn, HandleReturn, Stop, ForceStop,
     SwtpmExits, vars, worldVars
<1>8. QED
  BY <1>3, <1>4, <1>5, <1>6, <1>7 DEF Next

(* A start begins when the user presses Start and at the end of a restart. *)
LEMMA StartBegins ==
    ASSUME LifecycleInv, [Next]_vars, ~IsStarting, IsStarting'
    PROVE  state' \in {state, "stopped"}
<1> USE DEF runtimeVars
<1>1. QueueInv /\ calls \in [Callers -> Call] /\ calls["start"].pc = "idle"
      /\ calls'["start"] # calls["start"]
  BY QueueParts DEF LifecycleInv, IsStarting
<1>2. \A c \in Callers : \A place : ~Advance(c, place)
  BY AdvanceStarting
<1>3. CASE Start
  BY <1>3 DEF Start
<1>4. ASSUME NEW c \in Calls, Stop(c) \/ ForceStop(c) \/ HandleReturn(c)
      PROVE  state' \in {state, "stopped"}
  <2>1. \A call : ~SetCall(c, call)
    BY <1>1, StartIsCaller DEF SetCall
  <2>2. \A call, pc, ctl, tpm : ~Suspend(c, call, pc, ctl, tpm)
    BY <2>1 DEF Suspend
  <2>3. QED BY <1>4, <2>1, <2>2 DEF Stop, ForceStop, HandleReturn, StopChildren,
                                    StopTPMThenFinish, FinishCall
<1>5. ~HandleStartReturn
  BY <1>1, HandleStartReturnFacts
<1>6. ~(\/ StartSteps
        \/ \E c \in Callers : CallSteps(c)
        \/ FinishSteps
        \/ \E g \in Gens : ProcessTerminated(g) \/ QEMUExits(g) \/ SwtpmExits(g)
        \/ ProbeTools \/ HandleExit \/ FinishAfterExit \/ HandleSpice)
  BY <1>1, <1>2, AdvancesGenerally
<1>7. calls' # calls
  BY <1>1
<1>8. QED
  BY <1>3, <1>4, <1>5, <1>6, <1>7 DEF Next, MainJob, vars

(* The QEMU runtime keeps the contract that AppModel's guards on a machine's
   disk build on, for a user who waits for stop to return: with exits noticed
   late or twice, and with concurrent stop, forceStop and reboot calls, every
   behaviour of it is one of RuntimeContract. *)
THEOREM ContractTheorem ==
    ASSUME Sequential
    PROVE  Spec => ImplementsContract
<1>1. Init => Contract!ContractInit
  <2> SUFFICES ASSUME Init PROVE Contract!ContractInit
    OBVIOUS
  <2>1. state = "stopped" /\ ~IsStarting /\ \A g \in Gens : ~Alive(g)
    BY StartIsCaller DEF Init, IsStarting, Alive
  <2>2. QED BY <2>1 DEF Contract!ContractInit, IsStarting
<1>2. LifecycleInv /\ TypeOK' /\ AliveIsControlled' /\ [Next]_vars
        => [Contract!ContractNext]_(Contract!contractVars)
  BY PowerSteps, StartBegins, ContractStep
<1>3. QED
  BY <1>1, <1>2, LifecycleTheorem, TypeTheorem, AliveIsControlledTheorem, PTL
  DEF Spec, ImplementsContract, Contract!ContractSpec

=============================================================================
