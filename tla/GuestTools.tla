----------------------------- MODULE GuestTools -----------------------------
(***************************************************************************)
(* GuestToolsCoordinator, GuestClipboardSynchronizer and the channel to    *)
(* the guest's daemon.  The coordinator probes the guest and starts the    *)
(* synchronizer, whose task polls the host's pasteboard and the guest's    *)
(* clipboard.  Every request is a connection of its own with a deadline;   *)
(* the daemon serves the requests of the virtio port in order, also those  *)
(* the host no longer waits for.  What the user copies, on either side,    *)
(* changes between any two steps.                                          *)
(***************************************************************************)
EXTENDS Naturals, SequencesExt

CONSTANTS
    HostTexts,      \* texts the user copies on the host
    GuestTexts,     \* texts the user copies in the guest
    Large,          \* texts over GuestAgentProtocol.maximumClipboardSize
    fingerprint(_), \* ClipboardLoopGuard.fingerprint
    Probes,         \* probes that live at the same time
    Syncs,          \* tasks of the synchronizer that live at the same time
    MaxStarts,      \* bound: calls of start and retry
    MaxCopies,      \* bound: texts the user copies
    MaxFailures     \* bound: requests that fail

Texts == HostTexts \union GuestTexts

(* The fingerprint has 64 bits: the few texts at hand do not collide. *)
ASSUME ConstantsAssumption ==
    /\ HostTexts \intersect GuestTexts = {}
    /\ Large \subseteq Texts
    /\ \A s, t \in Texts : fingerprint(s) = fingerprint(t) => s = t
    /\ \A t \in Texts : fingerprint(t) # <<>>
    /\ {"none", "accepted", "error"} \intersect Texts = {}
    /\ "none" \notin Probes \union Syncs
    /\ "nobody" \notin Syncs
    /\ MaxStarts \in Nat /\ MaxCopies \in Nat /\ MaxFailures \in Nat

VARIABLES
    handler,    \* whether requestHandler is set
    state,      \* GuestToolsCoordinator.state
    probe,      \* connectionTask
    probes,     \* the tasks that run probe()
    syncer,     \* GuestClipboardSynchronizer.task
    syncs,      \* the synchronizer's tasks
    clip,       \* its fields: loop guard, pending text and attempts, and
                \* whether changeCount differs from lastPasteboardChangeCount;
                \* dropped, history: a pending text was given up, none written since
    host,       \* the text on the host's pasteboard
    guest,      \* the text on the guest's clipboard
    queue,      \* requests the daemon has not answered, in order
    copies,     \* what the user has copied, for the bound
    starts,     \* calls of start and retry, for the bound
    failures,   \* failed requests, for the bound
    overlapped  \* history: a cancelled task went on beside its successor

coordinator == <<handler, state, probe, probes, starts>>
clipboards == <<host, guest, copies>>
vars == <<coordinator, syncer, syncs, clip, clipboards, queue, failures, overlapped>>

(* "sleep": between two calls of synchronize; "write", "read": the request
   waits for its answer; "wrote", "got": the answer is on its way. *)
Sync == [pc: {"sleep", "write", "read", "wrote", "got"}, cancelled: BOOLEAN,
         text: Texts \union {"none"},
         answer: Texts \union {"none", "accepted", "error"}]
NoSync == [pc |-> "ended", cancelled |-> FALSE, text |-> "none", answer |-> "none"]

Requests == [by: Syncs \union {"nobody"}, text: Texts \union {"none"}]

Probe == [pc: {"new", "status", "mount", "again"}, cancelled: BOOLEAN]
NoProbe == [pc |-> "ended", cancelled |-> FALSE]

nil == <<>>
Prints == {fingerprint(t) : t \in Texts} \union {nil}
NoClip == [sent |-> nil, applied |-> nil, pending |-> "none",
           attempts |-> 0, changed |-> FALSE, dropped |-> FALSE]

TypeOK ==
    /\ handler \in BOOLEAN
    /\ state \in {"stopped", "checking", "connected", "notConnected", "incompatible"}
    /\ probe \in Probes \union {"none"}
    /\ probes \in [Probes -> Probe \union {NoProbe}]
    /\ syncer \in Syncs \union {"none"}
    /\ syncs \in [Syncs -> Sync \union {NoSync}]
    /\ clip \in [sent: Prints, applied: Prints, pending: Texts \union {"none"},
                 attempts: 0..2, changed: BOOLEAN, dropped: BOOLEAN]
    /\ host \in Texts \union {"none"} /\ guest \in Texts \union {"none"}
    /\ queue \in Seq(Requests)
    /\ copies \in 0..MaxCopies
    /\ starts \in 0..MaxStarts /\ failures \in 0..MaxFailures
    /\ overlapped \in BOOLEAN

Init ==
    /\ handler = FALSE /\ state = "stopped"
    /\ probe = "none" /\ probes = [p \in Probes |-> NoProbe]
    /\ syncer = "none" /\ syncs = [s \in Syncs |-> NoSync]
    /\ clip = NoClip
    /\ host = "none" /\ guest = "none" /\ copies = 0
    /\ queue = <<>>
    /\ starts = 0 /\ failures = 0
    /\ overlapped = FALSE

-----------------------------------------------------------------------------
(* ClipboardLoopGuard                                                       *)

canSendToGuest(text) == fingerprint(text) \notin {clip.applied, clip.sent}

markSentToGuest(text) ==
    [clip EXCEPT !.applied = IF @ = fingerprint(text) THEN @ ELSE nil,
                 !.sent = fingerprint(text), !.dropped = FALSE]

(* Mutant of shouldApplyFromGuest: the host's own text is taken back. *)
MutantAppliesSent(text) == fingerprint(text) # clip.applied

shouldApplyFromGuest(text) == fingerprint(text) \notin {clip.sent, clip.applied}

-----------------------------------------------------------------------------
(* The user                                                                 *)

Copies == copies < MaxCopies /\ copies' = copies + 1

(* The pasteboard counts a copy also when the text is the one it has. *)
CopyOnHost(text) ==
    /\ Copies
    /\ host' = text
    /\ clip' = [clip EXCEPT !.changed = TRUE]
    /\ UNCHANGED <<coordinator, syncer, syncs, guest, queue, failures, overlapped>>

CopyInGuest(text) ==
    /\ Copies
    /\ guest # text
    /\ guest' = text
    /\ UNCHANGED <<coordinator, syncer, syncs, clip, host, queue, failures, overlapped>>

-----------------------------------------------------------------------------
(* GuestToolsCoordinator                                                    *)

CancelProbe ==
    [p \in Probes |-> IF p = probe /\ probes[p] # NoProbe
                      THEN [probes[p] EXCEPT !.cancelled = TRUE]
                      ELSE probes[p]]
CancelSync ==
    [s \in Syncs |-> IF s = syncer THEN [syncs[s] EXCEPT !.cancelled = TRUE]
                     ELSE syncs[s]]

(* GuestClipboardSynchronizer.stop *)
StopSync ==
    /\ syncs' = CancelSync
    /\ syncer' = "none"
    /\ clip' = [clip EXCEPT !.pending = "none", !.attempts = 0]

(* start, of a machine that runs, and retry, of the button: the task of the
   probe is cancelled and another one made. *)
Start ==
    /\ starts < MaxStarts
    /\ starts' = starts + 1
    /\ handler' = TRUE
    /\ state' = "checking"
    /\ \E p \in Probes :
          /\ probes[p] = NoProbe
          /\ probe' = p
          /\ probes' = [CancelProbe EXCEPT ![p] = [pc |-> "new", cancelled |-> FALSE]]
    /\ StopSync
    /\ UNCHANGED <<clipboards, queue, failures, overlapped>>

Stop ==
    /\ handler
    /\ handler' = FALSE
    /\ state' = "stopped"
    /\ probe' = "none"
    /\ probes' = CancelProbe
    /\ StopSync
    /\ UNCHANGED <<starts, clipboards, queue, failures, overlapped>>

ProbeGoes(p, pc) == probes' = [probes EXCEPT ![p].pc = pc]
ProbeEnds(p) == probes' = [probes EXCEPT ![p] = NoProbe]
SyncUnchanged == UNCHANGED <<syncer, syncs, clip>>

ProbeRuns(p) ==
    /\ probes[p].pc = "new"
    /\ IF handler THEN ProbeGoes(p, "status") ELSE ProbeEnds(p)
    /\ SyncUnchanged
    /\ UNCHANGED <<handler, state, probe, starts, clipboards, queue, failures, overlapped>>

(* probe's last part: state = .connected and, for a Wayland guest that can
   read and write its clipboard, GuestClipboardSynchronizer.start. *)
Connected(p) ==
    /\ state' = "connected"
    /\ ProbeEnds(p)
    /\ \/ SyncUnchanged
       \/ \E s \in Syncs :
             /\ syncs[s] = NoSync
             /\ syncer' = s
             /\ syncs' = [CancelSync EXCEPT ![s] = [NoSync EXCEPT !.pc = "sleep"]]
             /\ clip' = NoClip

(* Mutant of ProbeAnswered: the probe does not look whether it is cancelled. *)
MutantNotChecked(p) ==
    /\ probes[p].pc \in {"status", "again"}
    /\ Connected(p)
    /\ UNCHANGED <<handler, probe, starts, clipboards, queue, failures, overlapped>>

(* An answer, and Task.checkCancellation. *)
ProbeAnswered(p) ==
    /\ probes[p].pc \in {"status", "mount", "again"}
    /\ IF probes[p].cancelled
       THEN ProbeEnds(p) /\ SyncUnchanged /\ UNCHANGED state
       ELSE \/ /\ probes[p].pc # "mount"
               /\ state' = "incompatible"
               /\ ProbeEnds(p)
               /\ SyncUnchanged
            \/ /\ probes[p].pc \in {"status", "mount"}
               /\ ProbeGoes(p, IF probes[p].pc = "status" THEN "mount" ELSE "again")
               /\ SyncUnchanged
               /\ UNCHANGED state
            \/ Connected(p)
    /\ UNCHANGED <<handler, probe, starts, clipboards, queue, failures, overlapped>>

(* An error other than a cancellation: that of a status, or of the protocol's
   version, is shown, also by a probe that was cancelled meanwhile; that of the
   mount is a notice. *)
ProbeFailed(p) ==
    /\ probes[p].pc \in {"status", "mount", "again"}
    /\ IF probes[p].pc # "mount"
       THEN /\ state' \in {"notConnected", "incompatible"}
            /\ ProbeEnds(p)
            /\ SyncUnchanged
       ELSE IF probes[p].cancelled
            THEN ProbeEnds(p) /\ SyncUnchanged /\ UNCHANGED state
            ELSE Connected(p)
    /\ UNCHANGED <<handler, probe, starts, clipboards, queue, failures, overlapped>>

-----------------------------------------------------------------------------
(* GuestClipboardSynchronizer.synchronize, between its awaits               *)

Request(s, text) == Append(queue, [by |-> s, text |-> text])
SyncGoes(s, pc, text) ==
    syncs' = [syncs EXCEPT ![s].pc = pc, ![s].text = text, ![s].answer = "none"]
Overlap(s) == overlapped' = (overlapped \/ syncer # s)

(* A changed pasteboard replaces the pending text; a pending text is written,
   otherwise the guest's is read. *)
Poll(s) ==
    LET tooLarge == clip.changed /\ host \in Large
        pending == IF ~clip.changed THEN clip.pending
                   ELSE IF ~tooLarge /\ canSendToGuest(host) THEN host ELSE "none"
    IN
    /\ syncs[s].pc = "sleep"
    /\ ~syncs[s].cancelled
    /\ clip' = [clip EXCEPT !.changed = FALSE, !.pending = pending,
                            !.attempts = IF clip.changed THEN 0 ELSE @,
                            !.dropped = @ \/ (clip.pending # "none" /\ pending = "none")]
    /\ IF tooLarge THEN UNCHANGED <<syncs, queue>>
       ELSE /\ SyncGoes(s, IF pending = "none" THEN "read" ELSE "write", pending)
            /\ queue' = Request(s, pending)
    /\ UNCHANGED <<coordinator, syncer, clipboards, failures, overlapped>>

SyncEnds(s) ==
    /\ syncs[s].pc = "sleep"
    /\ syncs[s].cancelled
    /\ syncs' = [syncs EXCEPT ![s] = NoSync]
    /\ UNCHANGED <<coordinator, syncer, clip, clipboards, queue, failures, overlapped>>


(* The answer to a write; after the third failure the text is given up. *)
Wrote(s) ==
    LET done == syncs[s].answer = "accepted"
        over == done \/ clip.attempts + 1 >= 3
    IN
    /\ syncs[s].pc = "wrote"
    /\ clip' = IF over
               THEN [IF done THEN markSentToGuest(syncs[s].text) ELSE clip
                        EXCEPT !.pending = "none", !.attempts = 0,
                               !.dropped = ~done]
               ELSE [clip EXCEPT !.attempts = @ + 1]
    /\ SyncGoes(s, IF over THEN "read" ELSE "sleep", "none")
    /\ queue' = IF over THEN Request(s, "none") ELSE queue
    /\ Overlap(s)
    /\ UNCHANGED <<coordinator, syncer, clipboards, failures>>

(* The answer to a read. *)
Got(s) ==
    LET text == syncs[s].answer IN
    /\ syncs[s].pc = "got"
    /\ IF text \in Texts \ Large /\ shouldApplyFromGuest(text)
       THEN /\ clip' = [clip EXCEPT !.applied = fingerprint(text),
                                    !.changed = @ /\ host = text]
            /\ host' = text
            /\ Overlap(s)
       ELSE UNCHANGED <<clip, host, overlapped>>
    /\ SyncGoes(s, "sleep", "none")
    /\ UNCHANGED <<coordinator, syncer, guest, copies, queue, failures>>

-----------------------------------------------------------------------------
(* The channel: GuestAgentSocketTransport on the host, serve_stream,        *)
(* dispatch and the session helper in the guest                             *)

Answered(s, answer) ==
    syncs' = [syncs EXCEPT ![s].pc = IF @ = "write" THEN "wrote" ELSE "got",
                           ![s].answer = answer]
Fails == failures < MaxFailures /\ failures' = failures + 1

(* The deadline passes or the connection breaks, or the task was cancelled;
   the request may have reached the guest all the same. *)
RequestFails(s) ==
    /\ syncs[s].pc \in {"write", "read"}
    /\ IF syncs[s].cancelled THEN UNCHANGED failures ELSE Fails
    /\ Answered(s, "error")
    /\ \E k \in DOMAIN queue :
          /\ queue[k].by = s
          /\ \/ queue' = [queue EXCEPT ![k].by = "nobody"]
             \/ queue' = RemoveAt(queue, k)
    /\ UNCHANGED <<coordinator, syncer, clip, clipboards, overlapped>>

(* An answer reaches the connection of its request.  One that comes late is
   lost, or it is read by the connection of the next request, which then
   fails: the identifiers differ.  A reply of the protocol's first version,
   which has no identifier and is accepted unchecked, is left out, and so are
   the connections of vsock, which the daemon serves side by side. *)
Deliver(answer) ==
    LET by == Head(queue).by
        rest == Tail(queue)
    IN
    \/ /\ by # "nobody"
       /\ Answered(by, answer)
       /\ queue' = rest
       /\ UNCHANGED failures
    \/ /\ by = "nobody"
       /\ queue' = rest
       /\ UNCHANGED <<syncs, failures>>
    \/ /\ by = "nobody"
       /\ rest # <<>> /\ rest[1].by # "nobody"
       /\ Answered(rest[1].by, "error")
       /\ Fails
       /\ queue' = [rest EXCEPT ![1].by = "nobody"]

(* The daemon serves the next request: the helper runs wl-copy or wl-paste,
   which fails on an empty or too large clipboard. *)
Serve ==
    /\ queue # <<>>
    /\ IF Head(queue).text # "none"
       THEN guest' = Head(queue).text /\ Deliver("accepted")
       ELSE /\ UNCHANGED guest
            /\ Deliver(IF guest \in Texts \ Large THEN guest ELSE "error")
    /\ UNCHANGED <<coordinator, syncer, clip, host, copies, overlapped>>

(* The helper fails, or none is registered. *)
Reject ==
    /\ queue # <<>>
    /\ Head(queue).by # "nobody"
    /\ Fails
    /\ Answered(Head(queue).by, "error")
    /\ queue' = Tail(queue)
    /\ UNCHANGED <<coordinator, syncer, clip, clipboards, overlapped>>

-----------------------------------------------------------------------------

ProbeStep(p) == ProbeRuns(p) \/ ProbeAnswered(p) \/ ProbeFailed(p)
SyncStep(s) == Poll(s) \/ SyncEnds(s) \/ Wrote(s) \/ Got(s)

Next ==
    \/ \E t \in HostTexts : CopyOnHost(t)
    \/ \E t \in GuestTexts : CopyInGuest(t)
    \/ Start \/ Stop
    \/ \E p \in Probes : ProbeStep(p)
    \/ \E s \in Syncs : SyncStep(s) \/ RequestFails(s)
    \/ Serve \/ Reject

(* Tasks go on, the app is active from time to time, and the daemon serves. *)
Fairness ==
    /\ \A p \in Probes : WF_vars(ProbeStep(p))
    /\ \A s \in Syncs : WF_vars(SyncStep(s))
    /\ WF_vars(Serve)

Spec == Init /\ [][Next]_vars /\ Fairness

-----------------------------------------------------------------------------
(* Properties                                                               *)

(* The only task of the synchronizer not cancelled is the one it holds, while a
   machine runs and its newest probe has found the guest: a probe that stop or
   retry has overtaken starts no other, however late its answer comes. *)
OneSynchronizer ==
    /\ \A s \in Syncs : (syncs[s] # NoSync /\ ~syncs[s].cancelled) <=> s = syncer
    /\ syncer # "none" => handler /\ probes[probe] = NoProbe

(* A task waits for its answer exactly while one request in the queue is its,
   whatever is answered late, given up or cancelled. *)
QueueInv ==
    /\ \A k \in DOMAIN queue :
          queue[k].by # "nobody" => syncs[queue[k].by].pc \in {"write", "read"}
    /\ \A j, k \in DOMAIN queue :
          j # k /\ queue[j].by = queue[k].by => queue[j].by = "nobody"
    /\ \A s \in Syncs : syncs[s].pc \in {"write", "read"} =>
          \E k \in DOMAIN queue : queue[k].by = s

(* Inductive: only the newest probe is not cancelled. *)
SessionInv ==
    /\ TypeOK
    /\ OneSynchronizer
    /\ handler <=> probe # "none"
    /\ \A p \in Probes : probes[p] # NoProbe /\ ~probes[p].cancelled => p = probe
    /\ \A s \in Syncs : syncs[s].pc \in {"write", "wrote"} => syncs[s].text # "none"
    /\ QueueInv

(* What the synchronizer puts on the pasteboard was copied in the guest: the
   host's own text, which the guest's clipboard shows after every write, does
   not come back over what the user has copied since, although requests fail
   and are served after all.  So it is until the connection is made anew,
   which forgets the fingerprints, and as long as no text is given up, by the
   third failure or because the next one is too large: the guest may show that
   text late, and its fingerprint is not known. *)
NoEchoInASession ==
    [][starts <= 1 /\ ~clip.dropped /\ host' # host =>
         host' \in GuestTexts \/ CopyOnHost(host')]_vars

(* Why it holds: in the first session there is one task, and whenever it reads,
   no write is before the daemon and the guest shows a text of its own or the
   one written last, which the loop guard knows. *)
NoWriteQueued == \A k \in DOMAIN queue : queue[k].text = "none"
Settled == NoWriteQueued /\ (guest \in HostTexts => fingerprint(guest) = clip.sent)
Unused == queue = <<>> /\ guest \notin HostTexts /\ \A s \in Syncs : syncs[s] = NoSync

OneSession ==
    /\ \A p \in Probes : probes[p] # NoProbe => starts = 1
    /\ starts = 0 \/ (\E p \in Probes : probes[p] # NoProbe) => Unused
    /\ \A p, q \in Probes : probes[p] # NoProbe /\ probes[q] # NoProbe => p = q
    /\ \A r, s \in Syncs : syncs[r] # NoSync /\ syncs[s] # NoSync => r = s

(* A request that is waited for is the last one before the daemon. *)
AsksLast(s) ==
    syncs[s].pc \in {"write", "read"} =>
        /\ queue # <<>>
        /\ queue[Len(queue)] = [by |-> s, text |-> syncs[s].text]
        /\ syncs[s].pc = "read" => syncs[s].text = "none"

WriteKept(s) ==
    /\ syncs[s].pc \in {"write", "wrote"} =>
          syncs[s].cancelled \/ clip.pending = syncs[s].text
    /\ syncs[s].pc = "wrote" /\ syncs[s].answer = "accepted" =>
          NoWriteQueued /\ (guest \in HostTexts => guest = syncs[s].text)

MayRead(s) ==
    \/ syncs[s].pc \in {"read", "got"}
    \/ syncs[s].pc = "sleep" /\ ~syncs[s].cancelled /\ clip.pending = "none"
ReadSettled(s) ==
    ~clip.dropped =>
        /\ MayRead(s) => Settled
        /\ syncs[s].pc = "got" /\ syncs[s].answer \in HostTexts =>
              fingerprint(syncs[s].answer) = clip.sent

EchoInv ==
    starts <= 1 =>
        OneSession /\ \A s \in Syncs : AsksLast(s) /\ WriteKept(s) /\ ReadSettled(s)

(* The host's text is the one sent last and the guest's the one applied last:
   the loop guard passes neither, so the clipboards differ until a third text
   is copied.  The user brings this about who copies a text on the host, another
   in the guest, and the first one on the host again. *)
CopiedAgain == fingerprint(host) = clip.sent /\ fingerprint(guest) = clip.applied

=============================================================================
