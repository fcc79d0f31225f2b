------------------------- MODULE GuestTools_proofs -------------------------
(***************************************************************************)
(* Proofs for GuestTools: SessionInv is inductive, for any set of texts,   *)
(* of probes and of tasks of the synchronizer; with it EchoInv is, and     *)
(* from both follows NoEchoInASession.                                     *)
(***************************************************************************)
EXTENDS GuestTools, SequenceTheorems, TLAPS

Waits == {"write", "read"}

(* QueueInv of the queue q and the program counters of the tasks y. *)
Matched(q, y) ==
    /\ \A k \in DOMAIN q : q[k].by # "nobody" => y[q[k].by].pc \in Waits
    /\ \A j, k \in DOMAIN q : j # k /\ q[j].by = q[k].by => q[j].by = "nobody"
    /\ \A s \in Syncs : y[s].pc \in Waits => \E k \in DOMAIN q : q[k].by = s

(* q2 is q without its k-th element. *)
Without(q, q2, k) ==
    /\ q2 \in Seq(Requests)
    /\ Len(q2) = Len(q) - 1
    /\ \A j \in 1..Len(q2) : q2[j] = IF j < k THEN q[j] ELSE q[j + 1]

-----------------------------------------------------------------------------
(* The queue                                                                *)

LEMMA QueueElements ==
    ASSUME NEW q \in Seq(Requests)
    PROVE  /\ DOMAIN q = 1..Len(q) /\ Len(q) \in Nat
           /\ \A j \in DOMAIN q : /\ q[j] \in Requests
                                 /\ q[j].by \in Syncs \union {"nobody"}
                                 /\ q[j].text \in Texts \union {"none"}
<1>1. DOMAIN q = 1..Len(q) /\ Len(q) \in Nat
  BY LenProperties
<1>2. \A j \in DOMAIN q : q[j] \in Requests
  BY <1>1, ElementOfSeq
<1>3. QED
  BY <1>1, <1>2 DEF Requests

(* Matched is about the tasks that wait only. *)
LEMMA MatchedSame ==
    ASSUME NEW q \in Seq(Requests), NEW y, NEW y2, Matched(q, y),
           \A r \in Syncs : y2[r].pc \in Waits <=> y[r].pc \in Waits
    PROVE  Matched(q, y2)
<1>1. \A k \in DOMAIN q : q[k].by \in Syncs \union {"nobody"}
  BY QueueElements
<1>2. QED
  BY <1>1 DEF Matched

(* A task that begins to wait has one request in the queue, its own. *)
LEMMA MatchedAppend ==
    ASSUME NEW q \in Seq(Requests), NEW y, NEW y2, NEW s \in Syncs,
           NEW t \in Texts \union {"none"},
           Matched(q, y), y[s].pc \notin Waits, y2[s].pc \in Waits,
           \A r \in Syncs \ {s} : y2[r].pc = y[r].pc
    PROVE  /\ Append(q, [by |-> s, text |-> t]) \in Seq(Requests)
           /\ Matched(Append(q, [by |-> s, text |-> t]), y2)
<1> DEFINE e == [by |-> s, text |-> t]
           q2 == Append(q, e)
<1>1. e \in Requests /\ e.by = s /\ s # "nobody"
  BY ConstantsAssumption DEF Requests
<1>2. /\ q2 \in Seq(Requests) /\ Len(q2) = Len(q) + 1
      /\ \A i \in 1..Len(q) : q2[i] = q[i]
      /\ q2[Len(q) + 1] = e
  BY <1>1, AppendProperties
<1>3. /\ DOMAIN q = 1..Len(q) /\ DOMAIN q2 = 1..(Len(q) + 1) /\ Len(q) \in Nat
      /\ \A k \in DOMAIN q : q[k] \in Requests
  BY <1>2, LenProperties, ElementOfSeq
<1>4. \A k \in DOMAIN q : q[k].by \in Syncs \union {"nobody"} /\ q[k].by # s
  BY <1>1, <1>3 DEF Matched, Requests
<1> HIDE DEF e, q2
<1>5. ASSUME NEW k \in DOMAIN q2, q2[k].by # "nobody" PROVE y2[q2[k].by].pc \in Waits
  <2>1. CASE k = Len(q) + 1
    BY <2>1, <1>1, <1>2
  <2>2. CASE k \in DOMAIN q
    BY <2>2, <1>5, <1>2, <1>3, <1>4 DEF Matched
  <2>3. QED BY <2>1, <2>2, <1>3
<1>6. ASSUME NEW j \in DOMAIN q2, NEW k \in DOMAIN q2, j # k, q2[j].by = q2[k].by
      PROVE  q2[j].by = "nobody"
  <2>1. CASE j \in DOMAIN q /\ k \in DOMAIN q
    BY <2>1, <1>6, <1>2, <1>3 DEF Matched
  <2>2. CASE j = Len(q) + 1 \/ k = Len(q) + 1
    BY <2>2, <1>6, <1>1, <1>2, <1>3, <1>4
  <2>3. QED BY <2>1, <2>2, <1>3
<1>7. ASSUME NEW r \in Syncs, y2[r].pc \in Waits PROVE \E k \in DOMAIN q2 : q2[k].by = r
  <2>1. CASE r = s
    BY <2>1, <1>1, <1>2, <1>3
  <2>2. CASE r # s
    BY <2>2, <1>7, <1>2, <1>3 DEF Matched
  <2>3. QED BY <2>1, <2>2
<1>8. Matched(q2, y2)
  BY <1>5, <1>6, <1>7 DEF Matched
<1>9. QED
  BY <1>2, <1>8 DEF e, q2

(* The task whose request leaves the queue no longer waits. *)
LEMMA MatchedWithout ==
    ASSUME NEW q \in Seq(Requests), NEW q2, NEW y, NEW y2, NEW k \in DOMAIN q,
           Matched(q, y), Without(q, q2, k),
           \A r \in Syncs \ {q[k].by} : y2[r].pc = y[r].pc,
           q[k].by # "nobody" => y2[q[k].by].pc \notin Waits
    PROVE  Matched(q2, y2)
<1>1. /\ DOMAIN q = 1..Len(q) /\ DOMAIN q2 = 1..Len(q2) /\ Len(q) \in Nat
      /\ Len(q2) = Len(q) - 1
      /\ \A j \in DOMAIN q : q[j] \in Requests /\ q[j].by \in Syncs \union {"nobody"}
  <2>1. q2 \in Seq(Requests) /\ Len(q2) = Len(q) - 1
    BY DEF Without
  <2>2. QED BY <2>1, QueueElements
<1> DEFINE at(j) == IF j < k THEN j ELSE j + 1
<1>2. /\ \A j \in DOMAIN q2 : at(j) \in DOMAIN q /\ at(j) # k /\ q2[j] = q[at(j)]
      /\ \A i, j \in DOMAIN q2 : i # j => at(i) # at(j)
      /\ \A i \in DOMAIN q : i # k => \E j \in DOMAIN q2 : at(j) = i
  <2>1. \A j \in DOMAIN q2 : at(j) \in DOMAIN q /\ at(j) # k /\ q2[j] = q[at(j)]
    BY <1>1 DEF Without
  <2>2. \A i, j \in DOMAIN q2 : i # j => at(i) # at(j)
    BY <1>1
  <2>3. ASSUME NEW i \in DOMAIN q, i # k PROVE \E j \in DOMAIN q2 : at(j) = i
    <3>1. CASE i < k
      <4>1. i \in DOMAIN q2 /\ at(i) = i
        BY <3>1, <1>1
      <4>2. QED BY <4>1
    <3>2. CASE i > k
      <4>1. i - 1 \in DOMAIN q2 /\ at(i - 1) = i
        BY <3>2, <1>1
      <4>2. QED BY <4>1
    <3>3. QED BY <2>3, <3>1, <3>2, <1>1
  <2>4. QED BY <2>1, <2>2, <2>3
<1> HIDE DEF at
<1>3. ASSUME NEW j \in DOMAIN q2, q2[j].by # "nobody" PROVE y2[q2[j].by].pc \in Waits
  BY <1>1, <1>2, <1>3 DEF Matched
<1>4. ASSUME NEW i \in DOMAIN q2, NEW j \in DOMAIN q2, i # j, q2[i].by = q2[j].by
      PROVE  q2[i].by = "nobody"
  BY <1>2, <1>4 DEF Matched
<1>5. ASSUME NEW r \in Syncs, y2[r].pc \in Waits PROVE \E j \in DOMAIN q2 : q2[j].by = r
  <2>1. r # q[k].by /\ y[r].pc \in Waits
    BY <1>5, ConstantsAssumption
  <2>2. PICK i \in DOMAIN q : q[i].by = r
    BY <2>1 DEF Matched
  <2>3. QED BY <2>1, <2>2, <1>2
<1>6. QED
  BY <1>3, <1>4, <1>5 DEF Matched

(* The task whose request is given up no longer waits. *)
LEMMA MatchedAbandon ==
    ASSUME NEW q \in Seq(Requests), NEW y, NEW y2, NEW k \in DOMAIN q,
           Matched(q, y), q[k].by # "nobody",
           \A r \in Syncs \ {q[k].by} : y2[r].pc = y[r].pc,
           y2[q[k].by].pc \notin Waits
    PROVE  /\ [q EXCEPT ![k].by = "nobody"] \in Seq(Requests)
           /\ Matched([q EXCEPT ![k].by = "nobody"], y2)
<1> DEFINE e == [q[k] EXCEPT !.by = "nobody"]
           q2 == [q EXCEPT ![k] = e]
<1>1. /\ DOMAIN q = 1..Len(q) /\ Len(q) \in Nat
      /\ \A j \in DOMAIN q : q[j] \in Requests /\ q[j].by \in Syncs \union {"nobody"}
  BY QueueElements
<1>2. e \in Requests /\ e.by = "nobody"
  BY <1>1 DEF Requests
<1> HIDE DEF e
<1>3. /\ q2 \in Seq(Requests) /\ DOMAIN q2 = DOMAIN q
      /\ \A j \in DOMAIN q : q2[j] = IF j = k THEN e ELSE q[j]
  <2>1. k \in 1..Len(q)
    BY <1>1
  <2>2. /\ q2 \in Seq(Requests) /\ Len(q2) = Len(q)
        /\ \A j \in 1..Len(q) : q2[j] = IF j = k THEN e ELSE q[j]
    BY <2>1, <1>2, ExceptSeq
  <2>3. DOMAIN q2 = 1..Len(q)
    BY <2>2, LenProperties
  <2>4. QED BY <2>2, <2>3, <1>1
<1>4. q2 = [q EXCEPT ![k].by = "nobody"]
  BY DEF e
<1> HIDE DEF q2
<1>5. ASSUME NEW j \in DOMAIN q2, q2[j].by # "nobody" PROVE y2[q2[j].by].pc \in Waits
  <2>1. j # k /\ q2[j] = q[j]
    BY <1>5, <1>2, <1>3
  <2>2. q[j].by # q[k].by
    BY <2>1, <1>3 DEF Matched
  <2>3. QED BY <2>1, <2>2, <1>1, <1>3, <1>5 DEF Matched
<1>6. ASSUME NEW i \in DOMAIN q2, NEW j \in DOMAIN q2, i # j, q2[i].by = q2[j].by
      PROVE  q2[i].by = "nobody"
  BY <1>2, <1>3, <1>6 DEF Matched
<1>7. ASSUME NEW r \in Syncs, y2[r].pc \in Waits PROVE \E j \in DOMAIN q2 : q2[j].by = r
  <2>1. r # q[k].by /\ y[r].pc \in Waits
    BY <1>7
  <2>2. PICK i \in DOMAIN q : q[i].by = r
    BY <2>1 DEF Matched
  <2>3. QED BY <2>1, <2>2, <1>3
<1>8. Matched(q2, y2)
  BY <1>5, <1>6, <1>7 DEF Matched
<1>9. QED
  BY <1>3, <1>4, <1>8

LEMMA TailIsWithout ==
    ASSUME NEW q \in Seq(Requests), q # <<>>
    PROVE  /\ Without(q, Tail(q), 1) /\ 1 \in DOMAIN q
           /\ Head(q) = q[1] /\ Head(q) \in Requests
<1>1. /\ Tail(q) \in Seq(Requests) /\ Len(Tail(q)) = Len(q) - 1
      /\ \A i \in 1..Len(Tail(q)) : Tail(q)[i] = q[i + 1]
      /\ Head(q) \in Requests
  BY HeadTailProperties
<1>2. Len(q) \in Nat /\ Len(q) # 0 /\ DOMAIN q = 1..Len(q) /\ Head(q) = q[1]
  BY LenProperties, EmptySeq
<1>3. QED
  BY <1>1, <1>2 DEF Without

LEMMA RemoveAtIsWithout ==
    ASSUME NEW q \in Seq(Requests), NEW k \in DOMAIN q
    PROVE  Without(q, RemoveAt(q, k), k)
<1> DEFINE a == SubSeq(q, 1, k - 1)
           b == SubSeq(q, k + 1, Len(q))
<1>1. Len(q) \in Nat /\ k \in 1..Len(q) /\ \A i \in 1..Len(q) : q[i] \in Requests
  BY LenProperties, ElementOfSeq
<1>2. /\ a \in Seq(Requests) /\ Len(a) = k - 1
      /\ \A i \in 1..(k - 1) : a[i] = q[i]
  <2>1. \A i \in 1..(k - 1) : q[i] \in Requests
    BY <1>1
  <2>2. /\ a \in Seq(Requests) /\ Len(a) = IF 1 <= k - 1 THEN (k - 1) - 1 + 1 ELSE 0
        /\ \A i \in 1..((k - 1) - 1 + 1) : a[i] = q[1 + i - 1]
    BY <2>1, <1>1, SubSeqProperties
  <2> HIDE DEF a
  <2>3. QED BY <2>2, <1>1
<1>3. /\ b \in Seq(Requests) /\ Len(b) = Len(q) - k
      /\ \A i \in 1..(Len(q) - k) : b[i] = q[k + i]
  <2>1. \A i \in (k + 1)..Len(q) : q[i] \in Requests
    BY <1>1
  <2>2. /\ b \in Seq(Requests)
        /\ Len(b) = IF k + 1 <= Len(q) THEN Len(q) - (k + 1) + 1 ELSE 0
        /\ \A i \in 1..(Len(q) - (k + 1) + 1) : b[i] = q[(k + 1) + i - 1]
    BY <2>1, <1>1, SubSeqProperties
  <2> HIDE DEF b
  <2>3. QED BY <2>2, <1>1
<1>4. RemoveAt(q, k) = a \o b
  BY DEF RemoveAt
<1> HIDE DEF a, b
<1>5. /\ a \o b \in Seq(Requests) /\ Len(a \o b) = Len(a) + Len(b)
      /\ \A i \in 1..(Len(a) + Len(b)) :
            (a \o b)[i] = IF i <= Len(a) THEN a[i] ELSE b[i - Len(a)]
  BY <1>2, <1>3, ConcatProperties
<1>6. Len(a \o b) = Len(q) - 1
  BY <1>1, <1>2, <1>3, <1>5
<1>7. ASSUME NEW j \in 1..Len(a \o b)
      PROVE  (a \o b)[j] = IF j < k THEN q[j] ELSE q[j + 1]
  <2>1. CASE j < k
    BY <2>1, <1>1, <1>2, <1>3, <1>5
  <2>2. CASE j >= k
    <3> DEFINE i == j - (k - 1)
    <3>1. (a \o b)[j] = b[i]
      BY <2>2, <1>1, <1>2, <1>3, <1>5
    <3>2. i \in 1..(Len(q) - k) /\ k + i = j + 1
      BY <2>2, <1>1, <1>6
    <3> HIDE DEF i
    <3>3. b[i] = q[k + i]
      BY <3>2, <1>3
    <3>4. (a \o b)[j] = q[j + 1]
      BY <3>1, <3>2, <3>3
    <3>5. ~ j < k
      BY <2>2, <1>1, <1>6
    <3>6. QED BY <3>4, <3>5
  <2>3. QED BY <2>1, <2>2, <1>1, <1>6
<1>8. QED
  BY <1>4, <1>5, <1>6, <1>7 DEF Without

-----------------------------------------------------------------------------
(* The parts of SessionInv, by the state they are about                     *)

States == {"stopped", "checking", "connected", "notConnected", "incompatible"}

ProbeInv ==
    /\ handler \in BOOLEAN
    /\ state \in States
    /\ probe \in Probes \union {"none"}
    /\ probes \in [Probes -> Probe \union {NoProbe}]
    /\ starts \in 0..MaxStarts
    /\ handler <=> probe # "none"
    /\ \A p \in Probes : probes[p] # NoProbe /\ ~probes[p].cancelled => p = probe

TaskInv ==
    /\ syncer \in Syncs \union {"none"}
    /\ \A s \in Syncs : (syncs[s] # NoSync /\ ~syncs[s].cancelled) <=> s = syncer
    /\ syncer # "none" => handler /\ probes[probe] = NoProbe

Clips == [sent: Prints, applied: Prints, pending: Texts \union {"none"},
          attempts: 0..2, changed: BOOLEAN, dropped: BOOLEAN]

ClipInv ==
    /\ clip \in Clips
    /\ host \in Texts \union {"none"} /\ guest \in Texts \union {"none"}
    /\ copies \in 0..MaxCopies
    /\ failures \in 0..MaxFailures /\ overlapped \in BOOLEAN

ChannelInv ==
    /\ syncs \in [Syncs -> Sync \union {NoSync}]
    /\ queue \in Seq(Requests)
    /\ \A s \in Syncs : syncs[s].pc \in {"write", "wrote"} => syncs[s].text # "none"
    /\ Matched(queue, syncs)

LEMMA Parts == SessionInv <=> ProbeInv /\ TaskInv /\ ClipInv /\ ChannelInv
  BY DEF SessionInv, TypeOK, OneSynchronizer, QueueInv, Matched, Waits,
         ProbeInv, TaskInv, ClipInv, ChannelInv, Clips, States

LEMMA PartsNext == (ProbeInv /\ TaskInv /\ ClipInv /\ ChannelInv)' => SessionInv'
  BY DEF SessionInv, TypeOK, OneSynchronizer, QueueInv, Matched, Waits,
         ProbeInv, TaskInv, ClipInv, ChannelInv, Clips, States

(* The pending text is dropped. *)
LEMMA ClipDropped ==
    ASSUME NEW c \in Clips
    PROVE  [c EXCEPT !.pending = "none", !.attempts = 0] \in Clips
<1>1. [c EXCEPT !.pending = "none"] \in Clips
  BY DEF Clips
<1>2. ASSUME NEW d \in Clips PROVE [d EXCEPT !.attempts = 0] \in Clips
  BY DEF Clips
<1>3. QED
  BY <1>1, <1>2

(* What the tasks of the synchronizer are, by their program counter. *)
LEMMA SyncFields ==
    ASSUME ChannelInv, NEW s \in Syncs
    PROVE  /\ syncs[s] # NoSync <=> syncs[s] \in Sync
           /\ syncs[s] # NoSync <=> syncs[s].pc # "ended"
           /\ syncs[s].cancelled \in BOOLEAN
           /\ syncs[s].text \in Texts \union {"none"}
<1>1. syncs[s] \in Sync \/ syncs[s] = NoSync
  BY DEF ChannelInv
<1>2. CASE syncs[s] \in Sync
  BY <1>2 DEF Sync, NoSync
<1>3. CASE syncs[s] = NoSync
  BY <1>3 DEF Sync, NoSync
<1>4. QED
  BY <1>1, <1>2, <1>3

-----------------------------------------------------------------------------
(* The initial states                                                       *)

LEMMA InitInv == Init => SessionInv
<1> SUFFICES ASSUME Init PROVE SessionInv
  OBVIOUS
<1>1. ProbeInv
  <2>1. 0 \in 0..MaxStarts /\ 0 \in 0..MaxFailures
    BY ConstantsAssumption
  <2>2. probes \in [Probes -> Probe \union {NoProbe}] /\ \A p \in Probes : probes[p] = NoProbe
    BY DEF Init
  <2>3. QED BY <2>1, <2>2 DEF Init, ProbeInv, States
<1>2. TaskInv
  BY ConstantsAssumption DEF Init, TaskInv
<1>3. ClipInv
  <2>1. clip \in Clips
    BY DEF Init, NoClip, Clips, Prints
  <2>2. 0 \in 0..MaxCopies /\ 0 \in 0..MaxFailures
    BY ConstantsAssumption
  <2>3. QED BY <2>1, <2>2 DEF Init, ClipInv
<1>4. ChannelInv
  <2>1. queue \in Seq(Requests) /\ DOMAIN queue = {}
    BY EmptySeq DEF Init
  <2>2. \A s \in Syncs : syncs[s].pc = "ended"
    BY DEF Init, NoSync
  <2>3. QED BY <2>1, <2>2 DEF Init, ChannelInv, Matched, Waits
<1>5. QED
  BY <1>1, <1>2, <1>3, <1>4, Parts

-----------------------------------------------------------------------------
(* The user                                                                 *)

LEMMA CopyInv ==
    ASSUME SessionInv, NEW t,
           \/ t \in HostTexts /\ CopyOnHost(t)
           \/ t \in GuestTexts /\ CopyInGuest(t)
    PROVE  SessionInv'
<1> USE Parts
<1>1. ClipInv'
  <2>1. t \in Texts
    BY DEF Texts
  <2>2. clip' \in Clips
    BY DEF CopyOnHost, CopyInGuest, ClipInv, Clips
  <2>3. copies \in 0..MaxCopies /\ Copies
    BY DEF CopyOnHost, CopyInGuest, ClipInv
  <2>4. copies' \in 0..MaxCopies
    BY <2>3, ConstantsAssumption DEF Copies
  <2>5. QED BY <2>1, <2>2, <2>4 DEF CopyOnHost, CopyInGuest, ClipInv
<1>2. ProbeInv' /\ TaskInv' /\ ChannelInv'
  BY DEF CopyOnHost, CopyInGuest, coordinator, ProbeInv, TaskInv, ChannelInv
<1>3. QED
  BY <1>1, <1>2, PartsNext

-----------------------------------------------------------------------------
(* The coordinator                                                          *)

(* Cancelling touches neither the program counters nor the texts. *)
LEMMA CancelSyncKeeps ==
    ASSUME SessionInv
    PROVE  /\ CancelSync \in [Syncs -> Sync \union {NoSync}]
           /\ \A s \in Syncs : CancelSync[s].pc = syncs[s].pc
           /\ \A s \in Syncs : CancelSync[s].text = syncs[s].text
           /\ \A s \in Syncs : CancelSync[s] = NoSync \/ CancelSync[s].cancelled
<1>1. ASSUME NEW s \in Syncs
      PROVE  /\ CancelSync[s] \in Sync \union {NoSync}
             /\ CancelSync[s].pc = syncs[s].pc
             /\ CancelSync[s].text = syncs[s].text
             /\ CancelSync[s] = NoSync \/ CancelSync[s].cancelled
  <2>1. CASE s = syncer
    <3>1. syncs[s] \in Sync /\ CancelSync[s] = [syncs[s] EXCEPT !.cancelled = TRUE]
      BY <2>1, Parts, SyncFields DEF TaskInv, CancelSync
    <3>2. QED BY <3>1 DEF Sync
  <2>2. CASE s # syncer
    BY <2>2, Parts, SyncFields DEF TaskInv, ChannelInv, CancelSync
  <2>3. QED BY <2>1, <2>2
<1>2. QED
  BY <1>1 DEF CancelSync

LEMMA StopSyncInv ==
    ASSUME SessionInv, StopSync, UNCHANGED <<clipboards, queue, failures, overlapped>>
    PROVE  TaskInv' /\ ClipInv' /\ ChannelInv'
<1>1. TaskInv'
  BY CancelSyncKeeps, ConstantsAssumption DEF StopSync, TaskInv
<1>2. ClipInv'
  <2>1. clip' \in Clips
    BY Parts, ClipDropped DEF StopSync, ClipInv
  <2>2. QED BY <2>1, Parts DEF ClipInv, clipboards
<1>3. ChannelInv'
  <2>1. queue' = queue /\ syncs' = CancelSync
    BY DEF StopSync
  <2>2. Matched(queue, syncs) /\ queue \in Seq(Requests)
    BY Parts DEF ChannelInv
  <2>3. Matched(queue', syncs')
    <3>1. \A s \in Syncs : CancelSync[s].pc = syncs[s].pc
      BY CancelSyncKeeps
    <3> HIDE DEF CancelSync
    <3>2. Matched(queue, CancelSync)
      BY <2>2, <3>1, MatchedSame
    <3>3. QED BY <2>1, <3>2
  <2>4. \A s \in Syncs : syncs'[s].pc \in {"write", "wrote"} => syncs'[s].text # "none"
    BY <2>1, Parts, CancelSyncKeeps DEF ChannelInv
  <2>5. QED BY <2>1, <2>2, <2>3, <2>4, CancelSyncKeeps DEF ChannelInv
<1>4. QED
  BY <1>1, <1>2, <1>3

LEMMA CancelProbeKeeps ==
    ASSUME SessionInv
    PROVE  /\ CancelProbe \in [Probes -> Probe \union {NoProbe}]
           /\ \A p \in Probes : CancelProbe[p] = NoProbe \/ CancelProbe[p].cancelled
<1>1. ASSUME NEW p \in Probes
      PROVE  /\ CancelProbe[p] \in Probe \union {NoProbe}
             /\ CancelProbe[p] = NoProbe \/ CancelProbe[p].cancelled
  <2>1. CASE p = probe /\ probes[p] # NoProbe
    <3>1. probes[p] \in Probe /\ CancelProbe[p] = [probes[p] EXCEPT !.cancelled = TRUE]
      BY <2>1, Parts DEF ProbeInv, CancelProbe
    <3>2. QED BY <3>1 DEF Probe
  <2>2. CASE ~(p = probe /\ probes[p] # NoProbe)
    <3>1. CancelProbe[p] = probes[p]
      BY <2>2 DEF CancelProbe
    <3>2. QED BY <2>2, <3>1, Parts DEF ProbeInv
  <2>3. QED BY <2>1, <2>2
<1>2. QED
  BY <1>1 DEF CancelProbe

LEMMA StartInv == SessionInv /\ Start => SessionInv'
<1> SUFFICES ASSUME SessionInv, Start PROVE SessionInv'
  OBVIOUS
<1>1. TaskInv' /\ ClipInv' /\ ChannelInv'
  BY StopSyncInv DEF Start
<1>2. PICK p \in Probes :
        /\ probe' = p
        /\ probes' = [CancelProbe EXCEPT ![p] = [pc |-> "new", cancelled |-> FALSE]]
  BY DEF Start
<1>3. probes' \in [Probes -> Probe \union {NoProbe}]
  <2>1. [pc |-> "new", cancelled |-> FALSE] \in Probe
    BY DEF Probe
  <2>2. QED BY <1>2, <2>1, CancelProbeKeeps
<1>4. \A q \in Probes : probes'[q] # NoProbe /\ ~probes'[q].cancelled => q = p
  BY <1>2, CancelProbeKeeps
<1>5. starts' \in 0..MaxStarts /\ handler' = TRUE /\ state' \in States
  BY Parts, ConstantsAssumption DEF Start, ProbeInv, States
<1>6. ProbeInv'
  BY <1>2, <1>3, <1>4, <1>5, ConstantsAssumption DEF ProbeInv
<1>7. QED
  BY <1>1, <1>6, PartsNext

LEMMA StopInv == SessionInv /\ Stop => SessionInv'
<1> SUFFICES ASSUME SessionInv, Stop PROVE SessionInv'
  OBVIOUS
<1>1. TaskInv' /\ ClipInv' /\ ChannelInv'
  BY StopSyncInv DEF Stop
<1>2. probes' = CancelProbe /\ probe' = "none" /\ handler' = FALSE /\ starts' = starts
  BY DEF Stop
<1>3. state' \in States
  BY DEF Stop, States
<1>4. ProbeInv'
  BY <1>2, <1>3, CancelProbeKeeps, Parts DEF ProbeInv
<1>5. QED
  BY <1>1, <1>4, PartsNext

(* A probe goes on or ends.  One that lives while a task of the synchronizer
   does is not the newest. *)
LEMMA ProbeMoves ==
    ASSUME SessionInv, NEW p \in Probes, probes[p] # NoProbe,
           NEW v \in Probe \union {NoProbe},
           v # NoProbe => v.cancelled = probes[p].cancelled,
           probes' = [probes EXCEPT ![p] = v], state' \in States,
           UNCHANGED <<handler, probe, starts>>
    PROVE  ProbeInv' /\ (syncer # "none" => handler' /\ probes'[probe'] = NoProbe)
<1>1. probes' \in [Probes -> Probe \union {NoProbe}]
  BY Parts DEF ProbeInv
<1>2. \A q \in Probes : probes'[q] # NoProbe /\ ~probes'[q].cancelled => q = probe
  BY Parts DEF ProbeInv
<1>3. ProbeInv'
  BY <1>1, <1>2, Parts DEF ProbeInv
<1>4. ASSUME syncer # "none" PROVE handler' /\ probes'[probe'] = NoProbe
  <2>1. handler /\ probes[probe] = NoProbe /\ probe \in Probes
    BY <1>4, Parts DEF TaskInv, ProbeInv
  <2>2. QED BY <2>1
<1>5. QED
  BY <1>3, <1>4

LEMMA ProbeOnly ==
    ASSUME SessionInv, ProbeInv', SyncUnchanged,
           syncer # "none" => handler' /\ probes'[probe'] = NoProbe,
           UNCHANGED <<clipboards, queue, failures, overlapped>>
    PROVE  SessionInv'
<1>1. TaskInv' /\ ClipInv' /\ ChannelInv'
  BY Parts DEF SyncUnchanged, TaskInv, ClipInv, ChannelInv, clipboards
<1>2. QED
  BY <1>1, PartsNext

LEMMA ProbeGoesInv ==
    ASSUME SessionInv, NEW p \in Probes, probes[p] # NoProbe,
           \/ ProbeEnds(p)
           \/ \E pc \in {"status", "mount", "again"} : ProbeGoes(p, pc),
           state' \in States, UNCHANGED <<handler, probe, starts>>
    PROVE  ProbeInv' /\ (syncer # "none" => handler' /\ probes'[probe'] = NoProbe)
<1>1. CASE ProbeEnds(p)
  BY <1>1, ProbeMoves DEF ProbeEnds
<1>2. ASSUME NEW pc \in {"status", "mount", "again"}, ProbeGoes(p, pc)
      PROVE  ProbeInv' /\ (syncer # "none" => handler' /\ probes'[probe'] = NoProbe)
  <2> DEFINE v == [probes[p] EXCEPT !.pc = pc]
  <2>1. probes[p] \in Probe
    BY Parts DEF ProbeInv
  <2>2. v \in Probe /\ v.cancelled = probes[p].cancelled
    BY <2>1 DEF Probe
  <2>3. probes' = [probes EXCEPT ![p] = v]
    BY <1>2 DEF ProbeGoes
  <2> HIDE DEF v
  <2>4. QED BY <2>2, <2>3, ProbeMoves
<1>3. QED
  BY <1>1, <1>2

(* The newest probe has found the guest. *)
LEMMA ConnectedInv ==
    ASSUME SessionInv, NEW p \in Probes, probes[p] # NoProbe, ~probes[p].cancelled,
           Connected(p),
           UNCHANGED <<handler, probe, starts, clipboards, queue, failures, overlapped>>
    PROVE  SessionInv'
<1>1. state' \in States /\ ProbeEnds(p)
  BY DEF Connected, States
<1>2. ProbeInv' /\ (syncer # "none" => handler' /\ probes'[probe'] = NoProbe)
  BY <1>1, ProbeGoesInv
<1>3. p = probe /\ handler /\ probes'[probe'] = NoProbe
  BY <1>1, Parts, ConstantsAssumption DEF ProbeInv, ProbeEnds
<1>4. CASE SyncUnchanged
  BY <1>4, <1>2, ProbeOnly
<1>5. ASSUME NEW s \in Syncs, syncs[s] = NoSync, syncer' = s,
             syncs' = [CancelSync EXCEPT ![s] = [NoSync EXCEPT !.pc = "sleep"]],
             clip' = NoClip
      PROVE  SessionInv'
  <2> DEFINE new == [NoSync EXCEPT !.pc = "sleep"]
  <2>1. /\ new \in Sync /\ new # NoSync /\ new.pc = "sleep" /\ ~new.cancelled
    BY DEF Sync, NoSync
  <2> HIDE DEF new
  <2>2. /\ syncs' \in [Syncs -> Sync \union {NoSync}]
        /\ syncs'[s] = new /\ \A r \in Syncs \ {s} : syncs'[r] = CancelSync[r]
    BY <1>5, <2>1, CancelSyncKeeps DEF new
  <2>3. TaskInv'
    <3>1. \A r \in Syncs : (syncs'[r] # NoSync /\ ~syncs'[r].cancelled) <=> r = s
      BY <2>1, <2>2, CancelSyncKeeps
    <3>2. QED BY <3>1, <1>3, <1>5 DEF TaskInv
  <2>4. ClipInv'
    <3>1. NoClip \in Clips
      BY DEF NoClip, Clips, Prints
    <3>2. QED BY <3>1, <1>5, Parts DEF ClipInv, clipboards
  <2>5. ChannelInv'
    <3>1. queue' = queue /\ queue \in Seq(Requests) /\ Matched(queue, syncs)
      BY Parts DEF ChannelInv
    <3>2. syncs[s].pc = "ended"
      BY <1>5 DEF NoSync
    <3>3. \A r \in Syncs : syncs'[r].pc \in Waits <=> syncs[r].pc \in Waits
      BY <2>1, <2>2, <3>2, CancelSyncKeeps DEF Waits
    <3>4. Matched(queue, syncs')
      BY <3>1, <3>3, MatchedSame
    <3>5. \A r \in Syncs : syncs'[r].pc \in {"write", "wrote"} => syncs'[r].text # "none"
      BY <2>1, <2>2, CancelSyncKeeps, Parts DEF ChannelInv
    <3>6. QED BY <2>2, <3>1, <3>4, <3>5 DEF ChannelInv
  <2>6. QED BY <2>3, <2>4, <2>5, <1>2, PartsNext
<1>6. QED
  BY <1>4, <1>5 DEF Connected

LEMMA ProbeStepInv ==
    ASSUME SessionInv, NEW p \in Probes, ProbeStep(p)
    PROVE  SessionInv'
<1>1. probes[p] # NoProbe /\ state \in States
  BY Parts DEF ProbeStep, ProbeRuns, ProbeAnswered, ProbeFailed, NoProbe, ProbeInv
<1>2. UNCHANGED <<handler, probe, starts, clipboards, queue, failures, overlapped>>
  BY DEF ProbeStep, ProbeRuns, ProbeAnswered, ProbeFailed
<1>3. CASE /\ \/ ProbeEnds(p)
              \/ \E pc \in {"status", "mount", "again"} : ProbeGoes(p, pc)
           /\ state' \in States
           /\ SyncUnchanged
  BY <1>1, <1>2, <1>3, ProbeGoesInv, ProbeOnly
<1>4. CASE ~probes[p].cancelled /\ Connected(p)
  BY <1>1, <1>2, <1>4, ConnectedInv
<1>5. CASE ProbeRuns(p)
  BY <1>1, <1>3, <1>5 DEF ProbeRuns
<1>6. CASE ProbeAnswered(p)
  <2>1. /\ "incompatible" \in States
        /\ (IF probes[p].pc = "status" THEN "mount" ELSE "again") \in {"status", "mount", "again"}
    BY DEF States
  <2>2. QED BY <1>1, <1>3, <1>4, <1>6, <2>1 DEF ProbeAnswered
<1>7. CASE ProbeFailed(p)
  <2>1. {"notConnected", "incompatible"} \subseteq States
    BY DEF States
  <2>2. QED BY <1>1, <1>3, <1>4, <1>7, <2>1 DEF ProbeFailed
<1>8. QED
  BY <1>5, <1>6, <1>7 DEF ProbeStep

-----------------------------------------------------------------------------
(* The synchronizer                                                         *)

(* One task goes on; whether it is cancelled does not change. *)
LEMMA SyncMoves ==
    ASSUME SessionInv, NEW s \in Syncs, syncs[s] # NoSync,
           NEW v \in Sync, v.cancelled = syncs[s].cancelled,
           v.pc \in {"write", "wrote"} => v.text # "none",
           syncs' = [syncs EXCEPT ![s] = v], UNCHANGED <<coordinator, syncer>>
    PROVE  /\ ProbeInv' /\ TaskInv'
           /\ syncs' \in [Syncs -> Sync \union {NoSync}]
           /\ \A r \in Syncs : syncs'[r].pc \in {"write", "wrote"} => syncs'[r].text # "none"
           /\ syncs'[s] = v
           /\ \A r \in Syncs \ {s} : syncs'[r].pc = syncs[r].pc
<1>1. /\ syncs' \in [Syncs -> Sync \union {NoSync}]
      /\ syncs'[s] = v
      /\ \A r \in Syncs \ {s} : syncs'[r] = syncs[r]
  BY Parts DEF ChannelInv
<1>2. v # NoSync
  BY DEF Sync, NoSync
<1>3. \A r \in Syncs : (syncs'[r] # NoSync /\ ~syncs'[r].cancelled) <=> r = syncer
  BY <1>1, <1>2, Parts DEF TaskInv
<1>4. TaskInv'
  BY <1>3, Parts DEF TaskInv, coordinator
<1>5. ProbeInv'
  BY Parts DEF ProbeInv, coordinator
<1>6. \A r \in Syncs : syncs'[r].pc \in {"write", "wrote"} => syncs'[r].text # "none"
  BY <1>1, Parts DEF ChannelInv
<1>7. QED
  BY <1>1, <1>4, <1>5, <1>6

(* It asks, and so begins to wait. *)
LEMMA SyncAsks ==
    ASSUME SessionInv, NEW s \in Syncs, syncs[s].pc \in {"sleep", "wrote"},
           NEW pc \in {"write", "read"}, NEW t \in Texts \union {"none"},
           pc = "write" => t # "none",
           SyncGoes(s, pc, t), queue' = Request(s, t),
           ClipInv', UNCHANGED <<coordinator, syncer>>
    PROVE  SessionInv'
<1> DEFINE v == [syncs[s] EXCEPT !.pc = pc, !.text = t, !.answer = "none"]
<1>1. syncs[s] \in Sync /\ syncs[s] # NoSync
  BY Parts, SyncFields
<1>2. v \in Sync /\ v.cancelled = syncs[s].cancelled /\ v.pc = pc /\ v.text = t
  BY <1>1 DEF Sync
<1>3. syncs' = [syncs EXCEPT ![s] = v]
  BY DEF SyncGoes
<1> HIDE DEF v
<1>4. /\ ProbeInv' /\ TaskInv'
      /\ syncs' \in [Syncs -> Sync \union {NoSync}]
      /\ \A r \in Syncs : syncs'[r].pc \in {"write", "wrote"} => syncs'[r].text # "none"
      /\ syncs'[s] = v
      /\ \A r \in Syncs \ {s} : syncs'[r].pc = syncs[r].pc
  BY <1>1, <1>2, <1>3, SyncMoves
<1>5. /\ queue \in Seq(Requests) /\ Matched(queue, syncs)
      /\ syncs[s].pc \notin Waits /\ syncs'[s].pc \in Waits
  BY <1>2, <1>4, Parts DEF ChannelInv, Waits
<1>6. queue' \in Seq(Requests) /\ Matched(queue', syncs')
  BY <1>4, <1>5, MatchedAppend DEF Request
<1>7. QED
  BY <1>4, <1>6, PartsNext DEF ChannelInv

(* It goes to sleep. *)
LEMMA SyncSleeps ==
    ASSUME SessionInv, NEW s \in Syncs, syncs[s].pc \in {"wrote", "got"},
           SyncGoes(s, "sleep", "none"), queue' = queue,
           ClipInv', UNCHANGED <<coordinator, syncer>>
    PROVE  SessionInv'
<1> DEFINE v == [syncs[s] EXCEPT !.pc = "sleep", !.text = "none", !.answer = "none"]
<1>1. syncs[s] \in Sync /\ syncs[s] # NoSync
  BY Parts, SyncFields
<1>2. v \in Sync /\ v.cancelled = syncs[s].cancelled /\ v.pc = "sleep"
  BY <1>1 DEF Sync
<1>3. syncs' = [syncs EXCEPT ![s] = v]
  BY DEF SyncGoes
<1> HIDE DEF v
<1>4. /\ ProbeInv' /\ TaskInv'
      /\ syncs' \in [Syncs -> Sync \union {NoSync}]
      /\ \A r \in Syncs : syncs'[r].pc \in {"write", "wrote"} => syncs'[r].text # "none"
      /\ syncs'[s] = v
      /\ \A r \in Syncs \ {s} : syncs'[r].pc = syncs[r].pc
  BY <1>1, <1>2, <1>3, SyncMoves
<1>5. \A r \in Syncs : syncs'[r].pc \in Waits <=> syncs[r].pc \in Waits
  BY <1>2, <1>4 DEF Waits
<1>6. Matched(queue', syncs')
  BY <1>5, MatchedSame, Parts DEF ChannelInv
<1>7. QED
  BY <1>4, <1>6, Parts, PartsNext DEF ChannelInv

(* The types of the synchronizer's fields, one assignment at a time. *)
LEMMA ClipSet ==
    ASSUME NEW c \in Clips
    PROVE  /\ \A x \in Prints : [c EXCEPT !.sent = x] \in Clips
           /\ \A x \in Prints : [c EXCEPT !.applied = x] \in Clips
           /\ \A x \in Texts \union {"none"} : [c EXCEPT !.pending = x] \in Clips
           /\ \A x \in 0..2 : [c EXCEPT !.attempts = x] \in Clips
           /\ \A x \in BOOLEAN : [c EXCEPT !.changed = x] \in Clips
           /\ \A x \in BOOLEAN : [c EXCEPT !.dropped = x] \in Clips
  BY DEF Clips

LEMMA PollInv ==
    ASSUME SessionInv, NEW s \in Syncs, Poll(s)
    PROVE  SessionInv'
<1> DEFINE tooLarge == clip.changed /\ host \in Large
           pending == IF ~clip.changed THEN clip.pending
                      ELSE IF ~tooLarge /\ canSendToGuest(host) THEN host ELSE "none"
           n == IF clip.changed THEN 0 ELSE clip.attempts
           lost == clip.dropped \/ (clip.pending # "none" /\ pending = "none")
<1>1. clip \in Clips
  BY Parts DEF ClipInv
<1>2. pending \in Texts \union {"none"} /\ n \in 0..2 /\ lost \in BOOLEAN
  <2>1. clip.pending \in Texts \union {"none"} /\ clip.attempts \in 0..2
        /\ clip.dropped \in BOOLEAN
    BY <1>1 DEF Clips
  <2>2. host \in Texts \union {"none"}
    BY Parts DEF ClipInv
  <2>3. QED BY <2>1, <2>2
<1>3. /\ syncs[s].pc = "sleep"
      /\ clip' = [clip EXCEPT !.changed = FALSE, !.pending = pending, !.attempts = n,
                              !.dropped = lost]
      /\ IF tooLarge THEN UNCHANGED <<syncs, queue>>
         ELSE /\ SyncGoes(s, IF pending = "none" THEN "read" ELSE "write", pending)
              /\ queue' = Request(s, pending)
      /\ UNCHANGED <<coordinator, syncer, clipboards, failures, overlapped>>
  BY DEF Poll
<1> HIDE DEF pending, n, tooLarge, lost
<1>4. clip' \in Clips
  <2>1. [clip EXCEPT !.changed = FALSE] \in Clips
    BY <1>1, ClipSet
  <2>2. [clip EXCEPT !.changed = FALSE, !.pending = pending] \in Clips
    BY <2>1, <1>2, ClipSet
  <2>3. [clip EXCEPT !.changed = FALSE, !.pending = pending, !.attempts = n] \in Clips
    BY <2>2, <1>2, ClipSet
  <2>4. QED BY <2>3, <1>2, <1>3, ClipSet
<1>5. ClipInv'
  BY <1>3, <1>4, Parts DEF ClipInv, clipboards
<1>6. CASE tooLarge
  <2>1. UNCHANGED <<coordinator, syncer, syncs, queue>>
    BY <1>3, <1>6
  <2>2. ProbeInv' /\ TaskInv' /\ ChannelInv'
    BY <2>1, Parts DEF coordinator, ProbeInv, TaskInv, ChannelInv
  <2>3. QED BY <2>2, <1>5, PartsNext
<1>7. CASE ~tooLarge
  <2> DEFINE pc == IF pending = "none" THEN "read" ELSE "write"
  <2>1. SyncGoes(s, pc, pending) /\ queue' = Request(s, pending)
    BY <1>3, <1>7
  <2>2. pc \in {"write", "read"} /\ (pc = "write" => pending # "none")
    OBVIOUS
  <2> HIDE DEF pc
  <2>3. QED BY <2>1, <2>2, <1>2, <1>3, <1>5, SyncAsks
<1>8. QED
  BY <1>6, <1>7

LEMMA SyncEndsInv ==
    ASSUME SessionInv, NEW s \in Syncs, SyncEnds(s)
    PROVE  SessionInv'
<1>1. /\ syncs[s].pc = "sleep" /\ syncs[s].cancelled
      /\ syncs' = [syncs EXCEPT ![s] = NoSync]
      /\ UNCHANGED <<coordinator, syncer, clip, clipboards, queue, failures, overlapped>>
  BY DEF SyncEnds
<1>2. /\ syncs' \in [Syncs -> Sync \union {NoSync}]
      /\ syncs'[s] = NoSync
      /\ \A r \in Syncs \ {s} : syncs'[r] = syncs[r]
  BY <1>1, Parts DEF ChannelInv
<1>3. NoSync.pc = "ended"
  BY DEF NoSync
<1>4. TaskInv'
  <2>1. s # syncer
    BY <1>1, Parts DEF TaskInv
  <2>2. \A r \in Syncs : (syncs'[r] # NoSync /\ ~syncs'[r].cancelled) <=> r = syncer
    BY <1>2, <2>1, Parts DEF TaskInv
  <2>3. QED BY <1>1, <2>2, Parts DEF TaskInv, coordinator
<1>5. ProbeInv' /\ ClipInv'
  BY <1>1, Parts DEF ProbeInv, ClipInv, coordinator, clipboards
<1>6. ChannelInv'
  <2>1. \A r \in Syncs : syncs'[r].pc \in Waits <=> syncs[r].pc \in Waits
    BY <1>1, <1>2, <1>3 DEF Waits
  <2>2. Matched(queue', syncs')
    BY <1>1, <2>1, MatchedSame, Parts DEF ChannelInv
  <2>3. \A r \in Syncs : syncs'[r].pc \in {"write", "wrote"} => syncs'[r].text # "none"
    BY <1>2, <1>3, Parts DEF ChannelInv
  <2>4. QED BY <1>1, <1>2, <2>2, <2>3, Parts DEF ChannelInv
<1>7. QED
  BY <1>4, <1>5, <1>6, PartsNext

LEMMA WroteInv ==
    ASSUME SessionInv, NEW s \in Syncs, Wrote(s)
    PROVE  SessionInv'
<1> DEFINE done == syncs[s].answer = "accepted"
           over == done \/ clip.attempts + 1 >= 3
           c == IF done THEN markSentToGuest(syncs[s].text) ELSE clip
<1>1. /\ syncs[s].pc = "wrote"
      /\ clip' = IF over THEN [c EXCEPT !.pending = "none", !.attempts = 0,
                                        !.dropped = ~done]
                 ELSE [clip EXCEPT !.attempts = @ + 1]
      /\ SyncGoes(s, IF over THEN "read" ELSE "sleep", "none")
      /\ queue' = IF over THEN Request(s, "none") ELSE queue
      /\ Overlap(s)
      /\ UNCHANGED <<coordinator, syncer, clipboards, failures>>
  BY DEF Wrote
<1>2. clip \in Clips
  BY Parts DEF ClipInv
<1>3. c \in Clips
  <2>1. syncs[s].text \in Texts
    BY <1>1, Parts, SyncFields DEF ChannelInv
  <2>2. fingerprint(syncs[s].text) \in Prints /\ nil \in Prints /\ clip.applied \in Prints
    BY <1>2, <2>1 DEF Prints, Clips
  <2> DEFINE a == IF clip.applied = fingerprint(syncs[s].text) THEN clip.applied ELSE nil
  <2>3. a \in Prints
    BY <2>2
  <2>4. markSentToGuest(syncs[s].text)
           = [[[clip EXCEPT !.applied = a] EXCEPT !.sent = fingerprint(syncs[s].text)]
                 EXCEPT !.dropped = FALSE]
    BY DEF markSentToGuest
  <2> HIDE DEF a
  <2>5. [clip EXCEPT !.applied = a] \in Clips
    BY <1>2, <2>3, ClipSet
  <2>6. markSentToGuest(syncs[s].text) \in Clips
    BY <2>2, <2>4, <2>5, ClipSet
  <2>7. QED BY <1>2, <2>6
<1>4. clip' \in Clips
  <2>1. CASE over
    <3>1. [c EXCEPT !.pending = "none", !.attempts = 0] \in Clips
      BY <1>3, ClipDropped
    <3>2. (~done) \in BOOLEAN
      OBVIOUS
    <3> HIDE DEF c, done
    <3>3. QED BY <1>1, <2>1, <3>1, <3>2, ClipSet
  <2>2. CASE ~over
    <3>1. clip.attempts + 1 \in 0..2
      BY <1>2, <2>2 DEF Clips
    <3>2. QED BY <1>1, <1>2, <2>2, <3>1, ClipSet
  <2>3. QED BY <2>1, <2>2
<1>5. ClipInv'
  BY <1>1, <1>4, Parts DEF ClipInv, clipboards, Overlap
<1> HIDE DEF done, c
<1>6. CASE over
  <2>1. SyncGoes(s, "read", "none") /\ queue' = Request(s, "none")
    BY <1>1, <1>6
  <2>2. QED BY <2>1, <1>1, <1>5, SyncAsks
<1>7. CASE ~over
  <2>1. SyncGoes(s, "sleep", "none") /\ queue' = queue
    BY <1>1, <1>7
  <2>2. QED BY <2>1, <1>1, <1>5, SyncSleeps
<1>8. QED
  BY <1>6, <1>7

LEMMA GotInv ==
    ASSUME SessionInv, NEW s \in Syncs, Got(s)
    PROVE  SessionInv'
<1> DEFINE text == syncs[s].answer
<1>1. /\ syncs[s].pc = "got" /\ SyncGoes(s, "sleep", "none")
      /\ UNCHANGED <<coordinator, syncer, guest, copies, queue, failures>>
  BY DEF Got
<1>2. ClipInv'
  <2>1. CASE text \in Texts \ Large /\ shouldApplyFromGuest(text)
    <3> DEFINE x == clip.changed /\ host = text
    <3>1. /\ clip' = [clip EXCEPT !.applied = fingerprint(text), !.changed = x]
          /\ host' = text /\ Overlap(s)
      BY <2>1 DEF Got
    <3>2. clip \in Clips /\ fingerprint(text) \in Prints /\ x \in BOOLEAN
      BY <2>1, Parts DEF ClipInv, Prints
    <3> HIDE DEF x
    <3>3. [clip EXCEPT !.applied = fingerprint(text)] \in Clips
      BY <3>2, ClipSet
    <3>4. clip' \in Clips
      BY <3>1, <3>2, <3>3, ClipSet
    <3>5. QED BY <1>1, <2>1, <3>1, <3>4, Parts DEF ClipInv, Overlap
  <2>2. CASE ~(text \in Texts \ Large /\ shouldApplyFromGuest(text))
    <3>1. UNCHANGED <<clip, host, overlapped>>
      BY <2>2 DEF Got
    <3>2. QED BY <1>1, <3>1, Parts DEF ClipInv
  <2>3. QED BY <2>1, <2>2
<1>3. QED
  BY <1>1, <1>2, SyncSleeps

-----------------------------------------------------------------------------
(* The channel                                                              *)

(* A task gets its answer and no longer waits; its request has left the queue
   or nobody waits for it. *)
LEMMA AnsweredInv ==
    ASSUME SessionInv, NEW s \in Syncs, syncs[s].pc \in Waits,
           NEW a \in Texts \union {"accepted", "error"}, Answered(s, a),
           NEW k \in DOMAIN queue, queue[k].by = s,
           \/ Without(queue, queue', k)
           \/ queue' = [queue EXCEPT ![k].by = "nobody"],
           ClipInv', UNCHANGED <<coordinator, syncer>>
    PROVE  SessionInv'
<1> DEFINE pc == IF syncs[s].pc = "write" THEN "wrote" ELSE "got"
           v == [syncs[s] EXCEPT !.pc = pc, !.answer = a]
<1>1. syncs[s] \in Sync /\ syncs[s] # NoSync
  BY Parts, SyncFields DEF Waits
<1>2. /\ v \in Sync /\ v.cancelled = syncs[s].cancelled
      /\ v.pc = pc /\ v.text = syncs[s].text
  BY <1>1 DEF Sync
<1>3. syncs' = [syncs EXCEPT ![s] = v]
  BY DEF Answered
<1>4. v.pc \in {"write", "wrote"} => v.text # "none"
  BY <1>2, Parts DEF ChannelInv
<1>5. v.pc \notin Waits
  BY <1>2 DEF Waits
<1> HIDE DEF v, pc
<1>6. /\ ProbeInv' /\ TaskInv'
      /\ syncs' \in [Syncs -> Sync \union {NoSync}]
      /\ \A r \in Syncs : syncs'[r].pc \in {"write", "wrote"} => syncs'[r].text # "none"
      /\ syncs'[s] = v
      /\ \A r \in Syncs \ {s} : syncs'[r].pc = syncs[r].pc
  BY <1>1, <1>2, <1>3, <1>4, SyncMoves
<1>7. /\ queue \in Seq(Requests) /\ Matched(queue, syncs)
      /\ syncs'[s].pc \notin Waits /\ s # "nobody"
  BY <1>5, <1>6, Parts, ConstantsAssumption DEF ChannelInv
<1>8. queue' \in Seq(Requests) /\ Matched(queue', syncs')
  <2>1. CASE Without(queue, queue', k)
    <3>1. queue' \in Seq(Requests)
      BY <2>1 DEF Without
    <3>2. Matched(queue', syncs')
      BY <2>1, <1>6, <1>7, MatchedWithout
    <3>3. QED BY <3>1, <3>2
  <2>2. CASE queue' = [queue EXCEPT ![k].by = "nobody"]
    BY <2>2, <1>6, <1>7, MatchedAbandon
  <2>3. QED BY <2>1, <2>2
<1>9. QED
  BY <1>6, <1>8, PartsNext DEF ChannelInv

LEMMA FailsType ==
    ASSUME ClipInv, Fails \/ UNCHANGED failures
    PROVE  failures' \in 0..MaxFailures
  BY ConstantsAssumption DEF ClipInv, Fails

LEMMA RequestFailsInv ==
    ASSUME SessionInv, NEW s \in Syncs, RequestFails(s)
    PROVE  SessionInv'
<1>1. /\ syncs[s].pc \in Waits /\ Answered(s, "error")
      /\ UNCHANGED <<coordinator, syncer, clip, clipboards, overlapped>>
      /\ Fails \/ UNCHANGED failures
  BY DEF RequestFails, Waits
<1>2. ClipInv'
  BY <1>1, Parts, FailsType DEF ClipInv, clipboards
<1>3. PICK k \in DOMAIN queue :
        /\ queue[k].by = s
        /\ \/ queue' = [queue EXCEPT ![k].by = "nobody"]
           \/ queue' = RemoveAt(queue, k)
  BY DEF RequestFails
<1>4. queue' = RemoveAt(queue, k) => Without(queue, queue', k)
  BY RemoveAtIsWithout, Parts DEF ChannelInv
<1>5. QED
  BY <1>1, <1>2, <1>3, <1>4, AnsweredInv

(* The request at the head is answered, whoever still waits. *)
LEMMA DeliverInv ==
    ASSUME SessionInv, queue # <<>>, NEW a \in Texts \union {"accepted", "error"},
           Deliver(a), guest' \in Texts \union {"none"},
           UNCHANGED <<coordinator, syncer, clip, host, copies, overlapped>>
    PROVE  SessionInv'
<1> DEFINE by == Head(queue).by
           rest == Tail(queue)
<1>1. queue \in Seq(Requests) /\ Matched(queue, syncs)
  BY Parts DEF ChannelInv
<1>2. /\ Without(queue, rest, 1) /\ 1 \in DOMAIN queue
      /\ by = queue[1].by /\ by \in Syncs \union {"nobody"}
  BY <1>1, TailIsWithout DEF Requests
<1>3. Fails \/ UNCHANGED failures
  BY DEF Deliver
<1>4. ClipInv'
  BY <1>3, Parts, FailsType DEF ClipInv
<1>5. CASE by # "nobody" /\ Answered(by, a) /\ queue' = rest
  <2>1. by \in Syncs /\ syncs[by].pc \in Waits
    BY <1>1, <1>2, <1>5 DEF Matched
  <2>2. Without(queue, queue', 1)
    BY <1>2, <1>5
  <2> HIDE DEF by, rest
  <2>3. QED BY <1>2, <1>4, <1>5, <2>1, <2>2, AnsweredInv
<1>6. CASE by = "nobody" /\ queue' = rest /\ UNCHANGED syncs
  <2>1. Without(queue, queue', 1)
    BY <1>2, <1>6
  <2>2. Matched(queue', syncs')
    <3>1. \A r \in Syncs \ {queue[1].by} : syncs[r].pc = syncs[r].pc
      OBVIOUS
    <3>2. queue[1].by # "nobody" => syncs[queue[1].by].pc \notin Waits
      BY <1>2, <1>6
    <3>3. Matched(queue', syncs)
      BY <1>1, <1>2, <2>1, <3>1, <3>2, MatchedWithout
    <3>4. QED BY <3>3, <1>6
  <2>3. queue' \in Seq(Requests)
    BY <2>1 DEF Without
  <2>4. ChannelInv'
    BY <1>6, <2>2, <2>3, Parts DEF ChannelInv
  <2>5. ProbeInv' /\ TaskInv'
    BY <1>6, Parts DEF ProbeInv, TaskInv, coordinator
  <2>6. QED BY <2>4, <2>5, <1>4, PartsNext
<1>7. ASSUME by = "nobody", rest # <<>>, rest[1].by # "nobody",
             Answered(rest[1].by, "error"), queue' = [rest EXCEPT ![1].by = "nobody"]
      PROVE  SessionInv'
  <2> DEFINE s == rest[1].by
             v == [syncs[s] EXCEPT !.pc = IF syncs[s].pc = "write" THEN "wrote" ELSE "got",
                                   !.answer = "error"]
  <2>1. rest \in Seq(Requests)
    BY <1>2 DEF Without
  <2>2. 1 \in DOMAIN rest /\ s \in Syncs
    BY <1>7, <2>1, TailIsWithout, QueueElements
  <2>3. Matched(rest, syncs)
    <3>1. \A r \in Syncs \ {queue[1].by} : syncs[r].pc = syncs[r].pc
      OBVIOUS
    <3>2. queue[1].by # "nobody" => syncs[queue[1].by].pc \notin Waits
      BY <1>2, <1>7
    <3> HIDE DEF rest
    <3>3. QED BY <1>1, <1>2, <3>1, <3>2, MatchedWithout
  <2> HIDE DEF rest, by
  <2>4. syncs[s].pc \in Waits
    BY <2>2, <2>3, <1>7 DEF Matched
  <2>5. syncs[s] \in Sync /\ syncs[s] # NoSync
    BY <2>2, <2>4, Parts, SyncFields DEF Waits
  <2>6. /\ v \in Sync /\ v.cancelled = syncs[s].cancelled
        /\ v.pc = (IF syncs[s].pc = "write" THEN "wrote" ELSE "got")
        /\ v.text = syncs[s].text
    BY <2>5 DEF Sync
  <2>7. syncs' = [syncs EXCEPT ![s] = v]
    BY <1>7 DEF Answered
  <2>8. v.pc \in {"write", "wrote"} => v.text # "none"
    BY <2>2, <2>6, Parts DEF ChannelInv
  <2>9. v.pc \notin Waits
    BY <2>6 DEF Waits
  <2> HIDE DEF v
  <2>10. s = rest[1].by
    OBVIOUS
  <2> HIDE DEF s
  <2>11. /\ ProbeInv' /\ TaskInv'
         /\ syncs' \in [Syncs -> Sync \union {NoSync}]
         /\ \A r \in Syncs : syncs'[r].pc \in {"write", "wrote"} => syncs'[r].text # "none"
         /\ syncs'[s] = v
         /\ \A r \in Syncs \ {s} : syncs'[r].pc = syncs[r].pc
    BY <2>2, <2>5, <2>6, <2>7, <2>8, SyncMoves
  <2>12. queue' \in Seq(Requests) /\ Matched(queue', syncs')
    BY <1>7, <2>1, <2>2, <2>3, <2>9, <2>10, <2>11, MatchedAbandon
  <2>13. QED BY <1>4, <2>11, <2>12, PartsNext DEF ChannelInv
<1>8. QED
  BY <1>5, <1>6, <1>7 DEF Deliver

LEMMA ServeInv == SessionInv /\ Serve => SessionInv'
<1> SUFFICES ASSUME SessionInv, Serve PROVE SessionInv'
  OBVIOUS
<1>1. queue # <<>> /\ UNCHANGED <<coordinator, syncer, clip, host, copies, overlapped>>
  BY DEF Serve
<1>2. Head(queue).text \in Texts \union {"none"} /\ guest \in Texts \union {"none"}
  BY <1>1, TailIsWithout, Parts DEF ChannelInv, Requests, ClipInv
<1>3. CASE Head(queue).text # "none"
  BY <1>1, <1>2, <1>3, DeliverInv DEF Serve
<1>4. CASE Head(queue).text = "none"
  <2> DEFINE a == IF guest \in Texts \ Large THEN guest ELSE "error"
  <2>1. a \in Texts \union {"accepted", "error"} /\ Deliver(a) /\ guest' = guest
    BY <1>4 DEF Serve
  <2> HIDE DEF a
  <2>2. QED BY <1>1, <1>2, <2>1, DeliverInv
<1>5. QED
  BY <1>3, <1>4

LEMMA RejectInv == SessionInv /\ Reject => SessionInv'
<1> SUFFICES ASSUME SessionInv, Reject PROVE SessionInv'
  OBVIOUS
<1>1. /\ queue # <<>> /\ Head(queue).by # "nobody" /\ Fails
      /\ Answered(Head(queue).by, "error") /\ queue' = Tail(queue)
      /\ UNCHANGED <<coordinator, syncer, clip, clipboards, overlapped>>
  BY DEF Reject
<1>2. queue \in Seq(Requests) /\ Matched(queue, syncs)
  BY Parts DEF ChannelInv
<1>3. /\ Without(queue, queue', 1) /\ 1 \in DOMAIN queue
      /\ Head(queue) = queue[1] /\ queue[1].by \in Syncs
  BY <1>1, <1>2, TailIsWithout DEF Requests
<1>4. syncs[queue[1].by].pc \in Waits /\ Answered(queue[1].by, "error")
  BY <1>1, <1>2, <1>3 DEF Matched
<1>5. ClipInv'
  BY <1>1, Parts, FailsType DEF ClipInv, clipboards
<1>6. QED
  BY <1>1, <1>3, <1>4, <1>5, AnsweredInv

-----------------------------------------------------------------------------

LEMMA NextInv == SessionInv /\ [Next]_vars => SessionInv'
<1> SUFFICES ASSUME SessionInv, [Next]_vars PROVE SessionInv'
  OBVIOUS
<1>1. CASE UNCHANGED vars
  <2>1. ProbeInv' /\ TaskInv' /\ ClipInv' /\ ChannelInv'
    BY <1>1, Parts DEF vars, coordinator, clipboards,
                       ProbeInv, TaskInv, ClipInv, ChannelInv
  <2>2. QED BY <2>1, PartsNext
<1>2. CASE Next
  <2>1. ASSUME NEW t \in HostTexts, CopyOnHost(t) PROVE SessionInv'
    BY <2>1, CopyInv
  <2>2. ASSUME NEW t \in GuestTexts, CopyInGuest(t) PROVE SessionInv'
    BY <2>2, CopyInv
  <2>3. ASSUME NEW p \in Probes, ProbeStep(p) PROVE SessionInv'
    BY <2>3, ProbeStepInv
  <2>4. ASSUME NEW s \in Syncs, SyncStep(s) PROVE SessionInv'
    BY <2>4, PollInv, SyncEndsInv, WroteInv, GotInv DEF SyncStep
  <2>5. ASSUME NEW s \in Syncs, RequestFails(s) PROVE SessionInv'
    BY <2>5, RequestFailsInv
  <2>6. QED
    BY <1>2, <2>1, <2>2, <2>3, <2>4, <2>5, StartInv, StopInv, ServeInv, RejectInv DEF Next
<1>3. QED
  BY <1>1, <1>2

(* SessionInv holds in every reachable state of the coordinator, the
   synchronizer, the transport and the daemon: the newest probe is the only
   one that is not cancelled, and each task that waits for an answer has
   exactly one request before the daemon. *)
THEOREM SessionTheorem == Spec => []SessionInv
  BY InitInv, NextInv, PTL DEF Spec

(* A probe that GuestToolsCoordinator.stop or retry has overtaken never starts
   a second synchronizer, nor one for a machine that was stopped. *)
THEOREM OneSynchronizerTheorem == Spec => []OneSynchronizer
<1>1. SessionInv => OneSynchronizer
  BY DEF SessionInv
<1>2. QED
  BY <1>1, SessionTheorem, PTL

-----------------------------------------------------------------------------
(* The first session: EchoInv.  Its task is the only one that lives, so a step
   has to keep what EchoInv says of that task.                              *)

LEMMA Alone ==
    ASSUME EchoInv, starts <= 1, NEW s \in Syncs, syncs[s] # NoSync
    PROVE  /\ \A r \in Syncs \ {s} : syncs[r] = NoSync
           /\ \A p \in Probes : probes[p] = NoProbe
           /\ starts # 0
           /\ AsksLast(s) /\ WriteKept(s) /\ ReadSettled(s)
  BY DEF EchoInv, OneSession, Unused

LEMMA OneMoves ==
    ASSUME EchoInv, starts <= 1, NEW s \in Syncs, syncs[s] # NoSync,
           \A r \in Syncs \ {s} : syncs'[r] = syncs[r], UNCHANGED coordinator,
           AsksLast(s)', WriteKept(s)', ReadSettled(s)'
    PROVE  EchoInv'
<1>1. /\ \A r \in Syncs \ {s} : syncs'[r] = NoSync
      /\ \A p \in Probes : probes'[p] = NoProbe
      /\ starts' # 0
  BY Alone DEF coordinator
<1>2. OneSession'
  BY <1>1 DEF OneSession
<1>3. ASSUME NEW r \in Syncs \ {s} PROVE AsksLast(r)' /\ WriteKept(r)' /\ ReadSettled(r)'
  BY <1>1 DEF AsksLast, WriteKept, ReadSettled, MayRead, NoSync
<1>4. QED
  BY <1>2, <1>3 DEF EchoInv

LEMMA AllEnded ==
    ASSUME \A s \in Syncs : syncs'[s] = NoSync, \A p \in Probes : probes'[p] = NoProbe,
           starts' # 0
    PROVE  EchoInv'
  BY DEF EchoInv, OneSession, AsksLast, WriteKept, ReadSettled, MayRead, NoSync

(* The requests before the daemon: those that nobody waits for and, last, the
   one the task waits for. *)
LEMMA OwnRequest ==
    ASSUME SessionInv, EchoInv, starts <= 1, NEW s \in Syncs, syncs[s] # NoSync
    PROVE  /\ \A k \in DOMAIN queue : queue[k].by \in {s, "nobody"}
           /\ syncs[s].pc \in Waits =>
                /\ Len(queue) \in DOMAIN queue
                /\ queue[Len(queue)] = [by |-> s, text |-> syncs[s].text]
                /\ \A k \in DOMAIN queue : queue[k].by = s => k = Len(queue)
<1>1. queue \in Seq(Requests) /\ Matched(queue, syncs) /\ s # "nobody"
  BY Parts, ConstantsAssumption DEF ChannelInv
<1>2. \A k \in DOMAIN queue : queue[k].by \in {s, "nobody"}
  <2>1. ASSUME NEW k \in DOMAIN queue, queue[k].by # "nobody" PROVE queue[k].by = s
    <3>1. queue[k].by \in Syncs /\ syncs[queue[k].by].pc \in Waits
      BY <1>1, <2>1, QueueElements DEF Matched
    <3>2. syncs[queue[k].by] # NoSync
      BY <3>1 DEF Waits, NoSync
    <3>3. QED BY <3>1, <3>2, Alone
  <2>2. QED BY <2>1
<1>3. ASSUME syncs[s].pc \in Waits
      PROVE  /\ Len(queue) \in DOMAIN queue
             /\ queue[Len(queue)] = [by |-> s, text |-> syncs[s].text]
             /\ \A k \in DOMAIN queue : queue[k].by = s => k = Len(queue)
  <2>1. queue # <<>> /\ queue[Len(queue)] = [by |-> s, text |-> syncs[s].text]
    BY <1>3, Alone DEF AsksLast, Waits
  <2>2. Len(queue) \in DOMAIN queue
    BY <1>1, <2>1, EmptySeq, LenProperties
  <2>3. queue[Len(queue)].by = s
    BY <2>1
  <2>4. QED BY <1>1, <2>1, <2>2, <2>3 DEF Matched
<1>4. QED
  BY <1>2, <1>3

(* The requests that are still before the daemon were there before. *)
OnlyOld == \A j \in DOMAIN queue' : \E k \in DOMAIN queue : queue'[j].text = queue[k].text

LEMMA WithoutIsOld ==
    ASSUME queue \in Seq(Requests), NEW k \in DOMAIN queue, Without(queue, queue', k)
    PROVE  OnlyOld
<1>1. /\ Len(queue) \in Nat /\ DOMAIN queue = 1..Len(queue) /\ k \in 1..Len(queue)
      /\ Len(queue') = Len(queue) - 1 /\ DOMAIN queue' = 1..Len(queue')
  BY LenProperties DEF Without
<1>2. ASSUME NEW j \in DOMAIN queue' PROVE \E i \in DOMAIN queue : queue'[j].text = queue[i].text
  <2>1. j \in 1..(Len(queue) - 1)
    BY <1>1
  <2>2. j \in DOMAIN queue /\ j + 1 \in DOMAIN queue
    BY <1>1, <2>1
  <2>3. queue'[j] = queue[j] \/ queue'[j] = queue[j + 1]
    BY <1>1, <2>1 DEF Without
  <2>4. QED BY <2>2, <2>3
<1>3. QED
  BY <1>2 DEF OnlyOld

LEMMA AbandonedIsOld ==
    ASSUME queue \in Seq(Requests), NEW k \in DOMAIN queue,
           queue' = [queue EXCEPT ![k].by = "nobody"]
    PROVE  OnlyOld
<1>1. ASSUME NEW j \in DOMAIN queue PROVE queue'[j].text = queue[j].text
  <2>1. queue[j] \in Requests
    BY QueueElements
  <2>2. QED BY <2>1 DEF Requests
<1>2. QED
  BY <1>1 DEF OnlyOld

LEMMA OldHasNoWrite == OnlyOld /\ NoWriteQueued => NoWriteQueued'
  BY DEF OnlyOld, NoWriteQueued

-----------------------------------------------------------------------------
(* EchoInv: the user and the coordinator                                    *)

LEMMA InitEcho == Init => EchoInv
<1> SUFFICES ASSUME Init PROVE EchoInv
  OBVIOUS
<1>1. /\ starts = 0 /\ queue = <<>> /\ guest = "none"
      /\ \A s \in Syncs : syncs[s] = NoSync
      /\ \A p \in Probes : probes[p] = NoProbe
  BY DEF Init
<1>2. guest \notin HostTexts
  BY <1>1, ConstantsAssumption DEF Texts
<1>3. OneSession
  BY <1>1, <1>2 DEF OneSession, Unused
<1>4. QED
  BY <1>1, <1>3 DEF EchoInv, AsksLast, WriteKept, ReadSettled, MayRead, NoSync

LEMMA CopyOnHostEcho ==
    ASSUME SessionInv, EchoInv, NEW t \in HostTexts, CopyOnHost(t)
    PROVE  EchoInv'
<1>1. /\ UNCHANGED <<probes, starts, syncs, queue, guest>>
      /\ clip'.pending = clip.pending /\ clip'.sent = clip.sent
      /\ clip'.dropped = clip.dropped
  BY Parts DEF CopyOnHost, coordinator, ClipInv, Clips
<1>2. NoWriteQueued' <=> NoWriteQueued
  BY <1>1 DEF NoWriteQueued
<1>3. (Settled' <=> Settled) /\ (Unused' <=> Unused)
  BY <1>1, <1>2 DEF Settled, Unused
<1>4. OneSession' <=> OneSession
  BY <1>1, <1>3 DEF OneSession
<1>5. ASSUME NEW s \in Syncs, AsksLast(s), WriteKept(s), ReadSettled(s)
      PROVE  AsksLast(s)' /\ WriteKept(s)' /\ ReadSettled(s)'
  BY <1>1, <1>2, <1>3, <1>5 DEF AsksLast, WriteKept, ReadSettled, MayRead
<1>6. QED
  BY <1>1, <1>4, <1>5 DEF EchoInv

LEMMA CopyInGuestEcho ==
    ASSUME SessionInv, EchoInv, NEW t \in GuestTexts, CopyInGuest(t)
    PROVE  EchoInv'
<1>1. UNCHANGED <<probes, starts, syncs, queue, clip>> /\ guest' \notin HostTexts
  BY ConstantsAssumption DEF CopyInGuest, coordinator
<1>2. NoWriteQueued' <=> NoWriteQueued
  BY <1>1 DEF NoWriteQueued
<1>3. (Settled => Settled') /\ (Unused => Unused')
  BY <1>1, <1>2 DEF Settled, Unused
<1>4. OneSession => OneSession'
  BY <1>1, <1>3 DEF OneSession
<1>5. ASSUME NEW s \in Syncs, AsksLast(s), WriteKept(s), ReadSettled(s)
      PROVE  AsksLast(s)' /\ WriteKept(s)' /\ ReadSettled(s)'
  BY <1>1, <1>2, <1>3, <1>5 DEF AsksLast, WriteKept, ReadSettled, MayRead
<1>6. QED
  BY <1>1, <1>4, <1>5 DEF EchoInv

(* Nothing is there when start is called for the first time. *)
LEMMA StartEcho ==
    ASSUME SessionInv, EchoInv, Start
    PROVE  EchoInv'
<1> SUFFICES ASSUME starts' <= 1 PROVE EchoInv'
  BY DEF EchoInv
<1>1. starts = 0 /\ starts' = 1
  BY Parts, ConstantsAssumption DEF Start, ProbeInv
<1>2. Unused /\ \A p \in Probes : probes[p] = NoProbe
  BY <1>1, ConstantsAssumption DEF EchoInv, OneSession
<1>3. \A s \in Syncs : syncs'[s] = NoSync
  <2>1. \A s \in Syncs : CancelSync[s].pc = "ended"
    BY <1>2, CancelSyncKeeps DEF Unused, NoSync
  <2>2. \A s \in Syncs : CancelSync[s] = NoSync
    BY <2>1, CancelSyncKeeps DEF Sync
  <2>3. QED BY <2>2 DEF Start, StopSync
<1>4. PICK p \in Probes :
        probes' = [CancelProbe EXCEPT ![p] = [pc |-> "new", cancelled |-> FALSE]]
  BY DEF Start
<1>5. \A q \in Probes \ {p} : probes'[q] = NoProbe
  BY <1>2, <1>4 DEF CancelProbe
<1>6. Unused'
  BY <1>2, <1>3 DEF Unused, Start, clipboards
<1>7. OneSession'
  BY <1>1, <1>3, <1>5, <1>6 DEF OneSession
<1>8. QED
  BY <1>3, <1>7 DEF EchoInv, AsksLast, WriteKept, ReadSettled, MayRead, NoSync

(* A task that is cancelled does not read when it has slept. *)
LEMMA StopEcho ==
    ASSUME SessionInv, EchoInv, Stop
    PROVE  EchoInv'
<1> SUFFICES ASSUME starts' <= 1 PROVE EchoInv'
  BY DEF EchoInv
<1>1. /\ UNCHANGED <<starts, queue, guest>> /\ starts <= 1
      /\ syncs' = CancelSync /\ probes' = CancelProbe
      /\ clip' = [clip EXCEPT !.pending = "none", !.attempts = 0]
  BY DEF Stop, StopSync, clipboards
<1>2. clip'.pending = "none" /\ clip'.sent = clip.sent /\ clip'.dropped = clip.dropped
  BY <1>1, Parts DEF ClipInv, Clips
<1>3. \A p \in Probes : probes[p] = NoProbe => probes'[p] = NoProbe
  BY <1>1 DEF CancelProbe
<1>4. ASSUME NEW s \in Syncs
      PROVE  /\ syncs'[s].pc = syncs[s].pc /\ syncs'[s].text = syncs[s].text
             /\ syncs'[s].answer = syncs[s].answer
             /\ syncs[s] = NoSync => syncs'[s] = NoSync
             /\ syncs[s] # NoSync => syncs'[s].cancelled
  <2>1. CASE s = syncer
    <3>1. syncs[s] \in Sync /\ syncs'[s] = [syncs[s] EXCEPT !.cancelled = TRUE]
      BY <1>1, <2>1, Parts, SyncFields DEF TaskInv, CancelSync
    <3>2. QED BY <3>1 DEF Sync, NoSync
  <2>2. CASE s # syncer
    BY <1>1, <2>2, Parts DEF TaskInv, CancelSync
  <2>3. QED BY <2>1, <2>2
<1>5. (NoWriteQueued' <=> NoWriteQueued) /\ (Unused => Unused')
  BY <1>1, <1>4 DEF NoWriteQueued, Unused
<1>6. Settled' <=> Settled
  BY <1>1, <1>2, <1>5 DEF Settled
<1>7. OneSession'
  <2>1. OneSession
    BY <1>1 DEF EchoInv
  <2>2. \A s \in Syncs : syncs'[s] # NoSync => syncs[s] # NoSync
    BY <1>4
  <2>3. QED BY <1>1, <1>3, <1>5, <2>1, <2>2 DEF OneSession
<1>8. ASSUME NEW s \in Syncs PROVE AsksLast(s)' /\ WriteKept(s)' /\ ReadSettled(s)'
  <2>1. AsksLast(s) /\ WriteKept(s) /\ ReadSettled(s)
    BY <1>1 DEF EchoInv
  <2>2. CASE syncs[s] = NoSync
    <3>1. syncs'[s] = NoSync
      BY <1>4, <2>2
    <3>2. QED BY <3>1 DEF AsksLast, WriteKept, ReadSettled, MayRead, NoSync
  <2>3. CASE syncs[s] # NoSync
    <3>1. AsksLast(s)'
      BY <1>1, <1>4, <2>1 DEF AsksLast
    <3>2. WriteKept(s)'
      BY <1>1, <1>4, <1>5, <2>1, <2>3 DEF WriteKept
    <3>3. ReadSettled(s)'
      BY <1>2, <1>4, <1>6, <2>1, <2>3 DEF ReadSettled, MayRead
    <3>4. QED BY <3>1, <3>2, <3>3
  <2>4. QED BY <2>2, <2>3
<1>9. QED
  BY <1>7, <1>8 DEF EchoInv

(* The probe has found the guest: the first task begins, and neither a request
   nor a text of the host is in the guest. *)
LEMMA ConnectedEcho ==
    ASSUME SessionInv, EchoInv, starts <= 1, NEW p \in Probes, probes[p] # NoProbe,
           ProbeEnds(p), UNCHANGED <<starts, queue, guest>>,
           NEW s \in Syncs, clip' = NoClip,
           syncs' = [CancelSync EXCEPT ![s] = [NoSync EXCEPT !.pc = "sleep"]]
    PROVE  EchoInv'
<1>1. Unused /\ starts = 1 /\ \A q \in Probes : q # p => probes[q] = NoProbe
  BY DEF EchoInv, OneSession
<1>2. \A q \in Probes : probes'[q] = NoProbe
  BY <1>1, Parts DEF ProbeEnds, ProbeInv
<1>3. \A r \in Syncs \ {s} : syncs'[r] = NoSync
  <2>1. \A r \in Syncs : CancelSync[r].pc = "ended"
    BY <1>1, CancelSyncKeeps DEF Unused, NoSync
  <2>2. \A r \in Syncs : CancelSync[r] = NoSync
    BY <2>1, CancelSyncKeeps DEF Sync
  <2>3. QED BY <2>2, CancelSyncKeeps
<1>4. syncs'[s].pc = "sleep"
  BY CancelSyncKeeps DEF NoSync
<1>5. OneSession'
  BY <1>1, <1>2, <1>3 DEF OneSession
<1>6. Settled'
  BY <1>1 DEF Unused, Settled, NoWriteQueued
<1>7. ASSUME NEW r \in Syncs PROVE AsksLast(r)' /\ WriteKept(r)' /\ ReadSettled(r)'
  <2>1. syncs'[r].pc \in {"sleep", "ended"}
    BY <1>3, <1>4 DEF NoSync
  <2>2. QED BY <1>6, <2>1 DEF AsksLast, WriteKept, ReadSettled
<1>8. QED
  BY <1>5, <1>7 DEF EchoInv

LEMMA ProbeStepEcho ==
    ASSUME SessionInv, EchoInv, NEW p \in Probes, ProbeStep(p)
    PROVE  EchoInv'
<1> SUFFICES ASSUME starts' <= 1 PROVE EchoInv'
  BY DEF EchoInv
<1>1. probes[p] # NoProbe
  BY DEF ProbeStep, ProbeRuns, ProbeAnswered, ProbeFailed, NoProbe
<1>2. UNCHANGED <<starts, queue, guest>> /\ starts <= 1
  BY DEF ProbeStep, ProbeRuns, ProbeAnswered, ProbeFailed, clipboards
<1>3. ASSUME \A q \in Probes \ {p} : probes'[q] = probes[q], SyncUnchanged
      PROVE  EchoInv'
  <2>1. UNCHANGED <<syncs, clip>>
    BY <1>3 DEF SyncUnchanged
  <2>2. \A q \in Probes : probes'[q] # NoProbe => probes[q] # NoProbe
    BY <1>1, <1>3
  <2>3. (NoWriteQueued' <=> NoWriteQueued) /\ (Unused' <=> Unused)
    BY <1>2, <2>1 DEF NoWriteQueued, Unused
  <2>4. Settled' <=> Settled
    BY <1>2, <2>1, <2>3 DEF Settled
  <2>5. OneSession'
    BY <1>2, <2>1, <2>2, <2>3 DEF EchoInv, OneSession
  <2>6. ASSUME NEW s \in Syncs, AsksLast(s), WriteKept(s), ReadSettled(s)
        PROVE  AsksLast(s)' /\ WriteKept(s)' /\ ReadSettled(s)'
    BY <1>2, <2>1, <2>3, <2>4, <2>6 DEF AsksLast, WriteKept, ReadSettled, MayRead
  <2>7. QED BY <1>2, <2>5, <2>6 DEF EchoInv
<1>4. ASSUME Connected(p) PROVE EchoInv'
  BY <1>1, <1>2, <1>3, <1>4, ConnectedEcho, Parts DEF Connected, ProbeEnds, ProbeInv
<1>5. Connected(p) \/ ((\A q \in Probes \ {p} : probes'[q] = probes[q]) /\ SyncUnchanged)
  <2>1. CASE ProbeRuns(p)
    BY <2>1, Parts DEF ProbeRuns, ProbeGoes, ProbeEnds, ProbeInv
  <2>2. CASE ProbeAnswered(p)
    BY <2>2, Parts DEF ProbeAnswered, ProbeGoes, ProbeEnds, ProbeInv
  <2>3. CASE ProbeFailed(p)
    BY <2>3, Parts DEF ProbeFailed, ProbeEnds, ProbeInv
  <2>4. QED BY <2>1, <2>2, <2>3 DEF ProbeStep
<1>6. QED
  BY <1>3, <1>4, <1>5

-----------------------------------------------------------------------------
(* EchoInv: the synchronizer                                                *)

(* What a task that goes on has become. *)
LEMMA Went ==
    ASSUME SessionInv, NEW s \in Syncs, syncs[s] # NoSync, NEW pc, NEW t, SyncGoes(s, pc, t)
    PROVE  /\ syncs'[s].pc = pc /\ syncs'[s].text = t /\ syncs'[s].answer = "none"
           /\ syncs'[s].cancelled = syncs[s].cancelled
           /\ \A r \in Syncs \ {s} : syncs'[r] = syncs[r]
<1> DEFINE v == [syncs[s] EXCEPT !.pc = pc, !.text = t, !.answer = "none"]
<1>1. syncs' = [syncs EXCEPT ![s] = v] /\ s \in DOMAIN syncs
  BY Parts DEF SyncGoes, ChannelInv
<1>2. syncs[s] \in Sync
  BY SyncFields, Parts
<1>3. v.pc = pc /\ v.text = t /\ v.answer = "none" /\ v.cancelled = syncs[s].cancelled
  BY <1>2 DEF Sync
<1> HIDE DEF v
<1>4. QED
  BY <1>1, <1>3

LEMMA Asked ==
    ASSUME SessionInv, NEW s \in Syncs, NEW t \in Texts \union {"none"},
           queue' = Request(s, t)
    PROVE  /\ queue' # <<>> /\ queue'[Len(queue')] = [by |-> s, text |-> t]
           /\ t = "none" /\ NoWriteQueued => NoWriteQueued'
<1> DEFINE e == [by |-> s, text |-> t]
<1>1. queue \in Seq(Requests) /\ e \in Requests /\ queue' = Append(queue, e)
  BY Parts DEF ChannelInv, Requests, Request
<1>2. e.text = t
  OBVIOUS
<1> HIDE DEF e
<1>3. /\ Len(queue') = Len(queue) + 1 /\ Len(queue) \in Nat
      /\ DOMAIN queue' = 1..(Len(queue) + 1) /\ DOMAIN queue = 1..Len(queue)
      /\ \A i \in 1..Len(queue) : queue'[i] = queue[i]
      /\ queue'[Len(queue) + 1] = e
  BY <1>1, AppendProperties, LenProperties
<1>4. queue' # <<>>
  BY <1>3, EmptySeq
<1>5. ASSUME t = "none", NoWriteQueued PROVE NoWriteQueued'
  BY <1>2, <1>3, <1>5 DEF NoWriteQueued
<1>6. QED
  BY <1>3, <1>4, <1>5 DEF e

LEMMA PollEcho ==
    ASSUME SessionInv, EchoInv, NEW s \in Syncs, Poll(s)
    PROVE  EchoInv'
<1> SUFFICES ASSUME starts' <= 1 PROVE EchoInv'
  BY DEF EchoInv
<1> DEFINE tooLarge == clip.changed /\ host \in Large
           pending == IF ~clip.changed THEN clip.pending
                      ELSE IF ~tooLarge /\ canSendToGuest(host) THEN host ELSE "none"
<1>1. /\ syncs[s].pc = "sleep" /\ ~syncs[s].cancelled
      /\ UNCHANGED coordinator /\ guest' = guest /\ starts <= 1
      /\ IF tooLarge THEN UNCHANGED <<syncs, queue>>
         ELSE /\ SyncGoes(s, IF pending = "none" THEN "read" ELSE "write", pending)
              /\ queue' = Request(s, pending)
  BY DEF Poll, clipboards, coordinator
<1>2. /\ clip'.pending = pending /\ clip'.sent = clip.sent
      /\ clip'.dropped = (clip.dropped \/ (clip.pending # "none" /\ pending = "none"))
  BY Parts DEF Poll, ClipInv, Clips
<1>3. syncs[s] # NoSync
  BY <1>1 DEF NoSync
<1>4. AsksLast(s) /\ WriteKept(s) /\ ReadSettled(s)
  BY <1>1, <1>3, Alone
<1>5. pending = "none" /\ ~clip'.dropped => Settled /\ ~clip.dropped
  BY <1>1, <1>2, <1>4 DEF ReadSettled, MayRead
<1>6. pending \in Texts \union {"none"}
  BY Parts DEF ClipInv, Clips
<1>7. tooLarge => pending = "none"
  BY ConstantsAssumption DEF Texts
<1> HIDE DEF tooLarge, pending
<1>8. CASE tooLarge
  <2>1. UNCHANGED <<syncs, queue>>
    BY <1>1, <1>8
  <2>2. AsksLast(s)' /\ WriteKept(s)'
    BY <1>1, <2>1 DEF AsksLast, WriteKept
  <2>3. Settled => Settled'
    BY <1>1, <1>2, <2>1 DEF Settled, NoWriteQueued
  <2>4. ReadSettled(s)'
    BY <1>1, <1>5, <1>7, <1>8, <2>1, <2>3 DEF ReadSettled
  <2>5. QED BY <1>1, <1>3, <2>1, <2>2, <2>4, OneMoves
<1>9. CASE ~tooLarge
  <2> DEFINE pc == IF pending = "none" THEN "read" ELSE "write"
  <2>1. SyncGoes(s, pc, pending) /\ queue' = Request(s, pending)
    BY <1>1, <1>9
  <2>2. (pc = "read" /\ pending = "none") \/ (pc = "write" /\ pending # "none")
    OBVIOUS
  <2> HIDE DEF pc
  <2>3. /\ syncs'[s].pc = pc /\ syncs'[s].text = pending /\ syncs'[s].answer = "none"
        /\ \A r \in Syncs \ {s} : syncs'[r] = syncs[r]
    BY <1>3, <2>1, Went
  <2>4. /\ queue' # <<>> /\ queue'[Len(queue')] = [by |-> s, text |-> pending]
        /\ pending = "none" /\ NoWriteQueued => NoWriteQueued'
    BY <1>6, <2>1, Asked
  <2>5. AsksLast(s)'
    BY <2>2, <2>3, <2>4 DEF AsksLast
  <2>6. WriteKept(s)'
    BY <1>2, <2>2, <2>3 DEF WriteKept
  <2>7. pending = "none" /\ Settled => Settled'
    BY <1>1, <1>2, <2>4 DEF Settled
  <2>8. ReadSettled(s)'
    BY <1>5, <2>2, <2>3, <2>7 DEF ReadSettled, MayRead
  <2>9. QED BY <1>1, <1>3, <2>3, <2>5, <2>6, <2>8, OneMoves
<1>10. QED
  BY <1>8, <1>9

LEMMA SyncEndsEcho ==
    ASSUME SessionInv, EchoInv, NEW s \in Syncs, SyncEnds(s)
    PROVE  EchoInv'
<1> SUFFICES ASSUME starts' <= 1 PROVE EchoInv'
  BY DEF EchoInv
<1>1. /\ syncs[s].pc = "sleep" /\ syncs' = [syncs EXCEPT ![s] = NoSync]
      /\ UNCHANGED coordinator /\ starts <= 1
  BY DEF SyncEnds, coordinator
<1>2. syncs[s] # NoSync
  BY <1>1 DEF NoSync
<1>3. /\ \A r \in Syncs \ {s} : syncs[r] = NoSync
      /\ \A p \in Probes : probes[p] = NoProbe
      /\ starts # 0
  BY <1>1, <1>2, Alone
<1>4. \A r \in Syncs : syncs'[r] = NoSync
  BY <1>1, <1>3, Parts DEF ChannelInv
<1>5. QED
  BY <1>1, <1>3, <1>4, AllEnded DEF coordinator

(* An accepted write is the text the guest shows, and the last one written; a
   text that is given up is dropped; one that is kept is written again first. *)
LEMMA WroteEcho ==
    ASSUME SessionInv, EchoInv, NEW s \in Syncs, Wrote(s)
    PROVE  EchoInv'
<1> SUFFICES ASSUME starts' <= 1 PROVE EchoInv'
  BY DEF EchoInv
<1> DEFINE done == syncs[s].answer = "accepted"
           over == done \/ clip.attempts + 1 >= 3
<1>1. /\ syncs[s].pc = "wrote" /\ UNCHANGED coordinator /\ guest' = guest /\ starts <= 1
      /\ SyncGoes(s, IF over THEN "read" ELSE "sleep", "none")
      /\ queue' = IF over THEN Request(s, "none") ELSE queue
  BY DEF Wrote, clipboards, coordinator
<1>2. syncs[s] # NoSync
  BY <1>1 DEF NoSync
<1>3. AsksLast(s) /\ WriteKept(s) /\ ReadSettled(s)
  BY <1>1, <1>2, Alone
<1>4. done => clip'.sent = fingerprint(syncs[s].text)
  BY Parts DEF Wrote, markSentToGuest, ClipInv, Clips
<1>5. over /\ ~done => clip'.dropped
  BY Parts DEF Wrote, ClipInv, Clips
<1>6. ~over => clip'.pending = clip.pending
  BY Parts DEF Wrote, ClipInv, Clips
<1>7. syncs[s].text # "none"
  BY <1>1, Parts DEF ChannelInv
<1> HIDE DEF over
<1>8. CASE over
  <2>1. /\ syncs'[s].pc = "read" /\ syncs'[s].text = "none"
        /\ \A r \in Syncs \ {s} : syncs'[r] = syncs[r]
    BY <1>1, <1>2, <1>8, Went
  <2>2. /\ queue' # <<>> /\ queue'[Len(queue')] = [by |-> s, text |-> "none"]
        /\ NoWriteQueued => NoWriteQueued'
    BY <1>1, <1>8, Asked
  <2>3. AsksLast(s)' /\ WriteKept(s)'
    BY <2>1, <2>2 DEF AsksLast, WriteKept
  <2>4. done => Settled'
    BY <1>1, <1>3, <1>4, <2>2 DEF WriteKept, Settled
  <2>5. ReadSettled(s)'
    BY <1>5, <1>8, <2>1, <2>4 DEF ReadSettled
  <2>6. QED BY <1>1, <1>2, <2>1, <2>3, <2>5, OneMoves
<1>9. CASE ~over
  <2>1. /\ syncs'[s].pc = "sleep" /\ syncs'[s].cancelled = syncs[s].cancelled
        /\ \A r \in Syncs \ {s} : syncs'[r] = syncs[r]
    BY <1>1, <1>2, <1>9, Went
  <2>2. AsksLast(s)' /\ WriteKept(s)'
    BY <2>1 DEF AsksLast, WriteKept
  <2>3. ~MayRead(s)'
    BY <1>1, <1>3, <1>6, <1>7, <1>9, <2>1 DEF WriteKept, MayRead
  <2>4. ReadSettled(s)'
    BY <2>1, <2>3 DEF ReadSettled
  <2>5. QED BY <1>1, <1>2, <2>1, <2>2, <2>4, OneMoves
<1>10. QED
  BY <1>8, <1>9

LEMMA GotEcho ==
    ASSUME SessionInv, EchoInv, NEW s \in Syncs, Got(s)
    PROVE  EchoInv'
<1> SUFFICES ASSUME starts' <= 1 PROVE EchoInv'
  BY DEF EchoInv
<1>1. /\ syncs[s].pc = "got" /\ SyncGoes(s, "sleep", "none")
      /\ UNCHANGED <<coordinator, guest, queue>> /\ starts <= 1
  BY DEF Got, coordinator
<1>2. clip'.sent = clip.sent /\ clip'.dropped = clip.dropped
  BY Parts DEF Got, ClipInv, Clips
<1>3. syncs[s] # NoSync
  BY <1>1 DEF NoSync
<1>4. ReadSettled(s)
  BY <1>1, <1>3, Alone
<1>5. syncs'[s].pc = "sleep" /\ \A r \in Syncs \ {s} : syncs'[r] = syncs[r]
  BY <1>1, <1>3, Went
<1>6. AsksLast(s)' /\ WriteKept(s)'
  BY <1>5 DEF AsksLast, WriteKept
<1>7. Settled => Settled'
  BY <1>1, <1>2 DEF Settled, NoWriteQueued
<1>8. ReadSettled(s)'
  BY <1>1, <1>2, <1>4, <1>5, <1>7 DEF ReadSettled, MayRead
<1>9. QED
  BY <1>1, <1>3, <1>5, <1>6, <1>8, OneMoves

-----------------------------------------------------------------------------
(* EchoInv: the channel                                                     *)

(* The task gets an answer, its own or an error, and no request is added. *)
LEMMA AnsweredEcho ==
    ASSUME SessionInv, EchoInv, starts <= 1, NEW s \in Syncs, syncs[s].pc \in Waits,
           NEW a, Answered(s, a), UNCHANGED <<coordinator, clip>>, OnlyOld,
           syncs[s].pc = "write" /\ a = "accepted" =>
              NoWriteQueued' /\ guest' = syncs[s].text,
           syncs[s].pc = "read" /\ ~clip.dropped =>
              guest' = guest /\ (a \in HostTexts => a = guest)
    PROVE  EchoInv'
<1> DEFINE pc == IF syncs[s].pc = "write" THEN "wrote" ELSE "got"
           v == [syncs[s] EXCEPT !.pc = pc, !.answer = a]
<1>1. syncs[s] \in Sync /\ syncs[s] # NoSync
  BY Parts, SyncFields DEF Waits, NoSync
<1>2. syncs' = [syncs EXCEPT ![s] = v] /\ s \in DOMAIN syncs
  BY Parts DEF Answered, ChannelInv
<1>3. /\ v.pc = pc /\ v.answer = a /\ v.text = syncs[s].text
      /\ v.cancelled = syncs[s].cancelled
  BY <1>1 DEF Sync
<1>4. \/ syncs[s].pc = "write" /\ pc = "wrote"
      \/ syncs[s].pc = "read" /\ pc = "got"
  BY DEF Waits
<1> HIDE DEF v, pc
<1>5. /\ syncs'[s].pc = pc /\ syncs'[s].answer = a /\ syncs'[s].text = syncs[s].text
      /\ syncs'[s].cancelled = syncs[s].cancelled
      /\ \A r \in Syncs \ {s} : syncs'[r] = syncs[r]
  BY <1>2, <1>3
<1>6. AsksLast(s) /\ WriteKept(s) /\ ReadSettled(s)
  BY <1>1, Alone
<1>7. AsksLast(s)'
  BY <1>4, <1>5 DEF AsksLast
<1>8. WriteKept(s)'
  BY <1>4, <1>5, <1>6 DEF WriteKept
<1>9. ReadSettled(s)'
  <2>1. ASSUME ~clip.dropped, syncs[s].pc = "read"
        PROVE  Settled' /\ (a \in HostTexts => fingerprint(a) = clip.sent)
    <3>1. Settled
      BY <1>6, <2>1 DEF ReadSettled, MayRead
    <3>2. Settled'
      BY <2>1, <3>1, OldHasNoWrite DEF Settled
    <3>3. QED BY <2>1, <3>1, <3>2 DEF Settled
  <2>2. QED BY <1>4, <1>5, <2>1 DEF ReadSettled, MayRead
<1>10. QED
  BY <1>1, <1>5, <1>7, <1>8, <1>9, OneMoves

LEMMA RequestFailsEcho ==
    ASSUME SessionInv, EchoInv, NEW s \in Syncs, RequestFails(s)
    PROVE  EchoInv'
<1> SUFFICES ASSUME starts' <= 1 PROVE EchoInv'
  BY DEF EchoInv
<1>1. /\ syncs[s].pc \in Waits /\ Answered(s, "error") /\ starts <= 1
      /\ UNCHANGED <<coordinator, clip, guest>>
  BY DEF RequestFails, Waits, clipboards, coordinator
<1>2. PICK k \in DOMAIN queue : \/ queue' = [queue EXCEPT ![k].by = "nobody"]
                               \/ queue' = RemoveAt(queue, k)
  BY DEF RequestFails
<1>3. queue \in Seq(Requests)
  BY Parts DEF ChannelInv
<1>4. OnlyOld
  BY <1>2, <1>3, RemoveAtIsWithout, WithoutIsOld, AbandonedIsOld
<1>5. "error" \notin HostTexts
  BY ConstantsAssumption DEF Texts
<1>6. QED
  BY <1>1, <1>4, <1>5, AnsweredEcho

(* The head of the queue when the task waits for it: there is no other. *)
LEMMA HeadIsOwn ==
    ASSUME SessionInv, EchoInv, starts <= 1, queue # <<>>, Head(queue).by # "nobody"
    PROVE  /\ Head(queue).by \in Syncs /\ syncs[Head(queue).by].pc \in Waits
           /\ Head(queue).text = syncs[Head(queue).by].text
           /\ Tail(queue) = <<>>
           /\ syncs[Head(queue).by].pc = "read" <=> Head(queue).text = "none"
<1>1. queue \in Seq(Requests) /\ Matched(queue, syncs)
  BY Parts DEF ChannelInv
<1>2. /\ Without(queue, Tail(queue), 1) /\ 1 \in DOMAIN queue
      /\ Head(queue) = queue[1] /\ Head(queue) \in Requests
  BY <1>1, TailIsWithout
<1> DEFINE s == Head(queue).by
<1>3. s \in Syncs /\ syncs[s].pc \in Waits /\ queue[1].by = s
  BY <1>1, <1>2 DEF Matched, Requests
<1>4. syncs[s] # NoSync
  BY <1>3 DEF Waits, NoSync
<1>5. 1 = Len(queue) /\ queue[1] = [by |-> s, text |-> syncs[s].text]
  BY <1>2, <1>3, <1>4, OwnRequest
<1>6. Tail(queue) = <<>>
  <2> DEFINE rest == Tail(queue)
  <2>1. Without(queue, rest, 1) /\ Len(queue) = 1
    BY <1>2, <1>5
  <2> HIDE DEF rest
  <2>2. rest \in Seq(Requests) /\ Len(rest) = 0
    BY <2>1 DEF Without
  <2>3. rest = <<>>
    BY <2>2, EmptySeq
  <2>4. QED BY <2>3 DEF rest
<1>7. Head(queue).text = syncs[s].text
  BY <1>2, <1>5
<1>8. /\ syncs[s].pc = "read" => syncs[s].text = "none"
      /\ syncs[s].pc = "write" => syncs[s].text # "none"
  BY <1>3, <1>4, Alone, Parts DEF AsksLast, ChannelInv
<1>9. QED
  BY <1>3, <1>6, <1>7, <1>8 DEF Waits

LEMMA RejectEcho ==
    ASSUME SessionInv, EchoInv, Reject
    PROVE  EchoInv'
<1> SUFFICES ASSUME starts' <= 1 PROVE EchoInv'
  BY DEF EchoInv
<1>1. /\ queue # <<>> /\ Head(queue).by # "nobody" /\ queue' = Tail(queue)
      /\ Answered(Head(queue).by, "error") /\ starts <= 1
      /\ UNCHANGED <<coordinator, clip, guest>>
  BY DEF Reject, clipboards, coordinator
<1>2. OnlyOld
  BY <1>1, Parts, TailIsWithout, WithoutIsOld DEF ChannelInv
<1>3. "error" \notin HostTexts
  BY ConstantsAssumption DEF Texts
<1>4. QED
  BY <1>1, <1>2, <1>3, HeadIsOwn, AnsweredEcho

(* A request that nobody waits for is served and its answer lost. *)
LEMMA ServeLost ==
    ASSUME SessionInv, EchoInv, starts <= 1, queue # <<>>, Head(queue).by = "nobody",
           queue' = Tail(queue), UNCHANGED <<coordinator, clip, syncs>>,
           Head(queue).text = "none" => guest' = guest
    PROVE  EchoInv'
<1>1. queue \in Seq(Requests)
  BY Parts DEF ChannelInv
<1>2. /\ Without(queue, queue', 1) /\ 1 \in DOMAIN queue /\ Head(queue) = queue[1]
  BY <1>1, TailIsWithout
<1>3. OnlyOld
  BY <1>1, <1>2, WithoutIsOld
<1>4. NoWriteQueued => NoWriteQueued' /\ guest' = guest
  BY <1>2, <1>3, OldHasNoWrite DEF NoWriteQueued
<1>5. Settled => Settled'
  BY <1>4 DEF Settled
<1>6. CASE \A s \in Syncs : syncs[s] = NoSync
  <2>1. ~Unused
    BY DEF Unused
  <2>2. starts # 0 /\ \A p \in Probes : probes[p] = NoProbe
    BY <2>1 DEF EchoInv, OneSession
  <2>3. QED BY <1>6, <2>2, AllEnded DEF coordinator
<1>7. ASSUME NEW s \in Syncs, syncs[s] # NoSync PROVE EchoInv'
  <2>1. AsksLast(s) /\ WriteKept(s) /\ ReadSettled(s)
    BY <1>7, Alone
  <2>2. AsksLast(s)'
    <3>1. ASSUME syncs[s].pc \in Waits
          PROVE  queue' # <<>> /\ queue'[Len(queue')] = queue[Len(queue)]
      <4>1. Len(queue) \in DOMAIN queue /\ queue[Len(queue)].by = s
        <5>1. /\ Len(queue) \in DOMAIN queue
              /\ queue[Len(queue)] = [by |-> s, text |-> syncs[s].text]
          BY <1>7, <3>1, OwnRequest
        <5>2. QED BY <5>1
      <4>2. Len(queue) # 1
        <5>1. queue[1].by = "nobody" /\ s # "nobody"
          BY <1>2, ConstantsAssumption
        <5>2. ASSUME Len(queue) = 1 PROVE FALSE
          BY <4>1, <5>1, <5>2
        <5>3. QED BY <5>2
      <4>3. Len(queue') = Len(queue) - 1 /\ Len(queue) \in Nat /\ Len(queue) > 1
        BY <1>1, <1>2, <4>1, <4>2, LenProperties DEF Without
      <4>4. Len(queue') \in 1..Len(queue') /\ ~(Len(queue') < 1)
            /\ Len(queue') + 1 = Len(queue)
        BY <4>3
      <4>5. queue'[Len(queue')] = queue[Len(queue)]
        BY <1>2, <4>4 DEF Without
      <4>6. QED BY <4>3, <4>5, EmptySeq
    <3>2. QED BY <2>1, <3>1 DEF AsksLast, Waits
  <2>3. WriteKept(s)'
    BY <1>4, <2>1 DEF WriteKept
  <2>4. ReadSettled(s)'
    BY <1>5, <2>1 DEF ReadSettled, MayRead
  <2>5. QED BY <1>7, <2>2, <2>3, <2>4, OneMoves
<1>8. QED
  BY <1>6, <1>7

(* The answer of such a request is read by the next one, which fails. *)
LEMMA ServeMixed ==
    ASSUME SessionInv, EchoInv, starts <= 1, queue # <<>>, Head(queue).by = "nobody",
           Tail(queue) # <<>>, Tail(queue)[1].by # "nobody",
           Answered(Tail(queue)[1].by, "error"),
           queue' = [Tail(queue) EXCEPT ![1].by = "nobody"],
           UNCHANGED <<coordinator, clip>>,
           Head(queue).text = "none" => guest' = guest
    PROVE  EchoInv'
<1> DEFINE rest == Tail(queue)
<1>1. queue \in Seq(Requests) /\ Matched(queue, syncs)
  BY Parts DEF ChannelInv
<1>2. /\ Without(queue, rest, 1) /\ 1 \in DOMAIN queue /\ Head(queue) = queue[1]
  BY <1>1, TailIsWithout
<1>3. rest \in Seq(Requests) /\ 1 \in DOMAIN rest
  BY <1>2, TailIsWithout DEF Without
<1>4. 2 \in DOMAIN queue /\ rest[1] = queue[2]
  <2>1. DOMAIN rest = 1..Len(rest) /\ DOMAIN queue = 1..Len(queue) /\ Len(queue) \in Nat
    BY <1>1, <1>3, LenProperties
  <2> HIDE DEF rest
  <2>2. Len(rest) = Len(queue) - 1 /\ 1 \in 1..Len(rest)
    BY <1>2, <1>3, <2>1 DEF Without
  <2>3. rest[1] = queue[1 + 1]
    BY <1>2, <2>2 DEF Without
  <2>4. QED BY <2>1, <2>2, <2>3
<1>5. queue[2].by \in Syncs /\ syncs[queue[2].by].pc \in Waits
  BY <1>1, <1>4, QueueElements DEF Matched
<1>6. PICK s \in Syncs : s = rest[1].by /\ syncs[s].pc \in Waits
  BY <1>4, <1>5
<1>7. OnlyOld
  <2>1. ASSUME NEW j \in DOMAIN queue' PROVE \E k \in DOMAIN queue : queue'[j].text = queue[k].text
    <3>1. j \in DOMAIN rest
      BY <2>1
    <3>2. queue'[j].text = rest[j].text
      <4>1. rest[j] \in Requests
        BY <1>3, <3>1, QueueElements
      <4> HIDE DEF rest
      <4>2. queue' = [rest EXCEPT ![1].by = "nobody"]
        BY DEF rest
      <4>3. QED BY <3>1, <4>1, <4>2 DEF Requests
    <3>3. j + 1 \in DOMAIN queue /\ rest[j] = queue[j + 1]
      <4>1. DOMAIN rest = 1..Len(rest) /\ DOMAIN queue = 1..Len(queue) /\ Len(queue) \in Nat
        BY <1>1, <1>3, LenProperties
      <4> HIDE DEF rest
      <4>2. Len(rest) = Len(queue) - 1 /\ j \in 1..Len(rest) /\ ~(j < 1)
        BY <1>2, <3>1, <4>1 DEF Without
      <4>3. QED BY <1>2, <4>1, <4>2 DEF Without
    <3>4. QED BY <3>2, <3>3
  <2>2. QED BY <2>1 DEF OnlyOld
<1>8. syncs[s] # NoSync
  BY <1>6 DEF Waits, NoSync
<1>9. syncs[s].pc = "read" /\ ~clip.dropped => guest' = guest
  <2>1. syncs[s].pc = "read" /\ ~clip.dropped => NoWriteQueued
    BY <1>8, Alone DEF ReadSettled, MayRead, Settled
  <2>2. NoWriteQueued => Head(queue).text = "none"
    BY <1>2 DEF NoWriteQueued
  <2>3. QED BY <2>1, <2>2
<1>10. "error" \notin HostTexts
  BY ConstantsAssumption DEF Texts
<1>11. Answered(s, "error")
  BY <1>6
<1>12. QED
  BY <1>6, <1>7, <1>9, <1>10, <1>11, AnsweredEcho

LEMMA ServeEcho ==
    ASSUME SessionInv, EchoInv, Serve
    PROVE  EchoInv'
<1> SUFFICES ASSUME starts' <= 1 PROVE EchoInv'
  BY DEF EchoInv
<1> DEFINE head == Head(queue)
           a == IF head.text # "none" THEN "accepted"
                ELSE IF guest \in Texts \ Large THEN guest ELSE "error"
<1>1. /\ queue # <<>> /\ UNCHANGED <<coordinator, clip>> /\ starts <= 1
      /\ head.text # "none" => guest' = head.text
      /\ head.text = "none" => guest' = guest
      /\ Deliver(a)
  BY DEF Serve, coordinator
<1>2. head.text = "none" => (a \in HostTexts => a = guest)
  BY ConstantsAssumption DEF Texts
<1> HIDE DEF a
<1>3. CASE head.by # "nobody" /\ Answered(head.by, a) /\ queue' = Tail(queue)
  <2>1. /\ head.by \in Syncs /\ syncs[head.by].pc \in Waits
        /\ head.text = syncs[head.by].text /\ Tail(queue) = <<>>
        /\ syncs[head.by].pc = "read" <=> head.text = "none"
    BY <1>1, <1>3, HeadIsOwn
  <2>2. OnlyOld
    BY <1>1, <1>3, Parts, TailIsWithout, WithoutIsOld DEF ChannelInv
  <2>3. NoWriteQueued'
    BY <1>3, <2>1 DEF NoWriteQueued
  <2>4. syncs[head.by].pc = "write" => guest' = syncs[head.by].text
    BY <1>1, <2>1
  <2>5. syncs[head.by].pc = "read" => guest' = guest /\ (a \in HostTexts => a = guest)
    BY <1>1, <1>2, <2>1
  <2> HIDE DEF head
  <2>6. QED BY <1>1, <1>3, <2>1, <2>2, <2>3, <2>4, <2>5, AnsweredEcho
<1>4. CASE head.by = "nobody" /\ queue' = Tail(queue) /\ UNCHANGED syncs
  BY <1>1, <1>4, ServeLost
<1>5. CASE /\ head.by = "nobody" /\ Tail(queue) # <<>> /\ Tail(queue)[1].by # "nobody"
           /\ Answered(Tail(queue)[1].by, "error")
           /\ queue' = [Tail(queue) EXCEPT ![1].by = "nobody"]
  BY <1>1, <1>5, ServeMixed
<1>6. QED
  BY <1>1, <1>3, <1>4, <1>5 DEF Deliver

-----------------------------------------------------------------------------

LEMMA NextEcho == SessionInv /\ EchoInv /\ [Next]_vars => EchoInv'
<1> SUFFICES ASSUME SessionInv, EchoInv, [Next]_vars PROVE EchoInv'
  OBVIOUS
<1>1. CASE UNCHANGED vars
  <2>1. UNCHANGED <<starts, probes, syncs, queue, guest, clip>>
    BY <1>1 DEF vars, coordinator, clipboards
  <2>2. (NoWriteQueued' <=> NoWriteQueued) /\ (Unused' <=> Unused)
    BY <2>1 DEF NoWriteQueued, Unused
  <2>3. (Settled' <=> Settled) /\ (OneSession' <=> OneSession)
    BY <2>1, <2>2 DEF Settled, OneSession
  <2>4. \A s \in Syncs : AsksLast(s) /\ WriteKept(s) /\ ReadSettled(s)
                           => AsksLast(s)' /\ WriteKept(s)' /\ ReadSettled(s)'
    BY <2>1, <2>2, <2>3 DEF AsksLast, WriteKept, ReadSettled, MayRead
  <2>5. QED BY <2>1, <2>3, <2>4 DEF EchoInv
<1>2. CASE Next
  <2>1. ASSUME NEW t \in HostTexts, CopyOnHost(t) PROVE EchoInv'
    BY <2>1, CopyOnHostEcho
  <2>2. ASSUME NEW t \in GuestTexts, CopyInGuest(t) PROVE EchoInv'
    BY <2>2, CopyInGuestEcho
  <2>3. ASSUME NEW p \in Probes, ProbeStep(p) PROVE EchoInv'
    BY <2>3, ProbeStepEcho
  <2>4. ASSUME NEW s \in Syncs, SyncStep(s) PROVE EchoInv'
    BY <2>4, PollEcho, SyncEndsEcho, WroteEcho, GotEcho DEF SyncStep
  <2>5. ASSUME NEW s \in Syncs, RequestFails(s) PROVE EchoInv'
    BY <2>5, RequestFailsEcho
  <2>6. QED
    BY <1>2, <2>1, <2>2, <2>3, <2>4, <2>5, StartEcho, StopEcho, ServeEcho, RejectEcho DEF Next
<1>3. QED
  BY <1>1, <1>2

(* The pasteboard changes when the user copies and when a read is answered. *)
LEMMA HostChanges ==
    ASSUME SessionInv, [Next]_vars, host' # host
    PROVE  \/ \E t \in HostTexts : CopyOnHost(t)
           \/ \E s \in Syncs : Got(s) /\ host' # host
<1>1. ~UNCHANGED vars
  BY DEF vars, clipboards
<1>2. ASSUME NEW p \in Probes, ProbeStep(p) PROVE FALSE
  BY <1>2 DEF ProbeStep, ProbeRuns, ProbeAnswered, ProbeFailed, clipboards
<1>3. ASSUME NEW s \in Syncs, SyncStep(s) \/ RequestFails(s) PROVE Got(s)
  BY <1>3 DEF SyncStep, Poll, SyncEnds, Wrote, RequestFails, clipboards
<1>4. ~(Start \/ Stop \/ Serve \/ Reject \/ \E t \in GuestTexts : CopyInGuest(t))
  BY DEF Start, Stop, Serve, Reject, CopyInGuest, clipboards
<1>5. QED
  BY <1>1, <1>2, <1>3, <1>4 DEF Next

LEMMA NoEchoStep ==
    ASSUME SessionInv, EchoInv, [Next]_vars, starts <= 1, ~clip.dropped, host' # host
    PROVE  host' \in GuestTexts \/ CopyOnHost(host')
<1>1. CASE \E t \in HostTexts : CopyOnHost(t)
  BY <1>1 DEF CopyOnHost
<1>2. ASSUME NEW s \in Syncs, Got(s) PROVE host' \in GuestTexts
  <2> DEFINE text == syncs[s].answer
  <2>1. /\ syncs[s].pc = "got" /\ host' = text
        /\ text \in Texts /\ shouldApplyFromGuest(text)
    BY <1>2 DEF Got
  <2>2. syncs[s] # NoSync
    BY <2>1 DEF NoSync
  <2>3. text \in HostTexts => fingerprint(text) = clip.sent
    BY <2>1, <2>2, Alone DEF ReadSettled
  <2>4. text \notin HostTexts
    BY <2>1, <2>3 DEF shouldApplyFromGuest
  <2>5. QED BY <2>1, <2>4 DEF Texts
<1>3. QED
  BY <1>1, <1>2, HostChanges

(* GuestClipboardSynchronizer never takes the host's own text back from the
   guest over what the user has copied, for any texts and any number of
   requests that fail, in the first session and while no text was given up. *)
THEOREM NoEchoTheorem == Spec => NoEchoInASession
<1>1. SessionInv /\ EchoInv /\ [Next]_vars
        => [starts <= 1 /\ ~clip.dropped /\ host' # host =>
              host' \in GuestTexts \/ CopyOnHost(host')]_vars
  BY NoEchoStep
<1>2. QED
  BY <1>1, InitInv, NextInv, InitEcho, NextEcho, PTL DEF Spec, NoEchoInASession

=============================================================================
