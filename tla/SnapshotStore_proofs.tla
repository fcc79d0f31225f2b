------------------------ MODULE SnapshotStore_proofs ------------------------
(***************************************************************************)
(* Proofs about SnapshotStore, for every set of snapshots, every number of *)
(* generations and requests, and both kinds of machine.                    *)
(***************************************************************************)
EXTENDS SnapshotStore, TLAPS

(* Each generation of the machine's files is a function from its files to
   their contents, and has a disk. *)
LEMMA GenerationType ==
    ASSUME NEW n \in 1..MaxGeneration
    PROVE  /\ Generation(n) \in [Files -> Content]
           /\ Generation(n)["disk"] = n
  BY ConstantsAssumption DEF Generation, Files, Content

(* What is of one generation stays so: generations are only added. *)
LEMMA StaysOneGeneration ==
    ASSUME TypeOK, UNCHANGED operatingSystem,
           UNCHANGED written \/ Run,
           NEW files, OneGeneration(files)
    PROVE  OneGeneration(files)'
  <1>1. PICK n \in 1..written : files = Generation(n)
    BY DEF OneGeneration
  <1>2. n \in 1..written'
    BY <1>1, ConstantsAssumption DEF Run, TypeOK
  <1>3. files = Generation(n)'
    BY <1>1 DEF Generation
  <1> QED
    BY <1>2, <1>3 DEF OneGeneration

(* A step that changes neither the machine's files nor the generations keeps
   them of one generation. *)
LEMMA StaysCoherent ==
    ASSUME TypeOK, CoherentUntilHalfDeleted,
           UNCHANGED <<operatingSystem, written, current>>,
           halfDeleted \subseteq halfDeleted'
    PROVE  CoherentUntilHalfDeleted'
  <1> SUFFICES ASSUME halfDeleted' = {}
               PROVE  OneGeneration(current)'
    BY DEF CoherentUntilHalfDeleted, Coherent
  <1>1. OneGeneration(current)
    BY DEF CoherentUntilHalfDeleted, Coherent
  <1> QED
    BY <1>1, StaysOneGeneration DEF OneGeneration, Generation

(* The snapshots that stay known, none of whose files the step touches; a
   delete goes on, or what it leaves is in halfDeleted. *)
LEMMA StaysKnown ==
    ASSUME TypeOK, KnownInv,
           UNCHANGED operatingSystem, UNCHANGED written \/ Run,
           \/ halfDeleted' = halfDeleted \union LeftHalf
           \/ op.kind = "delete" /\ UNCHANGED <<op, halfDeleted>>,
           current'["disk"] # 0,
           \A t \in Snapshots : Known(t)' => /\ Known(t)
                                            /\ snap'[t] = snap[t]
                                            /\ taken'[t] = taken[t]
    PROVE  KnownInv'
  <1> USE DEF KnownInv
  <1>1. operatingSystem' # "windows" => halfDeleted' = {}
    BY DEF LeftHalf, Known, AllOrNothing
  <1>2. ASSUME NEW t \in Snapshots, Known(t)'
        PROVE  \/ AllOrNothing(t)'
               \/ op'.kind = "delete" /\ op'.id = t /\ operatingSystem' = "windows"
               \/ t \in halfDeleted'
    <2>1. AllOrNothing(t)' <=> AllOrNothing(t)
      BY <1>2 DEF AllOrNothing, NoFiles
    <2>2. \/ AllOrNothing(t)
          \/ op.kind = "delete" /\ op.id = t /\ operatingSystem = "windows"
          \/ t \in halfDeleted
      BY <1>2
    <2>3. t \in halfDeleted => t \in halfDeleted'
      OBVIOUS
    <2> QED
      BY <2>1, <2>2, <2>3 DEF AllOrNothing, LeftHalf
  <1>3. ASSUME NEW t \in Snapshots, Known(t)', halfDeleted' = {}
        PROVE  OneGeneration(taken[t])'
    <2>1. Known(t) /\ taken'[t] = taken[t] /\ halfDeleted = {}
      BY <1>3
    <2>2. PICK n \in 1..written : taken[t] = Generation(n)
      BY <2>1 DEF OneGeneration
    <2>3. n \in 1..written'
      BY <2>2, ConstantsAssumption DEF Run, TypeOK
    <2>4. taken'[t] = Generation(n)'
      BY <2>1, <2>2 DEF Generation
    <2> QED
      BY <2>3, <2>4 DEF OneGeneration
  <1> QED
    BY <1>1, <1>2, <1>3

(* A machine has its first generation and no snapshot when it is created. *)
LEMMA InitInv == Init => StoreInv
  <1> SUFFICES ASSUME Init PROVE StoreInv
    OBVIOUS
  <1> USE ConstantsAssumption DEF Init
  <1>1. 1 \in 1..MaxGeneration
    OBVIOUS
  <1>2. TypeOK
    BY <1>1, GenerationType DEF TypeOK, NoFiles, Content
  <1>3. CoherentUntilHalfDeleted
    BY DEF CoherentUntilHalfDeleted, Coherent, OneGeneration
  <1>4. current["disk"] # 0
    BY <1>1, GenerationType
  <1>5. KnownInv /\ CreateInv /\ RestoreInv /\ DeleteInv
    BY <1>4 DEF KnownInv, CreateInv, RestoreInv, DeleteInv, Known, NoOp
  <1> QED
    BY <1>2, <1>3, <1>5 DEF StoreInv

(* The guest's writes. *)
LEMMA RunInv ==
    ASSUME StoreInv, Run
    PROVE  StoreInv'
  <1> USE DEF StoreInv, Run
  <1>1. written \in Nat /\ written' \in 1..MaxGeneration
    BY ConstantsAssumption DEF TypeOK
  <1>2. op.kind \notin {"create", "restore"}
    BY DEF InFlight
  <1>3. TypeOK'
    BY <1>1, GenerationType, ConstantsAssumption DEF TypeOK
  <1>4. CoherentUntilHalfDeleted'
    BY <1>1 DEF CoherentUntilHalfDeleted, Coherent, OneGeneration, Generation
  <1>5. \A t \in Snapshots : Known(t)' => Known(t)
    BY DEF Known
  <1>6. KnownInv'
    <2>1. \/ halfDeleted' = halfDeleted \union LeftHalf
          \/ op.kind = "delete" /\ UNCHANGED <<op, halfDeleted>>
      BY DEF LeftHalf
    <2>2. current'["disk"] # 0
      BY <1>1, GenerationType
    <2> QED
      BY <1>5, <2>1, <2>2, StaysKnown
  <1>7. CreateInv' /\ RestoreInv' /\ DeleteInv'
    BY <1>2 DEF CreateInv, RestoreInv, DeleteInv
  <1> QED
    BY <1>3, <1>4, <1>6, <1>7

(* A request of the user, its start by the actor and the result's return. *)
LEMMA RequestInv ==
    ASSUME StoreInv,
           NEW k \in Kinds, NEW s \in Snapshots,
           Press(k, s) \/ Take(k, s) \/ Returned(k, s)
    PROVE  StoreInv'
  <1> USE DEF StoreInv
  <1>1. CoherentUntilHalfDeleted'
    BY StaysCoherent DEF Press, Take, Returned
  <1>2. ASSUME Press(k, s) \/ Returned(k, s)
        PROVE  KnownInv' /\ \A t \in Snapshots : Known(t)' => Known(t)
    <2>1. \A t \in Snapshots : Known(t)' => Known(t)
      BY <1>2 DEF Press, Returned, Known
    <2>2. \/ halfDeleted' = halfDeleted \union LeftHalf
          \/ op.kind = "delete" /\ UNCHANGED <<op, halfDeleted>>
      BY <1>2 DEF Press, Returned, LeftHalf
    <2>3. current'["disk"] # 0
      BY <1>2 DEF Press, Returned, KnownInv
    <2> QED
      BY <1>2, <2>1, <2>2, <2>3, StaysKnown DEF Press, Returned
  <1>3. CASE Press(k, s)
    <2> USE <1>3 DEF Press
    <2>1. TypeOK'
      BY DEF TypeOK, Request
    <2>2. op.kind = "create" => ~Known(op.id)'
      <3>1. op.kind = "create" => op.id \in Snapshots
        BY DEF TypeOK, NoOp
      <3> QED
        BY <1>2, <3>1 DEF CreateInv
    <2>3. CreateInv'
      BY <2>2 DEF CreateInv, NoFiles, Kinds
    <2>4. RestoreInv' /\ DeleteInv'
      BY DEF RestoreInv, DeleteInv
    <2> QED
      BY <1>1, <1>2, <2>1, <2>3, <2>4
  <1>4. CASE Take(k, s)
    <2> USE <1>4 DEF Take
    <2>1. op' = [kind |-> k, id |-> s, todo |-> Files]
      OBVIOUS
    <2>2. TypeOK'
      BY <2>1 DEF TypeOK
    <2>3. k = "create" => ~Known(s)
      <3> SUFFICES ASSUME k = "create", Known(s)
                   PROVE  FALSE
        OBVIOUS
      <3>1. taken[s] = NoFiles
        BY DEF CreateInv
      <3> QED
        BY <3>1 DEF KnownInv, NoFiles, Files
    <2>4. \A t \in Snapshots : Known(t)' => Known(t)
      BY <2>1 DEF Known, NoOp
    <2>5. \A t \in Snapshots : Known(t)' => taken'[t] = taken[t]
      BY <2>3, <2>4 DEF TypeOK
    <2>6. KnownInv'
      <3>1. halfDeleted' = halfDeleted \union LeftHalf
        BY DEF LeftHalf, NoOp
      <3>2. current'["disk"] # 0
        BY DEF KnownInv
      <3> QED
        BY <2>4, <2>5, <3>1, <3>2, StaysKnown
    <2>7. CreateInv'
      <3>1. \A t \in Snapshots : <<"create", t>> \in pending' => taken'[t] = NoFiles
        BY DEF CreateInv, TypeOK
      <3>2. k = "create" => ~Known(s)' /\ taken'[s] = current
        BY <2>3, <2>4 DEF TypeOK
      <3> QED
        BY <2>1, <3>1, <3>2 DEF CreateInv, NoFiles
    <2>8. RestoreInv' /\ DeleteInv'
      BY <2>1 DEF RestoreInv, DeleteInv, Files
    <2> QED
      BY <1>1, <2>2, <2>6, <2>7, <2>8
  <1>5. CASE Returned(k, s)
    <2> USE <1>5 DEF Returned
    <2>1. TypeOK'
      BY DEF TypeOK
    <2>2. op.kind = "create" => op.id \in Snapshots
      BY DEF TypeOK, NoOp
    <2>3. CreateInv'
      BY <1>2, <2>2 DEF CreateInv, NoFiles
    <2>4. RestoreInv' /\ DeleteInv'
      BY DEF RestoreInv, DeleteInv
    <2> QED
      BY <1>1, <1>2, <2>1, <2>3, <2>4
  <1> QED
    BY <1>3, <1>4, <1>5

(* createSnapshot: the files cloned so far are those of the current state, and
   the snapshot becomes known only when all of them are. *)
LEMMA CreateStepInv ==
    ASSUME StoreInv,
           (\E f \in Files : CreateClone(f)) \/ CreateSave \/ CreateFails
    PROVE  StoreInv'
  <1> USE DEF StoreInv
  <1>1. /\ op.kind = "create"
        /\ op \in [kind: Kinds, id: Snapshots, todo: SUBSET Files]
    <2>1. op.kind = "create"
      BY DEF CreateClone, CreateSave, CreateFails
    <2> QED
      BY <2>1 DEF TypeOK, NoOp
  <1>2. CoherentUntilHalfDeleted'
    BY StaysCoherent DEF CreateClone, CreateSave, CreateFails
  <1>3. /\ halfDeleted' = halfDeleted \union LeftHalf
        /\ current'["disk"] # 0
    BY <1>1 DEF CreateClone, CreateSave, CreateFails, LeftHalf, KnownInv
  <1>4. ASSUME NEW f \in Files, CreateClone(f)
        PROVE  StoreInv'
    <2> USE <1>1, <1>4 DEF CreateClone
    <2>1. /\ op'.kind = "create" /\ op'.id = op.id /\ op'.todo = op.todo \ {f}
          /\ op' \in [kind: Kinds, id: Snapshots, todo: SUBSET Files]
      OBVIOUS
    <2>2. snap' \in [Snapshots -> [Files -> Content]]
      BY DEF TypeOK
    <2>3. TypeOK'
      BY <2>1, <2>2 DEF TypeOK
    <2>4. \A t \in Snapshots : Known(t)' => Known(t) /\ t # op.id
      BY <2>1 DEF Known, CreateInv
    <2>5. \A t \in Snapshots : Known(t)' => snap'[t] = snap[t]
      BY <2>4 DEF TypeOK
    <2>6. KnownInv'
      BY <1>3, <2>4, <2>5, StaysKnown
    <2>7. \A g \in Files \ op'.todo : snap'[op.id][g] = current[g]
      BY <2>1 DEF CreateInv, TypeOK
    <2>8. CreateInv'
      BY <2>1, <2>4, <2>7 DEF CreateInv, NoFiles
    <2>9. RestoreInv' /\ DeleteInv'
      BY <2>1 DEF RestoreInv, DeleteInv
    <2> QED
      BY <1>2, <2>3, <2>6, <2>8, <2>9
  <1>5. CASE CreateSave
    <2> USE <1>1, <1>5 DEF CreateSave
    <2>1. TypeOK'
      BY DEF TypeOK, Request
    <2>2. snap[op.id] = taken[op.id] /\ taken[op.id] = current
      <3>1. /\ snap[op.id] \in [Files -> Content]
            /\ current \in [Files -> Content]
        BY DEF TypeOK
      <3>2. \A f \in Files : snap[op.id][f] = current[f]
        BY DEF CreateInv
      <3>3. snap[op.id] = current
        BY <3>1, <3>2
      <3> QED
        BY <3>3 DEF CreateInv
    <2>3. \A t \in Snapshots : Known(t)' => Known(t) \/ t = op.id
      BY DEF Known, NoOp
    <2>4. ASSUME halfDeleted = {} PROVE OneGeneration(current)
      BY <2>4 DEF CoherentUntilHalfDeleted, Coherent
    <2>5. \A t \in Snapshots : Known(t)' =>
             AllOrNothing(t)' \/ t \in halfDeleted'
      BY <2>2, <2>3 DEF KnownInv, AllOrNothing, NoFiles
    <2>6. \A t \in Snapshots : Known(t)' =>
             (halfDeleted = {} => OneGeneration(taken[t]))
      BY <2>2, <2>3, <2>4 DEF KnownInv
    <2>7. \A t \in Snapshots : Known(t)' => taken[t]["disk"] # 0
      BY <2>2, <2>3 DEF KnownInv
    <2>8. \A t \in Snapshots : OneGeneration(taken[t]) => OneGeneration(taken[t])'
      <3>1. \A n : Generation(n)' = Generation(n)
        BY DEF Generation
      <3> QED
        BY <3>1 DEF OneGeneration
    <2>9. KnownInv'
      BY <2>5, <2>6, <2>7, <2>8 DEF KnownInv
    <2>10. CreateInv' /\ RestoreInv' /\ DeleteInv'
      BY DEF CreateInv, RestoreInv, DeleteInv, NoOp, NoFiles
    <2> QED
      BY <1>2, <2>1, <2>9, <2>10
  <1>6. CASE CreateFails
    <2> USE <1>1, <1>6 DEF CreateFails
    <2>1. snap' \in [Snapshots -> [Files -> Content]]
      BY ConstantsAssumption DEF TypeOK, NoFiles, Content
    <2>2. TypeOK'
      BY <2>1 DEF TypeOK
    <2>3. \A t \in Snapshots : Known(t)' => Known(t) /\ t # op.id
      BY DEF Known, NoOp, CreateInv
    <2>4. \A t \in Snapshots : Known(t)' => snap'[t] = snap[t]
      BY <2>3 DEF TypeOK
    <2>5. KnownInv'
      BY <1>3, <2>3, <2>4, StaysKnown
    <2>6. CreateInv' /\ RestoreInv' /\ DeleteInv'
      BY DEF CreateInv, RestoreInv, DeleteInv, NoOp, NoFiles
    <2> QED
      BY <1>2, <2>2, <2>5, <2>6
  <1> QED
    BY <1>4, <1>5, <1>6

(* What a restore swaps in is all that the snapshot was taken of, the disk
   among it, unless a delete of the snapshot has ended half way. *)
LEMMA SwapsWhole ==
    ASSUME StoreInv, RestoreSwap
    PROVE  /\ op.id \in Snapshots
           /\ Known(op.id)
           /\ current'["disk"] # 0
           /\ op.id \in halfDeleted \/ current' = taken[op.id]
  <1> USE DEF StoreInv, RestoreSwap
  <1>1. op.id \in Snapshots /\ Known(op.id)
    BY DEF TypeOK, NoOp, Known
  <1>2. op.id \in halfDeleted \/ AllOrNothing(op.id)
    BY <1>1 DEF KnownInv
  <1>3. staged = snap[op.id]
    <2>1. /\ staged \in [Files -> Content]
          /\ snap[op.id] \in [Files -> Content]
      BY <1>1 DEF TypeOK
    <2>2. \A f \in Files : staged[f] = snap[op.id][f]
      BY DEF RestoreInv
    <2> QED
      BY <2>1, <2>2
  <1>4. snap[op.id] # NoFiles /\ snap[op.id]["disk"] # 0
    BY DEF RestoreInv, NoFiles, Files
  <1> QED
    BY <1>1, <1>2, <1>3, <1>4 DEF AllOrNothing

(* restoreSnapshot: what is staged so far is what the snapshot holds. *)
LEMMA RestoreStepInv ==
    ASSUME StoreInv,
           (\E f \in Files : RestoreClone(f)) \/ RestoreSwap \/ RestoreFails
    PROVE  StoreInv'
  <1> USE DEF StoreInv
  <1>1. /\ op.kind = "restore"
        /\ op \in [kind: Kinds, id: Snapshots, todo: SUBSET Files]
    <2>1. op.kind = "restore"
      BY DEF RestoreClone, RestoreSwap, RestoreFails
    <2> QED
      BY <2>1 DEF TypeOK, NoOp
  <1>2. current'["disk"] # 0
    BY SwapsWhole DEF RestoreClone, RestoreFails, KnownInv
  <1>3. \A t \in Snapshots : Known(t)' => Known(t)
    BY <1>1 DEF RestoreClone, RestoreSwap, RestoreFails, Known, NoOp
  <1>4. KnownInv'
    <2>1. UNCHANGED <<operatingSystem, written, snap, taken>>
      BY DEF RestoreClone, RestoreSwap, RestoreFails
    <2>2. halfDeleted' = halfDeleted \union LeftHalf
      BY <1>1 DEF RestoreClone, RestoreSwap, RestoreFails, LeftHalf
    <2> QED
      BY <1>2, <1>3, <2>1, <2>2, StaysKnown
  <1>5. ASSUME NEW f \in Files, RestoreClone(f)
        PROVE  StoreInv'
    <2> USE <1>1, <1>5 DEF RestoreClone
    <2>1. /\ op'.kind = "restore" /\ op'.id = op.id
          /\ op'.todo = op.todo \ {f}
          /\ op' \in [kind: Kinds, id: Snapshots, todo: SUBSET Files]
      OBVIOUS
    <2>2. TypeOK'
      BY <2>1 DEF TypeOK
    <2>3. CoherentUntilHalfDeleted'
      BY StaysCoherent
    <2>4. RestoreInv'
      BY <2>1 DEF RestoreInv, TypeOK
    <2>5. CreateInv' /\ DeleteInv'
      BY <2>1 DEF CreateInv, DeleteInv, NoFiles
    <2> QED
      BY <1>4, <2>2, <2>3, <2>4, <2>5
  <1>6. CASE RestoreSwap \/ RestoreFails
    <2> USE <1>1, <1>6 DEF RestoreSwap, RestoreFails
    <2>1. TypeOK'
      BY ConstantsAssumption DEF TypeOK, NoFiles, Content
    <2>2. ASSUME RestoreFails PROVE CoherentUntilHalfDeleted'
      BY <2>2, StaysCoherent
    <2>3. ASSUME RestoreSwap PROVE CoherentUntilHalfDeleted'
      <3> SUFFICES ASSUME halfDeleted = {}
                   PROVE  OneGeneration(current)'
        BY DEF CoherentUntilHalfDeleted, Coherent
      <3>1. OneGeneration(taken[op.id]) /\ current' = taken[op.id]
        BY <2>3, SwapsWhole DEF KnownInv
      <3> QED
        BY <3>1 DEF OneGeneration, Generation
    <2>4. CreateInv' /\ RestoreInv' /\ DeleteInv'
      BY DEF CreateInv, RestoreInv, DeleteInv, NoOp, NoFiles
    <2> QED
      BY <1>4, <1>6, <2>1, <2>2, <2>3, <2>4
  <1> QED
    BY <1>5, <1>6

(* deleteSnapshot: of a Linux snapshot there is one file, so that it is there
   or it is not. *)
LEMMA DeleteFileInv ==
    ASSUME StoreInv, NEW f \in Files, DeleteFile(f)
    PROVE  StoreInv'
  <1> USE DEF StoreInv, DeleteFile
  <1>1. op \in [kind: Kinds, id: Snapshots, todo: SUBSET Files]
    BY DEF TypeOK, NoOp
  <1>2. op.id \in Snapshots /\ Known(op.id)
    BY <1>1 DEF Known
  <1>3. /\ op'.kind = "delete" /\ op'.id = op.id
        /\ op'.todo = op.todo \ {f}
        /\ op' \in [kind: Kinds, id: Snapshots, todo: SUBSET Files]
    BY <1>1
  <1>4. snap' \in [Snapshots -> [Files -> Content]]
    <2>1. 0 \in Content
      BY ConstantsAssumption DEF Content
    <2>2. [snap[op.id] EXCEPT ![f] = 0] \in [Files -> Content]
      BY <1>2, <2>1 DEF TypeOK
    <2> QED
      BY <1>2, <2>1, <2>2 DEF TypeOK
  <1>5. TypeOK'
    BY <1>3, <1>4 DEF TypeOK
  <1>6. CoherentUntilHalfDeleted'
    BY StaysCoherent
  <1>7. \A t \in Snapshots : Known(t)' => Known(t)
    BY <1>3 DEF Known
  <1>8. \A t \in Snapshots : t # op.id => snap'[t] = snap[t]
    BY DEF TypeOK
  <1>9. operatingSystem # "windows" => AllOrNothing(op.id)'
    <2> SUFFICES ASSUME operatingSystem # "windows"
                 PROVE  AllOrNothing(op.id)'
      OBVIOUS
    <2>1. AllOrNothing(op.id) /\ OneGeneration(taken[op.id])
      BY <1>2 DEF KnownInv
    <2>2. snap[op.id] \in [Files -> Content] /\ snap'[op.id] \in [Files -> Content]
      BY <1>2, <1>4 DEF TypeOK
    <2>3. \A g \in Files : snap'[op.id][g] = IF g = f THEN 0 ELSE snap[op.id][g]
      BY <1>2 DEF TypeOK
    <2>4. \A g \in Files : g # "disk" => snap[op.id][g] = 0
      BY <2>1 DEF AllOrNothing, NoFiles, OneGeneration, Generation
    <2>5. CASE f = "disk"
      <3>1. snap'[op.id] = NoFiles
        BY <2>2, <2>3, <2>4, <2>5 DEF NoFiles
      <3> QED
        BY <3>1 DEF AllOrNothing, NoFiles
    <2>6. CASE f # "disk"
      <3>1. snap'[op.id] = snap[op.id]
        BY <2>2, <2>3, <2>4, <2>6
      <3> QED
        BY <2>1, <3>1 DEF AllOrNothing, NoFiles
    <2> QED
      BY <2>5, <2>6
  <1>10. KnownInv'
    <2>1. \A t \in Snapshots : Known(t)' /\ t # op.id =>
             \/ AllOrNothing(t)'
             \/ t \in halfDeleted'
      BY <1>7, <1>8 DEF KnownInv, AllOrNothing, NoFiles
    <2>2. \A t \in Snapshots : OneGeneration(taken[t]) => OneGeneration(taken[t])'
      BY DEF OneGeneration, Generation
    <2>3. \A t \in Snapshots : Known(t)' =>
             /\ taken'[t]["disk"] # 0
             /\ halfDeleted' = {} => OneGeneration(taken[t])'
      BY <1>7, <2>2 DEF KnownInv
    <2> QED
      BY <1>3, <1>9, <2>1, <2>3 DEF KnownInv
  <1>11. DeleteInv'
    BY <1>1, <1>3 DEF DeleteInv, TypeOK
  <1>12. CreateInv' /\ RestoreInv'
    BY <1>3 DEF CreateInv, RestoreInv, NoFiles
  <1> QED
    BY <1>5, <1>6, <1>10, <1>11, <1>12

(* A delete that is done, that fails, or during which the app ends, when it is
   launched again. *)
LEMMA DeleteEndInv ==
    ASSUME StoreInv, DeleteSave \/ DeleteFails \/ Crash
    PROVE  StoreInv'
  <1> USE DEF StoreInv
  <1>1. op.kind = "delete" => op \in [kind: Kinds, id: Snapshots, todo: SUBSET Files]
    BY DEF TypeOK, NoOp
  <1>2. TypeOK'
    BY <1>1, ConstantsAssumption
    DEF DeleteSave, DeleteFails, Crash, TypeOK, Request, LeftHalf, NoFiles, Content
  <1>3. CoherentUntilHalfDeleted'
    BY StaysCoherent DEF DeleteSave, DeleteFails, Crash
  <1>4. \A t \in Snapshots : Known(t)' => Known(t)
    BY DEF DeleteSave, DeleteFails, Crash, Known, NoOp
  <1>5. halfDeleted' = halfDeleted \union LeftHalf
    <2>1. CASE DeleteSave
      <3>1. snap[op.id] = NoFiles
        <4>1. snap[op.id] \in [Files -> Content]
          BY <1>1, <2>1 DEF DeleteSave, TypeOK
        <4>2. \A f \in Files : snap[op.id][f] = 0
          BY <2>1 DEF DeleteSave, DeleteInv
        <4> QED
          BY <4>1, <4>2 DEF NoFiles
      <3>2. LeftHalf = {}
        BY <3>1 DEF LeftHalf
      <3> QED
        BY <2>1, <3>2 DEF DeleteSave
    <2> QED
      BY <2>1 DEF DeleteFails, Crash
  <1>6. UNCHANGED <<operatingSystem, written, current, snap, taken>>
    BY DEF DeleteSave, DeleteFails, Crash
  <1>7. KnownInv'
    BY <1>4, <1>5, <1>6, StaysKnown DEF KnownInv
  <1>8. CreateInv' /\ RestoreInv' /\ DeleteInv'
    BY DEF DeleteSave, DeleteFails, Crash, CreateInv, RestoreInv, DeleteInv,
           NoOp, NoFiles
  <1> QED
    BY <1>2, <1>3, <1>7, <1>8

(* Every step of the user, the guest, the main actor and the SnapshotStore
   actor, and a crash, preserves StoreInv. *)
LEMMA NextInv == StoreInv /\ [Next]_vars => StoreInv'
  <1> SUFFICES ASSUME StoreInv, [Next]_vars
               PROVE  StoreInv'
    OBVIOUS
  <1>1. CASE Next
    BY <1>1, RunInv, RequestInv, CreateStepInv, RestoreStepInv,
       DeleteFileInv, DeleteEndInv DEF Next
  <1>2. CASE UNCHANGED vars
    <2> USE <1>2 DEF vars, StoreInv
    <2>1. TypeOK'
      BY DEF TypeOK
    <2>2. CoherentUntilHalfDeleted'
      BY StaysCoherent
    <2>3. KnownInv'
      BY DEF KnownInv, Known, AllOrNothing, NoFiles, OneGeneration, Generation
    <2>4. CreateInv'
      BY DEF CreateInv, Known, NoFiles
    <2>5. RestoreInv' /\ DeleteInv'
      BY DEF RestoreInv, DeleteInv
    <2> QED
      BY <2>1, <2>2, <2>3, <2>4, <2>5
  <1> QED
    BY <1>1, <1>2

(* create and restore are all or nothing for disk, EFI variables and TPM state
   together, whatever fails and wherever the app ends; the snapshots that a
   delete has left with a part of their files are those in halfDeleted. *)
THEOREM StoreTheorem == Spec => []StoreInv
  BY InitInv, NextInv, PTL DEF Spec

(* Until a delete ends half way, the machine's own files are of one
   generation. *)
THEOREM CoherentTheorem == Spec => []CoherentUntilHalfDeleted
  <1>1. StoreInv => CoherentUntilHalfDeleted
    BY DEF StoreInv
  <1> QED
    BY <1>1, StoreTheorem, PTL

(* A snapshot that snapshots.json lists, and of which no delete has ended half
   way, is whole, or has not even a disk. *)
THEOREM ListedIsWholeTheorem == Spec => []ListedIsWhole
  <1>1. StoreInv => ListedIsWhole
    BY DEF StoreInv, ListedIsWhole, KnownInv, Known, TypeOK
  <1> QED
    BY <1>1, StoreTheorem, PTL

(* Nothing but the guest and restoreSnapshot changes the machine's files, and
   a restore gives it what its snapshot was taken of unless a delete of that
   snapshot has ended half way. *)
THEOREM RestoresTheorem == Spec => RestoresWhatWasTaken
  <1> DEFINE Kept == current' # current =>
         \/ current' = Generation(written')
         \/ /\ op.kind = "restore"
            /\ op.id \in halfDeleted \/ current' = taken[op.id]
  <1>1. StoreInv /\ [Next]_vars => [Kept]_vars
    <2> SUFFICES ASSUME StoreInv, Next, current' # current
                 PROVE  Kept
      BY DEF vars
    <2>1. CASE Run
      BY <2>1 DEF Run
    <2>2. CASE RestoreSwap
      BY <2>2, SwapsWhole DEF RestoreSwap
    <2> QED
      BY <2>1, <2>2 DEF Next, Press, Take, Returned, CreateClone, RestoreClone,
         DeleteFile, CreateSave, CreateFails, RestoreFails, DeleteSave,
         DeleteFails, Crash
  <1> QED
    BY <1>1, StoreTheorem, PTL DEF Spec, RestoresWhatWasTaken

-----------------------------------------------------------------------------
(* The types need nothing of a delete that ends half way. *)
LEMMA TypeNext ==
    ASSUME TypeOK, [Next]_vars
    PROVE  TypeOK'
  <1> USE DEF TypeOK
  <1>1. CASE Run
    <2>1. written + 1 \in 1..MaxGeneration
      BY <1>1, ConstantsAssumption DEF Run
    <2>2. Generation(written + 1) \in [Files -> Content]
      BY <2>1, GenerationType
    <2> QED
      BY <1>1, <2>1, <2>2 DEF Run
  <1>2. ASSUME NEW k \in Kinds, NEW s \in Snapshots,
               Press(k, s) \/ Take(k, s) \/ Returned(k, s)
        PROVE  TypeOK'
    BY <1>2 DEF Press, Take, Returned, Request, Files
  <1>3. op.kind # "none" => op \in [kind: Kinds, id: Snapshots, todo: SUBSET Files]
    BY DEF NoOp
  <1>4. ASSUME NEW f \in Files, CreateClone(f) \/ RestoreClone(f) \/ DeleteFile(f)
        PROVE  TypeOK'
    <2>1. op \in [kind: Kinds, id: Snapshots, todo: SUBSET Files]
      BY <1>3, <1>4 DEF CreateClone, RestoreClone, DeleteFile
    <2>2. 0 \in Content
      BY ConstantsAssumption DEF Content
    <2>3. op' = [op EXCEPT !.todo = @ \ {f}]
      BY <1>4 DEF CreateClone, RestoreClone, DeleteFile
    <2>4. op' \in [kind: Kinds, id: Snapshots, todo: SUBSET Files]
      BY <2>1, <2>3
    <2>5. CASE CreateClone(f)
      BY <2>1, <2>4, <2>5 DEF CreateClone
    <2>6. CASE RestoreClone(f)
      BY <2>1, <2>4, <2>6 DEF RestoreClone
    <2>7. CASE DeleteFile(f)
      BY <2>1, <2>2, <2>4, <2>7 DEF DeleteFile
    <2> QED
      BY <1>4, <2>5, <2>6, <2>7
  <1>5. NoFiles \in [Files -> Content]
    BY ConstantsAssumption DEF NoFiles, Content
  <1>6. CASE CreateSave \/ CreateFails \/ RestoreSwap \/ RestoreFails
             \/ DeleteSave \/ DeleteFails
    <2>1. op \in [kind: Kinds, id: Snapshots, todo: SUBSET Files]
      BY <1>3, <1>6 DEF CreateSave, CreateFails, RestoreSwap, RestoreFails,
         DeleteSave, DeleteFails
    <2> QED
      BY <1>5, <1>6, <2>1 DEF CreateSave, CreateFails, RestoreSwap,
         RestoreFails, DeleteSave, DeleteFails, LeftHalf, Request, Kinds
  <1>7. CASE Crash
    BY <1>5, <1>7 DEF Crash, LeftHalf
  <1>8. CASE UNCHANGED vars
    BY <1>8 DEF vars
  <1> QED
    BY <1>1, <1>2, <1>4, <1>6, <1>7, <1>8 DEF Next

(* The user's requests: an identifier that is taken was not listed, and
   restore and delete are offered for a snapshot that is shown. *)
LEMMA PressKeepsList ==
    ASSUME TypeOK, ListInv, NEW k \in Kinds, NEW s \in Snapshots, Press(k, s)
    PROVE  ListInv'
  BY DEF Press, ListInv, Unlisted, Doing, Kinds

LEMMA TakeKeepsList ==
    ASSUME TypeOK, ListInv, NEW k \in Kinds, NEW s \in Snapshots, Take(k, s)
    PROVE  ListInv'
  <1> USE DEF Take
  <1>1. \A t \in Snapshots : taken'[t] = IF k = "create" /\ t = s
                                         THEN current ELSE taken[t]
    BY DEF TypeOK
  <1>2. op.kind = "none" /\ op'.kind = k /\ op'.id = s /\ op'.todo = Files
    BY DEF NoOp
  <1>3. \A t \in Snapshots, d \in Kinds : Doing(d, t)' => Doing(d, t)
    BY <1>2 DEF Doing
  <1>4. \A t \in Snapshots : Unlisted(t) => Unlisted(t)'
    BY <1>3 DEF Unlisted, Kinds
  <1>5. "disk" \in op'.todo
    BY <1>2 DEF Files
  <1>6. current # NoFiles /\ NoFiles' = NoFiles
    BY DEF ListInv, NoFiles, Files
  <1> QED
    BY <1>1, <1>2, <1>3, <1>4, <1>5, <1>6 DEF ListInv, Kinds

LEMMA ReturnedKeepsList ==
    ASSUME TypeOK, ListInv, NEW k \in Kinds, NEW s \in Snapshots, Returned(k, s)
    PROVE  ListInv'
  BY DEF Returned, ListInv, Unlisted, Doing, Kinds

(* The steps of the actor that list nothing and return nothing. *)
LEMMA FileStepsKeepList ==
    ASSUME TypeOK, ListInv, TypeOK',
           UNCHANGED <<taken, json, shown, returning, pending>>,
           \/ op' = NoOp
           \/ op'.kind = op.kind /\ op'.id = op.id,
           current'["disk"] # 0,
           op'.kind = "restore" /\ "disk" \notin op'.todo => staged'["disk"] # 0
    PROVE  ListInv'
  <1>1. \A t \in Snapshots, d \in Kinds : Doing(d, t)' => Doing(d, t)
    BY DEF Doing, NoOp, Kinds
  <1>2. \A t \in Snapshots : Unlisted(t) => Unlisted(t)'
    BY <1>1 DEF Unlisted, Kinds
  <1> QED
    BY <1>1, <1>2 DEF ListInv, NoOp, Kinds

LEMMA StoreKeepsList ==
    ASSUME TypeOK, ListInv, TypeOK',
           \/ \E f \in Files : CreateClone(f) \/ RestoreClone(f) \/ DeleteFile(f)
           \/ CreateFails \/ RestoreSwap \/ RestoreFails \/ DeleteFails
    PROVE  ListInv'
  <1>1. UNCHANGED <<taken, json, shown, returning, pending>>
    BY DEF CreateClone, RestoreClone, DeleteFile, CreateFails, RestoreSwap,
       RestoreFails, DeleteFails
  <1>2. op \in [kind: Kinds, id: Snapshots, todo: SUBSET Files]
    <2>1. op.kind # "none"
      BY DEF CreateClone, RestoreClone, DeleteFile, CreateFails, RestoreSwap,
         RestoreFails, DeleteFails
    <2> QED
      BY <2>1 DEF TypeOK, NoOp
  <1>3. op' = NoOp \/ (op'.kind = op.kind /\ op'.id = op.id)
    BY <1>2 DEF CreateClone, RestoreClone, DeleteFile, CreateFails, RestoreSwap,
       RestoreFails, DeleteFails
  <1>4. current'["disk"] # 0
    <2>1. CASE RestoreSwap
      BY <2>1 DEF RestoreSwap, ListInv
    <2> QED
      BY <2>1 DEF ListInv, CreateClone, RestoreClone, DeleteFile, CreateFails,
         RestoreFails, DeleteFails
  <1>5. op'.kind = "restore" /\ "disk" \notin op'.todo => staged'["disk"] # 0
    <2>1. ASSUME NEW f \in Files, RestoreClone(f)
          PROVE  "disk" \notin op'.todo => staged'["disk"] # 0
      BY <1>2, <2>1 DEF RestoreClone, NextFile, ListInv, TypeOK, Files
    <2>2. ASSUME NEW f \in Files, CreateClone(f) \/ DeleteFile(f)
          PROVE  op'.kind # "restore"
      BY <1>2, <2>2 DEF CreateClone, DeleteFile
    <2>3. CASE CreateFails \/ RestoreSwap \/ RestoreFails \/ DeleteFails
      BY <2>3 DEF CreateFails, RestoreSwap, RestoreFails, DeleteFails, NoOp
    <2> QED
      BY <2>1, <2>2, <2>3
  <1> QED
    BY <1>1, <1>3, <1>4, <1>5, FileStepsKeepList

(* snapshots.json changes together with what is returned. *)
LEMMA SaveKeepsList ==
    ASSUME TypeOK, ListInv, CreateSave \/ DeleteSave
    PROVE  ListInv'
  <1>1. op \in [kind: Kinds, id: Snapshots, todo: SUBSET Files]
    BY DEF CreateSave, DeleteSave, TypeOK, NoOp
  <1>2. CASE CreateSave
    BY <1>1, <1>2 DEF CreateSave, ListInv, Unlisted, Doing, NoOp, Kinds
  <1>3. CASE DeleteSave
    BY <1>1, <1>3 DEF DeleteSave, ListInv, Unlisted, Doing, NoOp, Kinds
  <1> QED
    BY <1>2, <1>3

LEMMA ListNext ==
    ASSUME TypeOK, ListInv, TypeOK', [Next]_vars
    PROVE  ListInv'
  <1>1. CASE Run
    <2>1. written + 1 \in 1..MaxGeneration
      BY <1>1, ConstantsAssumption DEF Run, TypeOK
    <2>2. current'["disk"] # 0
      BY <1>1, <2>1, GenerationType DEF Run
    <2> QED
      BY <1>1, <2>2 DEF Run, ListInv, Unlisted, Doing
  <1>2. CASE Crash
    BY <1>2 DEF Crash, ListInv, Unlisted, Doing, NoOp
  <1>3. CASE UNCHANGED vars
    BY <1>3 DEF vars, ListInv, Unlisted, Doing
  <1> QED
    BY <1>1, <1>2, <1>3, PressKeepsList, TakeKeepsList, ReturnedKeepsList,
       StoreKeepsList, SaveKeepsList DEF Next

(* When nothing is in flight, the user is offered what snapshots.json lists:
   here a delete may fail, or the app may end, between any two of its steps. *)
THEOREM ShownIsListedTheorem == Spec => []ShownIsListed
  <1>1. Init => TypeOK /\ ListInv
    <2> SUFFICES ASSUME Init PROVE TypeOK /\ ListInv
      OBVIOUS
    <2>1. TypeOK
      BY InitInv DEF StoreInv
    <2>2. current["disk"] = 1
      BY GenerationType, ConstantsAssumption DEF Init
    <2> QED
      BY <2>1, <2>2 DEF Init, ListInv, Unlisted, Doing, NoOp
  <1>2. TypeOK /\ ListInv /\ [Next]_vars => (TypeOK /\ ListInv)'
    BY TypeNext, ListNext
  <1>3. TypeOK /\ ListInv => ShownIsListed
    BY DEF TypeOK, ListInv, ShownIsListed
  <1> QED
    BY <1>1, <1>2, <1>3, PTL DEF Spec

=============================================================================
