---------------------------- MODULE RecordProofs ----------------------------
(***************************************************************************)
(* Operations that do not overlap, whose loads of the record and log calls *)
(* do not fail; any number of disks, stages and mount points.  Whatever    *)
(* else fails, times out or crashes, as long as nobody interferes while an *)
(* operation runs: what it has learnt about disks, images and mounts stays *)
(* true, and stacks move as LayerStack says.  With interference: the       *)
(* record outlives its layers.  A record that cannot be loaded breaks all  *)
(* of it (run unreadable), and so does a log call that raises after the    *)
(* record is saved.                                                        *)
(***************************************************************************)
EXTENDS RunnerProofs

LayersAccurate == ImagesUnique /\ RecordAccurate /\ DevicesAccurate

\* What the process knows at its point of the code.
Knows(p) == MountBuilds(p) /\ MountOverDeadRecord(p) /\ StaleChecked(p) /\ UnmountProgress(p)

LEMMA AllKnow ==
  /\ RecordInvariant <=> LayersAccurate /\ \A p \in Procs : Knows(p)
  /\ RecordInvariant' <=> LayersAccurate' /\ \A p \in Procs : Knows(p)'
BY DEF RecordInvariant, LayersAccurate, Knows

LEMMA IdleKnows == ASSUME NEW p, op[p].pc = "idle" PROVE Knows(p)
BY DEF Knows, MountBuilds, MountOverDeadRecord, StaleChecked, UnmountProgress, MountLabels,
       StaleLabels, UnmountLabels

LEMMA EndKnows == ASSUME NEW p, op'[p].pc = "idle" PROVE Knows(p)'
BY DEF Knows, MountBuilds, MountOverDeadRecord, StaleChecked, UnmountProgress, MountLabels,
       StaleLabels, UnmountLabels

LEMMA FinishKnows == ASSUME TypeOK, NEW p \in Procs, Finish(p) PROVE Knows(p)'
BY FinishStep, EndKnows DEF NoOperation

-----------------------------------------------------------------------------
(* How the machine changes *)

\* Taking a volume out of the mount table.
LEMMA UnmountedLayers ==
  ASSUME TypeOK, Assigned, LayersAccurate, NEW q \in Points, Unmounted(q),
         UNCHANGED <<attached, fuse, unlocking, session>>
  PROVE  /\ LayersAccurate'
         /\ \A s \in Stages : HasVolume(s)' => HasVolume(s)
         /\ \A s \in Stages : HasImage(s)' <=> HasImage(s)
         /\ volume'[q] = None /\ \A r \in Points : r # q => volume'[r] = volume[r]
<1> USE ConstantsOK DEF LayersAccurate, TypeOK
<1>1. /\ volume'[q] = None /\ device'[q] = None
      /\ \A r \in Points : r # q => volume'[r] = volume[r] /\ device'[r] = device[r]
  BY DEF Unmounted
<1>2. ImagesUnique' /\ \A s \in Stages : HasImage(s)' <=> HasImage(s)
  BY DEF ImagesUnique, HasImage
<1>3. RecordAccurate' /\ \A s \in Stages : HasVolume(s)' => HasVolume(s)
  BY <1>1 DEF RecordAccurate, Assigned, HasVolume
<1>4. DevicesAccurate'
  BY <1>1 DEF DevicesAccurate
<1> QED
  BY <1>1, <1>2, <1>3, <1>4

\* Detaching a disk.
LEMMA DetachedLayers ==
  ASSUME TypeOK, Assigned, LayersAccurate, NEW d \in Disks, Detached(d),
         UNCHANGED <<fuse, unlocking, session>>
  PROVE  /\ LayersAccurate'
         /\ \A s \in Stages : HasVolume(s)' => HasVolume(s)
         /\ \A s \in Stages : HasImage(s)' <=> HasImage(s) /\ s # attached[d]
<1> USE ConstantsOK DEF Detached, TypeOK, LayersAccurate
<1>1. ImagesUnique'
  BY DEF ImagesUnique
<1>2. \A q \in Points : volume'[q] = volume[q] \/ volume'[q] = None
  OBVIOUS
<1>3. RecordAccurate'
  BY <1>2 DEF RecordAccurate, Assigned
<1>4. DevicesAccurate'
  BY DEF DevicesAccurate
<1>5. \A s \in Stages : HasVolume(s)' => HasVolume(s)
  BY <1>2 DEF HasVolume
<1>6. \A s \in Stages : HasImage(s)' <=> HasImage(s) /\ s # attached[d]
  BY DEF HasImage, ImagesUnique
<1> QED
  BY <1>1, <1>3, <1>4, <1>5, <1>6

LEMMA SameLayers ==
  ASSUME LayersAccurate, UNCHANGED <<machine, session>>
  PROVE  /\ LayersAccurate'
         /\ \A s \in Stages : HasVolume(s)' <=> HasVolume(s)
         /\ \A s \in Stages : HasImage(s)' <=> HasImage(s)
BY DEF LayersAccurate, ImagesUnique, RecordAccurate, DevicesAccurate, HasVolume, HasImage, machine

\* Removing a record.
LEMMA ClearedLayers ==
  ASSUME LayersAccurate, UNCHANGED <<attached, volume, device, fuse>>, unlocking' \subseteq unlocking,
         session' \in {NoSession, session}
  PROVE  /\ LayersAccurate'
         /\ \A s \in Stages : HasVolume(s)' <=> HasVolume(s)
         /\ \A s \in Stages : HasImage(s)' <=> HasImage(s)
         /\ session'.kind = "valid" => session' = session
BY DEF LayersAccurate, ImagesUnique, RecordAccurate, DevicesAccurate, HasVolume, HasImage, NoSession

-----------------------------------------------------------------------------
(* Validation *)

LEMMA ValidateKnows ==
  ASSUME ~ LoadMayFail, TypeOK, Assigned, NEW p \in Procs, LayersAccurate, Knows(p), Validate(p)
  PROVE  LayersAccurate' /\ Knows(p)'
<1> USE DEF machine, At
<1>1. CASE LoadForMount(p)
  <2>1. LayersAccurate'
    BY <1>1, SameLayers DEF LoadForMount
  <2>2. CASE session.kind \in {"none", "legacy"} /\ Goto(p, "prepare")
    <3>1. op'[p].pc = "prepare" /\ session' = session
      BY <1>1, <2>2, GotoStep DEF LoadForMount, MountLabels
    <3> QED
      BY <2>1, <2>2, <3>1
         DEF Knows, MountBuilds, MountOverDeadRecord, StaleChecked, UnmountProgress, UnmountLabels
  <2>3. CASE session.kind = "valid" /\ op' = [op EXCEPT ![p] = OnSession("staleMounts")]
    <3>1. /\ op'[p].pc = "staleMounts" /\ op'[p].stage = session.stage
          /\ op'[p].point = session.point /\ session' = session
      BY <1>1, <2>3, OnSessionType DEF LoadForMount, MountLabels, TypeOK
    <3> QED
      BY <2>1, <2>3, <3>1
         DEF Knows, MountBuilds, MountOverDeadRecord, StaleChecked, UnmountProgress, UnmountLabels,
             StaleLabels
  <2> QED
    BY <1>1, <2>2, <2>3 DEF LoadForMount
<1>2. CASE CheckMounts(p)
  <2>1. /\ LayersAccurate' /\ session' = session /\ fuse' = fuse
        /\ \A s \in Stages : HasVolume(s)' <=> HasVolume(s)
    BY <1>2, SameLayers DEF CheckMounts
  <2>2. CASE /\ volume[op[p].point] = None /\ op[p].stage \notin fuse
             /\ Goto(p, "staleImages")
    <3>1. /\ op'[p].pc = "staleImages" /\ op'[p].stage = op[p].stage
          /\ op'[p].point = op[p].point
      BY <2>2, GotoStep DEF MountLabels
    <3>2. /\ session.kind = "valid" /\ session.stage = op[p].stage
          /\ session.point = op[p].point /\ op[p].stage \in Stages
      BY <1>2 DEF CheckMounts, Knows, StaleChecked, Assigned
    <3>3. ~ HasVolume(op[p].stage)
      BY <2>2, <3>2, ConstantsOK DEF LayersAccurate, RecordAccurate, HasVolume
    <3> QED
      BY <2>1, <2>2, <3>1, <3>2, <3>3
         DEF Knows, MountBuilds, MountOverDeadRecord, StaleChecked, UnmountProgress, UnmountLabels,
             StaleLabels
  <2> QED
    BY <1>2, <2>1, <2>2, FinishKnows DEF CheckMounts
<1>3. CASE CheckImages(p)
  <2>1. /\ LayersAccurate' /\ session' = session /\ fuse' = fuse
        /\ \A s \in Stages : (HasVolume(s)' <=> HasVolume(s)) /\ (HasImage(s)' <=> HasImage(s))
    BY <1>3, SameLayers DEF CheckImages
  <2>2. CASE ~ HasImage(op[p].stage) /\ Goto(p, "clearStale")
    <3>1. /\ op'[p].pc = "clearStale" /\ op'[p].stage = op[p].stage
          /\ op'[p].point = op[p].point
      BY <2>2, GotoStep DEF MountLabels
    <3>2. /\ session.kind = "valid" /\ session.stage = op[p].stage
          /\ session.point = op[p].point /\ op[p].stage \in Stages
          /\ op[p].stage \notin fuse /\ ~ HasVolume(op[p].stage)
      BY <1>3 DEF CheckImages, Knows, StaleChecked, Assigned
    <3>3. ~ Live(op[p].stage)'
      BY <2>1, <2>2, <3>1, <3>2 DEF Live
    <3> QED
      BY <2>1, <3>1, <3>2, <3>3
         DEF Knows, MountBuilds, MountOverDeadRecord, StaleChecked, UnmountProgress, UnmountLabels,
             StaleLabels
  <2> QED
    BY <1>3, <2>1, <2>2, FinishKnows DEF CheckImages
<1>4. CASE ClearStale(p)
  <2>1. op'[p].pc = "dropStale" /\ op'[p].stage = op[p].stage
    BY <1>4, GotoStep DEF ClearStale, MountLabels
  <2>2. /\ session.kind = "valid" /\ session.stage = op[p].stage /\ op[p].stage \in Stages
        /\ ~ Live(op[p].stage) /\ op[p].stage \notin unlocking
    BY <1>4 DEF ClearStale, Knows, StaleChecked, Assigned, LayersAccurate, RecordAccurate
  <2>3. /\ LayersAccurate'
        /\ session'.kind = "valid" => session' = session
        /\ fuse' = fuse /\ unlocking' = unlocking
        /\ \A s \in Stages : (HasVolume(s)' <=> HasVolume(s)) /\ (HasImage(s)' <=> HasImage(s))
    BY <1>4, ClearedLayers DEF ClearStale, Cleared
  <2>4. ~ Live(op[p].stage)'
    BY <2>1, <2>2, <2>3 DEF Live
  <2> QED
    BY <2>1, <2>2, <2>3, <2>4
       DEF Knows, MountBuilds, MountOverDeadRecord, StaleChecked, UnmountProgress, UnmountLabels,
           StaleLabels
<1>5. CASE DropStale(p)
  <2>1. op'[p].pc = "prepare" /\ UNCHANGED <<machine, session>>
    BY <1>5 DEF DropStale, TypeOK, NoOperation
  <2>2. session.kind = "valid" => ~ Live(session.stage) /\ session.stage \in Stages
    BY <1>5 DEF DropStale, Knows, StaleChecked, Assigned
  <2>3. LayersAccurate' /\ session' = session /\ (session.kind = "valid" => ~ Live(session.stage)')
    BY <2>1, <2>2, SameLayers DEF Live
  <2> QED
    BY <2>1, <2>3
       DEF Knows, MountBuilds, MountOverDeadRecord, StaleChecked, UnmountProgress, UnmountLabels,
           StaleLabels
<1> QED
  BY <1>1, <1>2, <1>3, <1>4, <1>5 DEF Validate

-----------------------------------------------------------------------------
(* The mount pipeline *)

\* A record that is left while a mount runs is dead and of another stage.
LEMMA DeadStays ==
  ASSUME TypeOK, Assigned, session.kind = "valid" => ~ Live(session.stage),
         UNCHANGED session,
         session.kind = "valid" => (session.stage \in fuse' => session.stage \in fuse),
         session.kind = "valid" => (HasImage(session.stage)' => HasImage(session.stage)),
         session.kind = "valid" => (HasVolume(session.stage)' => HasVolume(session.stage))
  PROVE  session'.kind = "valid" => ~ Live(session.stage)'
BY DEF Live

LEMMA PrepareKnows ==
  ASSUME TypeOK, Assigned, NEW p \in Procs, LayersAccurate, Knows(p),
         PrepareFuseMount(p) \/ AllocatePoint(p)
  PROVE  LayersAccurate' /\ Knows(p)'
<1> USE DEF machine, At
<1>1. /\ LayersAccurate' /\ UNCHANGED <<machine, session>>
      /\ \A s \in Stages : (HasVolume(s)' <=> HasVolume(s)) /\ (HasImage(s)' <=> HasImage(s))
  BY SameLayers DEF PrepareFuseMount, AllocatePoint
<1>2. session.kind = "valid" => ~ Live(session.stage) /\ session.stage \in Stages
  BY DEF PrepareFuseMount, AllocatePoint, Knows, MountOverDeadRecord, MountLabels, StaleLabels,
         Assigned
<1>3. session'.kind = "valid" => ~ Live(session.stage)'
  BY <1>1, <1>2, DeadStays
<1>4. ASSUME NEW s \in Stages, Fresh(s),
             op' = [op EXCEPT ![p].stage = s, ![p].pc = "allocate"]
      PROVE  Knows(p)'
  <2>1. op'[p].pc = "allocate" /\ op'[p].stage = s
    BY <1>4 DEF TypeOK, Operation
  <2>2. /\ session.stage # s /\ s \notin fuse \cup unlocking
        /\ ~ HasImage(s)' /\ ~ HasVolume(s)'
    BY <1>1, <1>4 DEF Fresh, Live
  <2> QED
    BY <1>1, <1>3, <2>1, <2>2
       DEF Knows, MountBuilds, MountOverDeadRecord, StaleChecked, UnmountProgress, UnmountLabels,
           StaleLabels
<1>5. ASSUME NEW q \in Points, op[p].pc = "allocate",
             op' = [op EXCEPT ![p].point = q, ![p].pc = "startFuse"]
      PROVE  Knows(p)'
  <2>1. op'[p].pc = "startFuse" /\ op'[p].stage = op[p].stage /\ op[p].stage \in Stages
    BY <1>5 DEF TypeOK, Operation, Assigned, AssignedAt
  <2>2. /\ session.kind = "valid" => session.stage # op[p].stage
        /\ op[p].stage \notin fuse \cup unlocking
        /\ ~ HasImage(op[p].stage) /\ ~ HasVolume(op[p].stage)
    BY <1>5 DEF Knows, MountBuilds, MountLabels, StaleLabels
  <2>3. ASSUME NEW s, s = op[p].stage PROVE ~ HasImage(s)' /\ ~ HasVolume(s)'
    BY <1>1, <2>1, <2>2, <2>3
  <2> QED
    BY <1>1, <1>3, <2>1, <2>2, <2>3
       DEF Knows, MountBuilds, MountOverDeadRecord, StaleChecked, UnmountProgress, UnmountLabels,
           StaleLabels
<1> QED
  BY <1>1, <1>4, <1>5, FinishKnows DEF PrepareFuseMount, AllocatePoint

\* What a mount knows from StartFuse to its end; from a failure on, only that
\* the record is not of its stage and dead.
LEMMA BuildingKnows ==
  ASSUME TypeOK, Assigned, NEW p \in Procs, Knows(p),
         op[p].pc \in MountLabels \ (StaleLabels \cup {"prepare", "allocate"})
  PROVE  /\ op[p].stage \in Stages /\ op[p].point \in Points
         /\ session.kind = "valid" =>
              ~ Live(session.stage) /\ session.stage \in Stages /\ session.stage # op[p].stage
BY DEF Knows, MountBuilds, MountOverDeadRecord, Assigned, AssignedAt, MountLabels, StaleLabels

LEMMA FailureKnows ==
  ASSUME TypeOK, Assigned, NEW p \in Procs, Knows(p),
         op[p].pc \in MountLabels \ (StaleLabels \cup {"prepare", "allocate"}),
         NEW label \in {"cleanVolume", "cleanImage", "cleanFuse", "cleanRecord"}, Goto(p, label),
         session'.kind = "valid" => ~ Live(session.stage)', UNCHANGED session
  PROVE  Knows(p)'
<1>1. op'[p].pc = label /\ op'[p].stage = op[p].stage
  BY GotoStep DEF MountLabels
<1>2. session.kind = "valid" => session.stage # op[p].stage
  BY BuildingKnows
<1> QED
  BY <1>1, <1>2
     DEF Knows, MountBuilds, MountOverDeadRecord, StaleChecked, UnmountProgress, UnmountLabels,
         StaleLabels

LEMMA FuseKnows ==
  ASSUME TypeOK, Assigned, NEW p \in Procs, LayersAccurate, Knows(p), StartFuse(p) \/ WaitForFile(p)
  PROVE  LayersAccurate' /\ Knows(p)'
<1> USE DEF machine, At
<1>1. PICK s \in Stages : s = op[p].stage
  BY DEF StartFuse, WaitForFile, Assigned, AssignedAt
<1>2. /\ op[p].pc \in {"startFuse", "waitFuse"}
      /\ UNCHANGED <<attached, volume, device, fuse, session>>
      /\ unlocking' \in {unlocking, unlocking \cup {s}}
      /\ unlocking' # unlocking => op[p].pc = "startFuse"
  BY <1>1 DEF StartFuse, WaitForFile
<1>3. /\ ~ HasImage(s) /\ ~ HasVolume(s)
      /\ op[p].pc = "startFuse" => s \notin fuse
      /\ session.kind = "valid" =>
           ~ Live(session.stage) /\ session.stage \in Stages /\ session.stage # s
  BY <1>1, <1>2, BuildingKnows DEF Knows, MountBuilds, MountLabels, StaleLabels
<1>4. /\ LayersAccurate'
      /\ \A t \in Stages : (HasVolume(t)' <=> HasVolume(t)) /\ (HasImage(t)' <=> HasImage(t))
  BY <1>2, <1>3 DEF LayersAccurate, ImagesUnique, RecordAccurate, DevicesAccurate, HasVolume, HasImage
<1>5. session'.kind = "valid" => ~ Live(session.stage)'
  BY <1>2, <1>3, <1>4, DeadStays
<1>6. CASE Goto(p, "cleanVolume")
  BY <1>2, <1>4, <1>5, <1>6, FailureKnows DEF MountLabels, StaleLabels
<1>7. ASSUME Goto(p, "waitFuse") \/ (s \in fuse /\ Goto(p, "attach"))
      PROVE  Knows(p)'
  <2>1. /\ op'[p].pc \in {"waitFuse", "attach"} /\ op'[p].stage = s
        /\ op'[p].pc = "attach" => s \in fuse'
    BY <1>1, <1>2, <1>7, GotoStep DEF MountLabels
  <2>2. ~ HasImage(s)' /\ ~ HasVolume(s)'
    BY <1>3, <1>4
  <2> QED
    BY <1>2, <1>3, <1>5, <2>1, <2>2
       DEF Knows, MountBuilds, MountOverDeadRecord, StaleChecked, UnmountProgress, UnmountLabels,
           StaleLabels
<1> QED
  BY <1>1, <1>4, <1>6, <1>7 DEF StartFuse, WaitForFile

LEMMA AttachKnows ==
  ASSUME TypeOK, Assigned, NEW p \in Procs, LayersAccurate, Knows(p), Attach(p)
  PROVE  LayersAccurate' /\ Knows(p)'
<1> USE ConstantsOK DEF machine, At
<1>1. PICK s \in Stages : s = op[p].stage
  BY DEF Attach, Assigned, AssignedAt
<1>2. /\ op[p].pc = "attach" /\ UNCHANGED <<volume, device, fuse, unlocking, session>>
      /\ ~ HasImage(s) /\ ~ HasVolume(s) /\ s \in fuse
      /\ session.kind = "valid" =>
           ~ Live(session.stage) /\ session.stage \in Stages /\ session.stage # s
  BY <1>1, BuildingKnows DEF Attach, Knows, MountBuilds, MountLabels, StaleLabels
<1>3. CASE UNCHANGED attached /\ Goto(p, "cleanVolume")
  <2>1. /\ LayersAccurate'
        /\ \A t \in Stages : (HasVolume(t)' <=> HasVolume(t)) /\ (HasImage(t)' <=> HasImage(t))
    BY <1>2, <1>3, SameLayers
  <2>2. session'.kind = "valid" => ~ Live(session.stage)'
    BY <1>2, <2>1, DeadStays
  <2> QED
    BY <1>2, <1>3, <2>1, <2>2, FailureKnows DEF MountLabels, StaleLabels
<1>4. ASSUME NEW d \in Disks, attached[d] = None, attached' = [attached EXCEPT ![d] = s],
             \/ op' = [op EXCEPT ![p].disk = d, ![p].pc = "mountVolume"]
             \/ Goto(p, "cleanVolume")
      PROVE  LayersAccurate' /\ Knows(p)'
  <2>1. attached'[d] = s /\ \A e \in Disks : e # d => attached'[e] = attached[e]
    BY <1>4 DEF TypeOK
  <2>2. ImagesUnique'
    BY <1>2, <2>1 DEF LayersAccurate, ImagesUnique, HasImage
  <2>3. RecordAccurate'
    BY <1>2 DEF LayersAccurate, RecordAccurate
  <2>4. DevicesAccurate'
    BY <1>2, <1>4, <2>1 DEF LayersAccurate, DevicesAccurate, TypeOK
  <2>5. \A t \in Stages : (HasVolume(t)' <=> HasVolume(t)) /\ (t # s => (HasImage(t)' <=> HasImage(t)))
    BY <1>2, <1>4, <2>1 DEF HasVolume, HasImage
  <2>6. session'.kind = "valid" => ~ Live(session.stage)'
    BY <1>2, <2>5, DeadStays
  <2>7. CASE Goto(p, "cleanVolume")
    BY <1>2, <2>2, <2>3, <2>4, <2>6, <2>7, FailureKnows DEF MountLabels, StaleLabels, LayersAccurate
  <2>8. CASE op' = [op EXCEPT ![p].disk = d, ![p].pc = "mountVolume"]
    <3>1. op'[p].pc = "mountVolume" /\ op'[p].disk = d /\ op'[p].stage = s
      BY <1>1, <2>8 DEF TypeOK, Operation
    <3>2. ~ HasVolume(s)' /\ s \in fuse' /\ attached'[d] = s
      BY <1>2, <2>1, <2>5
    <3>3. Knows(p)'
      BY <1>2, <2>6, <3>1, <3>2
         DEF Knows, MountBuilds, MountOverDeadRecord, StaleChecked, UnmountProgress, UnmountLabels,
             StaleLabels
    <3> QED
      BY <2>2, <2>3, <2>4, <3>3 DEF LayersAccurate
  <2> QED
    BY <1>4, <2>7, <2>8
<1> QED
  BY <1>1, <1>3, <1>4 DEF Attach

LEMMA MountVolumeKnows ==
  ASSUME TypeOK, Assigned, NEW p \in Procs, LayersAccurate, Knows(p), MountDecryptedVolume(p)
  PROVE  LayersAccurate' /\ Knows(p)'
<1> USE ConstantsOK DEF machine, At
<1>1. PICK s \in Stages, q \in Points, d \in Disks :
        s = op[p].stage /\ q = op[p].point /\ d = op[p].disk
  BY DEF MountDecryptedVolume, Assigned, AssignedAt
<1>2. /\ op[p].pc = "mountVolume" /\ UNCHANGED <<attached, fuse, unlocking, session>>
      /\ attached[d] = s /\ ~ HasVolume(s) /\ s \in fuse
      /\ session.kind = "valid" =>
           ~ Live(session.stage) /\ session.stage \in Stages /\ session.stage # s
  BY <1>1, BuildingKnows DEF MountDecryptedVolume, Knows, MountBuilds, MountLabels, StaleLabels
<1>3. CASE UNCHANGED <<volume, device>> /\ Goto(p, "cleanVolume")
  <2>1. /\ LayersAccurate'
        /\ \A t \in Stages : (HasVolume(t)' <=> HasVolume(t)) /\ (HasImage(t)' <=> HasImage(t))
    BY <1>2, <1>3, SameLayers
  <2>2. session'.kind = "valid" => ~ Live(session.stage)'
    BY <1>2, <2>1, DeadStays
  <2> QED
    BY <1>2, <1>3, <2>1, <2>2, FailureKnows DEF MountLabels, StaleLabels
<1>4. ASSUME volume[q] = None, volume' = [volume EXCEPT ![q] = s],
             NEW node \in {d, NonDev}, device' = [device EXCEPT ![q] = node],
             Goto(p, "save") \/ Goto(p, "cleanVolume")
      PROVE  LayersAccurate' /\ Knows(p)'
  <2>1. /\ volume'[q] = s /\ device'[q] = node
        /\ \A r \in Points : r # q => volume'[r] = volume[r] /\ device'[r] = device[r]
    BY <1>4 DEF TypeOK
  <2>2. ImagesUnique'
    BY <1>2 DEF LayersAccurate, ImagesUnique
  <2>3. RecordAccurate'
    BY <1>2, <2>1 DEF LayersAccurate, RecordAccurate
  <2>4. DevicesAccurate'
    BY <1>2, <1>4, <2>1 DEF LayersAccurate, DevicesAccurate, TypeOK
  <2>5. \A t \in Stages : (HasImage(t)' <=> HasImage(t)) /\ (t # s => (HasVolume(t)' <=> HasVolume(t)))
    BY <1>2, <1>4, <2>1 DEF HasVolume, HasImage
  <2>6. session'.kind = "valid" => ~ Live(session.stage)'
    BY <1>2, <2>5, DeadStays
  <2>7. CASE Goto(p, "cleanVolume")
    BY <1>2, <2>2, <2>3, <2>4, <2>6, <2>7, FailureKnows DEF MountLabels, StaleLabels, LayersAccurate
  <2>8. CASE Goto(p, "save")
    <3>1. op'[p].pc = "save" /\ op'[p].disk = d /\ op'[p].stage = s /\ op'[p].point = q
      BY <1>1, <2>8, GotoStep DEF MountLabels
    <3>2. s \in fuse' /\ attached'[d] = s /\ volume'[q] = s
          /\ \A r \in Points : volume'[r] = s => r = q
      BY <1>2, <2>1 DEF HasVolume
    <3>3. Knows(p)'
      BY <1>2, <2>6, <3>1, <3>2
         DEF Knows, MountBuilds, MountOverDeadRecord, StaleChecked, UnmountProgress, UnmountLabels,
             StaleLabels
    <3> QED
      BY <2>2, <2>3, <2>4, <3>3 DEF LayersAccurate
  <2> QED
    BY <1>4, <2>7, <2>8
<1> QED
  BY <1>1, <1>2, <1>3, <1>4 DEF MountDecryptedVolume

LEMMA SaveKnows ==
  ASSUME ~ LogMayFail, TypeOK, Assigned, NEW p \in Procs, LayersAccurate, Knows(p), SaveSession(p)
  PROVE  LayersAccurate' /\ Knows(p)'
<1> USE ConstantsOK DEF machine, At
<1>1. PICK s \in Stages, q \in Points : s = op[p].stage /\ q = op[p].point
  BY DEF SaveSession, Assigned, AssignedAt
<1>2. /\ op[p].pc = "save" /\ UNCHANGED machine /\ s \in fuse
      /\ \A r \in Points : volume[r] = s => r = q
      /\ session.kind = "valid" =>
           ~ Live(session.stage) /\ session.stage \in Stages /\ session.stage # s
  BY <1>1, BuildingKnows DEF SaveSession, Knows, MountBuilds, MountLabels, StaleLabels
<1>3. CASE UNCHANGED session /\ Goto(p, "cleanVolume")
  <2>1. /\ LayersAccurate'
        /\ \A t \in Stages : (HasVolume(t)' <=> HasVolume(t)) /\ (HasImage(t)' <=> HasImage(t))
    BY <1>2, <1>3, SameLayers
  <2>2. session'.kind = "valid" => ~ Live(session.stage)'
    BY <1>2, <1>3, <2>1, DeadStays
  <2> QED
    BY <1>2, <1>3, <2>1, <2>2, FailureKnows DEF MountLabels, StaleLabels
<1>4. CASE session' = [kind |-> "valid", stage |-> s, point |-> q] /\ Finish(p)
  <2>1. LayersAccurate'
    BY <1>2, <1>4 DEF LayersAccurate, ImagesUnique, RecordAccurate, DevicesAccurate
  <2> QED
    BY <1>4, <2>1, FinishKnows
<1> QED
  BY <1>1, <1>3, <1>4 DEF SaveSession

LEMMA CleanupKnows ==
  ASSUME TypeOK, Assigned, NEW p \in Procs, LayersAccurate, Knows(p), BestEffortCleanup(p)
  PROVE  LayersAccurate' /\ Knows(p)'
<1> USE ConstantsOK DEF machine, At
<1>1. PICK s \in Stages, q \in Points : s = op[p].stage /\ q = op[p].point
  BY DEF BestEffortCleanup, CleanVolume, CleanImage, CleanFuse, CleanRecord, Assigned, AssignedAt
<1>2. /\ op[p].pc \in {"cleanVolume", "cleanImage", "cleanFuse", "cleanRecord"}
      /\ op[p].pc \in MountLabels \ (StaleLabels \cup {"prepare", "allocate"})
      /\ session.kind = "valid" =>
           ~ Live(session.stage) /\ session.stage \in Stages /\ session.stage # s
  <2>1. op[p].pc \in {"cleanVolume", "cleanImage", "cleanFuse", "cleanRecord"}
    BY DEF BestEffortCleanup, CleanVolume, CleanImage, CleanFuse, CleanRecord
  <2> QED
    BY <1>1, <2>1, BuildingKnows DEF MountLabels, StaleLabels
<1>3. ASSUME LayersAccurate', UNCHANGED session, fuse' \subseteq fuse,
             \A t \in Stages : (HasVolume(t)' => HasVolume(t)) /\ (HasImage(t)' => HasImage(t)),
             NEW label \in {"cleanImage", "cleanFuse", "cleanRecord"}, Goto(p, label)
      PROVE  LayersAccurate' /\ Knows(p)'
  <2>1. session'.kind = "valid" => ~ Live(session.stage)'
    BY <1>2, <1>3, DeadStays
  <2> QED
    BY <1>2, <1>3, <2>1, FailureKnows
<1>4. CASE CleanVolume(p)
  <2>1. CASE Unmounted(q)
    BY <1>1, <1>3, <1>4, <2>1, UnmountedLayers DEF CleanVolume
  <2>2. CASE UNCHANGED <<volume, device>>
    BY <1>3, <1>4, <2>2, SameLayers DEF CleanVolume
  <2> QED
    BY <1>1, <1>4, <2>1, <2>2 DEF CleanVolume
<1>5. CASE CleanImage(p)
  <2>1. ASSUME NEW d \in Disks, Detached(d) PROVE LayersAccurate' /\ Knows(p)'
    BY <1>3, <1>5, <2>1, DetachedLayers DEF CleanImage
  <2>2. CASE UNCHANGED <<attached, volume, device>>
    BY <1>3, <1>5, <2>2, SameLayers DEF CleanImage
  <2>3. op[p].disk \in Disks \cup {None}
    BY DEF TypeOK, Operation
  <2> QED
    BY <1>5, <2>1, <2>2, <2>3 DEF CleanImage
<1>6. CASE CleanFuse(p)
  <2>1. fuse' \subseteq fuse /\ UNCHANGED <<attached, volume, device, unlocking, session>>
    BY <1>6 DEF CleanFuse
  <2>2. /\ LayersAccurate'
        /\ \A t \in Stages : (HasVolume(t)' <=> HasVolume(t)) /\ (HasImage(t)' <=> HasImage(t))
    BY <2>1 DEF LayersAccurate, ImagesUnique, RecordAccurate, DevicesAccurate, HasVolume, HasImage
  <2> QED
    BY <1>3, <1>6, <2>1, <2>2 DEF CleanFuse
<1>7. CASE CleanRecord(p)
  BY <1>7, ClearedLayers, FinishKnows DEF CleanRecord, Cleared
<1> QED
  BY <1>4, <1>5, <1>6, <1>7 DEF BestEffortCleanup

-----------------------------------------------------------------------------
(* The unmount *)

LEMMA UnmountingKnows ==
  ASSUME TypeOK, Assigned, NEW p \in Procs, Knows(p), op[p].pc \in UnmountLabels
  PROVE  /\ session.kind = "valid" /\ session.stage = op[p].stage /\ session.point = op[p].point
         /\ op[p].stage \in Stages /\ op[p].point \in Points
BY DEF Knows, UnmountProgress, Assigned

LEMMA UnmountKeeps ==
  ASSUME NEW p \in Procs, op'[p].pc \in UnmountLabels, UnmountProgress(p)'
  PROVE  Knows(p)'
BY DEF Knows, MountBuilds, MountOverDeadRecord, StaleChecked, MountLabels, UnmountLabels, StaleLabels

LEMMA UnmountBegins ==
  ASSUME TypeOK, Assigned, NEW p \in Procs, LayersAccurate, Knows(p),
         LoadForUnmount(p) \/ SnapshotImages(p)
  PROVE  LayersAccurate' /\ Knows(p)'
<1> USE DEF machine, At
<1>1. /\ LayersAccurate' /\ UNCHANGED <<attached, session>>
      /\ \A t \in Stages : HasImage(t)' <=> HasImage(t)
  BY SameLayers DEF LoadForUnmount, SnapshotImages
<1>2. CASE LoadForUnmount(p)
  <2>1. /\ op'[p].pc = "snapshot" /\ op'[p].stage = session.stage
        /\ op'[p].point = session.point /\ session.kind = "valid"
    BY <1>2, OnSessionType DEF LoadForUnmount, UnmountLabels, TypeOK
  <2>2. UnmountProgress(p)'
    BY <1>1, <2>1 DEF UnmountProgress
  <2> QED
    BY <1>1, <2>1, <2>2, UnmountKeeps DEF UnmountLabels
<1>3. CASE SnapshotImages(p)
  <2>1. PICK s \in Stages : /\ s = op[p].stage /\ session.kind = "valid"
                            /\ session.stage = s /\ session.point = op[p].point
    BY <1>3, UnmountingKnows DEF SnapshotImages, UnmountLabels
  <2>2. PICK d \in Disks \cup {None, Unknown} :
          /\ d \in Disks => attached[d] = s
          /\ d = None => ~ HasImage(s)
          /\ op' = [op EXCEPT ![p].found = d, ![p].pc = "unmountVolume"]
    BY <1>3, <2>1 DEF SnapshotImages
  <2>3. /\ op'[p].pc = "unmountVolume" /\ op'[p].stage = s
        /\ op'[p].point = op[p].point /\ op'[p].found = d
    BY <2>1, <2>2 DEF TypeOK, Operation
  <2>4. d = None => ~ HasImage(s)'
    BY <1>1, <2>2
  <2>5. UnmountProgress(p)'
    BY <1>1, <2>1, <2>2, <2>3, <2>4 DEF UnmountProgress
  <2> QED
    BY <1>1, <2>3, <2>5, UnmountKeeps DEF UnmountLabels
<1> QED
  BY <1>2, <1>3

LEMMA UnmountVolumeKnows ==
  ASSUME TypeOK, Assigned, NEW p \in Procs, LayersAccurate, Knows(p),
         UnmountVolume(p) \/ UnmountVolumeForce(p)
  PROVE  LayersAccurate' /\ Knows(p)'
<1> USE ConstantsOK DEF machine, At
<1>1. PICK s \in Stages, q \in Points :
        /\ s = op[p].stage /\ q = op[p].point /\ session.kind = "valid"
        /\ session.stage = s /\ session.point = q
  BY UnmountingKnows DEF UnmountVolume, UnmountVolumeForce, UnmountLabels
<1>2. /\ op[p].pc \in {"unmountVolume", "unmountVolumeForce"}
      /\ UNCHANGED <<attached, fuse, unlocking, session>>
  BY DEF UnmountVolume, UnmountVolumeForce
<1>3. /\ op[p].found \in Disks => attached[op[p].found] = s
      /\ op[p].found = None => ~ HasImage(s)
  BY <1>1, <1>2 DEF Knows, UnmountProgress
<1>4. ASSUME NEW label \in {"unmountVolumeForce", "detach"}, Goto(p, label),
             LayersAccurate', HasImage(s)' <=> HasImage(s),
             label = "detach" => ~ HasVolume(s)'
      PROVE  Knows(p)'
  <2>1. /\ op'[p].pc = label /\ op'[p].stage = s /\ op'[p].point = q
        /\ op'[p].found = op[p].found
    BY <1>1, <1>4, GotoStep DEF UnmountLabels, MountLabels
  <2>2. UnmountProgress(p)'
    BY <1>1, <1>2, <1>3, <1>4, <2>1 DEF UnmountProgress
  <2> QED
    BY <2>1, <2>2, UnmountKeeps DEF UnmountLabels
<1>5. CASE Unmounted(q)
  <2>1. /\ LayersAccurate' /\ (HasImage(s)' <=> HasImage(s)) /\ volume'[q] = None
    BY <1>2, <1>5, UnmountedLayers
  <2>2. ~ HasVolume(s)'
    BY <1>1, <1>2, <2>1 DEF LayersAccurate, RecordAccurate, HasVolume
  <2> QED
    BY <1>1, <1>4, <2>1, <2>2, <1>5, FinishKnows DEF UnmountVolume, UnmountVolumeForce, Unmounted
<1>6. CASE UNCHANGED <<volume, device>>
  <2>1. LayersAccurate' /\ (HasImage(s)' <=> HasImage(s)) /\ (HasVolume(s)' <=> HasVolume(s))
    BY <1>2, <1>6, SameLayers
  <2>2. volume[q] = None => ~ HasVolume(s)
    BY <1>1 DEF LayersAccurate, RecordAccurate, HasVolume
  <2>3. CASE UnmountVolume(p)
    <3>1. Finish(p) \/ Goto(p, "unmountVolumeForce") \/ (volume[q] = None /\ Goto(p, "detach"))
          \/ Unmounted(q)
      BY <1>1, <2>3 DEF UnmountVolume
    <3> QED
      BY <1>4, <1>5, <2>1, <2>2, <3>1, FinishKnows
  <2>4. CASE UnmountVolumeForce(p)
    <3>1. Finish(p) \/ Unmounted(q)
      BY <1>1, <2>4 DEF UnmountVolumeForce
    <3> QED
      BY <1>5, <2>1, <3>1, FinishKnows
  <2> QED
    BY <2>3, <2>4
<1>7. Unmounted(q) \/ UNCHANGED <<volume, device>>
  BY <1>1 DEF UnmountVolume, UnmountVolumeForce
<1> QED
  BY <1>5, <1>6, <1>7

LEMMA DetachKnows ==
  ASSUME TypeOK, Assigned, NEW p \in Procs, LayersAccurate, Knows(p),
         DetachRawDisk(p) \/ DetachForce(p)
  PROVE  LayersAccurate' /\ Knows(p)'
<1> USE ConstantsOK DEF machine, At
<1>1. PICK s \in Stages :
        /\ s = op[p].stage /\ session.kind = "valid"
        /\ session.stage = s /\ session.point = op[p].point
  BY UnmountingKnows DEF DetachRawDisk, DetachForce, UnmountLabels
<1>2. /\ op[p].pc \in {"detach", "detachForce"} /\ ~ HasVolume(s)
      /\ UNCHANGED <<fuse, unlocking, session>>
  BY <1>1 DEF DetachRawDisk, DetachForce, Knows, UnmountProgress
<1>3. ASSUME NEW d \in Disks, attached[d] \in {s, None}, Detached(d)
      PROVE  LayersAccurate' /\ ~ HasImage(s)' /\ ~ HasVolume(s)' /\ attached'[d] = None
  <2>1. attached[d] = s /\ attached'[d] = None
    BY <1>3 DEF Detached, TypeOK
  <2> QED
    BY <1>2, <1>3, <2>1, DetachedLayers
<1>4. ASSUME UNCHANGED <<attached, volume, device>>
      PROVE  LayersAccurate' /\ ~ HasVolume(s)' /\ (HasImage(s)' <=> HasImage(s))
  BY <1>2, <1>4, SameLayers
<1>5. ASSUME op'[p].pc = "unmountFuse", op'[p].stage = s, op'[p].point = op[p].point,
             ~ op'[p].errors => ~ HasImage(s)', ~ HasVolume(s)'
      PROVE  Knows(p)'
  <2>1. UnmountProgress(p)'
    BY <1>1, <1>2, <1>5 DEF UnmountProgress
  <2> QED
    BY <1>5, <2>1, UnmountKeeps DEF UnmountLabels
<1>6. ASSUME Goto(p, "unmountFuse"), ~ HasImage(s)', ~ HasVolume(s)' PROVE Knows(p)'
  BY <1>1, <1>5, <1>6, GotoStep DEF UnmountLabels
<1>7. ASSUME op' = [op EXCEPT ![p].errors = TRUE, ![p].pc = "unmountFuse"], ~ HasVolume(s)'
      PROVE  Knows(p)'
  <2>1. /\ op'[p].pc = "unmountFuse" /\ op'[p].stage = s /\ op'[p].point = op[p].point
        /\ op'[p].errors
    BY <1>1, <1>7 DEF TypeOK, Operation
  <2> QED
    BY <1>5, <1>7, <2>1
<1>8. CASE DetachRawDisk(p)
  <2>1. /\ op[p].found \in Disks => attached[op[p].found] = s
        /\ op[p].found = None => ~ HasImage(s)
        /\ op[p].found \in Disks \cup {None, Unknown}
    BY <1>1, <1>8 DEF DetachRawDisk, Knows, UnmountProgress, TypeOK, Operation
  <2>2. \A d \in SessionImage(p) : d \in Disks /\ attached[d] = s
    BY <1>1, <2>1 DEF SessionImage
  <2>3. SessionImage(p) = {} => ~ HasImage(s)
    BY <1>1, <2>1 DEF SessionImage, HasImage
  <2>4. CASE SessionImage(p) = {} /\ Goto(p, "unmountFuse") /\ UNCHANGED <<attached, volume, device>>
    BY <1>4, <1>6, <2>3, <2>4
  <2>5. CASE /\ op' = [op EXCEPT ![p].errors = TRUE, ![p].pc = "unmountFuse"]
             /\ UNCHANGED <<attached, volume, device>>
    BY <1>4, <1>7, <2>5
  <2>6. ASSUME NEW d \in SessionImage(p), Detached(d), Goto(p, "unmountFuse")
        PROVE  LayersAccurate' /\ Knows(p)'
    BY <1>3, <1>6, <2>2, <2>6
  <2>7. ASSUME NEW d \in SessionImage(p), Detached(d) \/ UNCHANGED <<attached, volume, device>>,
               op' = [op EXCEPT ![p].found = d, ![p].pc = "detachForce"]
        PROVE  LayersAccurate' /\ Knows(p)'
    <3>1. d \in Disks /\ attached[d] = s
      BY <2>2
    <3>2. LayersAccurate' /\ ~ HasVolume(s)' /\ attached'[d] \in {s, None}
      BY <1>3, <1>4, <2>7, <3>1
    <3>3. /\ op'[p].pc = "detachForce" /\ op'[p].stage = s /\ op'[p].point = op[p].point
          /\ op'[p].found = d
      BY <1>1, <2>7 DEF TypeOK, Operation
    <3>4. UnmountProgress(p)'
      BY <1>1, <1>2, <3>2, <3>3 DEF UnmountProgress
    <3> QED
      BY <3>2, <3>3, <3>4, UnmountKeeps DEF UnmountLabels
  <2> QED
    BY <1>8, <2>4, <2>5, <2>6, <2>7 DEF DetachRawDisk
<1>9. CASE DetachForce(p)
  <2>1. PICK d \in Disks : d = op[p].found /\ attached[d] \in {s, None}
    BY <1>1, <1>9 DEF DetachForce, Knows, UnmountProgress, Assigned, AssignedAt
  <2>2. CASE Detached(d) /\ Goto(p, "unmountFuse")
    BY <1>3, <1>6, <2>1, <2>2
  <2>3. CASE /\ Detached(d) \/ UNCHANGED <<attached, volume, device>>
             /\ op' = [op EXCEPT ![p].errors = TRUE, ![p].pc = "unmountFuse"]
    BY <1>3, <1>4, <1>7, <2>1, <2>3
  <2> QED
    BY <1>9, <2>1, <2>2, <2>3 DEF DetachForce
<1> QED
  BY <1>8, <1>9

LEMMA UnmountEnds ==
  ASSUME TypeOK, Assigned, NEW p \in Procs, LayersAccurate, Knows(p),
         UnmountFuse(p) \/ RemoveDirs(p) \/ ClearRecord(p)
  PROVE  LayersAccurate' /\ Knows(p)'
<1> USE DEF machine, At
<1>1. PICK s \in Stages :
        /\ s = op[p].stage /\ session.kind = "valid"
        /\ session.stage = s /\ session.point = op[p].point
  BY UnmountingKnows DEF UnmountFuse, RemoveDirs, ClearRecord, UnmountLabels
<1>2. ASSUME NEW label \in {"removeDirs", "clearRecord"}, Goto(p, label), ~ Live(s)',
             UNCHANGED session
      PROVE  Knows(p)'
  <2>1. op'[p].pc = label /\ op'[p].stage = s /\ op'[p].point = op[p].point
    BY <1>1, <1>2, GotoStep DEF UnmountLabels
  <2>2. UnmountProgress(p)'
    BY <1>1, <1>2, <2>1 DEF UnmountProgress
  <2> QED
    BY <2>1, <2>2, UnmountKeeps DEF UnmountLabels
<1>3. CASE UnmountFuse(p)
  <2>1. /\ UNCHANGED <<attached, volume, device, unlocking, session>>
        /\ fuse' \in {fuse, fuse \ {s}}
    BY <1>1, <1>3 DEF UnmountFuse
  <2>2. /\ LayersAccurate'
        /\ (HasVolume(s)' <=> HasVolume(s)) /\ (HasImage(s)' <=> HasImage(s))
    BY <2>1 DEF LayersAccurate, ImagesUnique, RecordAccurate, DevicesAccurate, HasVolume, HasImage
  <2>3. ~ HasVolume(s) /\ (~ op[p].errors => ~ HasImage(s))
    BY <1>1, <1>3 DEF UnmountFuse, Knows, UnmountProgress
  <2>4. CASE fuse' = fuse \ {s} /\ ~ op[p].errors /\ Goto(p, "removeDirs")
    <3>1. ~ Live(s)'
      BY <2>2, <2>3, <2>4 DEF Live
    <3> QED
      BY <1>2, <2>1, <2>2, <2>4, <3>1
  <2> QED
    BY <1>1, <1>3, <2>2, <2>4, FinishKnows DEF UnmountFuse
<1>4. CASE RemoveDirs(p)
  <2>1. /\ LayersAccurate' /\ UNCHANGED <<session, fuse>>
        /\ (HasVolume(s)' <=> HasVolume(s)) /\ (HasImage(s)' <=> HasImage(s))
    BY <1>4, SameLayers DEF RemoveDirs
  <2>2. ~ Live(s)
    BY <1>1, <1>4 DEF RemoveDirs, Knows, UnmountProgress
  <2>3. ~ Live(s)'
    BY <2>1, <2>2 DEF Live
  <2> QED
    BY <1>2, <1>4, <2>1, <2>3, FinishKnows DEF RemoveDirs
<1>5. CASE ClearRecord(p)
  BY <1>5, ClearedLayers, FinishKnows DEF ClearRecord, Cleared
<1> QED
  BY <1>3, <1>4, <1>5

-----------------------------------------------------------------------------
(* What happens around the program *)

LEMMA ProgramKnows ==
  ASSUME ~ LogMayFail, ~ LoadMayFail, TypeOK, Assigned, NEW p \in Procs, LayersAccurate,
         Knows(p), Program(p)
  PROVE  LayersAccurate' /\ Knows(p)'
BY ValidateKnows, PrepareKnows, FuseKnows, AttachKnows, MountVolumeKnows, SaveKnows, CleanupKnows,
   UnmountBegins, UnmountVolumeKnows, DetachKnows, UnmountEnds DEF Program, MountPipeline, Unmount

LEMMA UnlockingKnows ==
  ASSUME TypeOK, NEW p \in Procs, LayersAccurate, Knows(p), NEW s \in Stages,
         FuseComesUp(s) \/ FuseGivesUp(s)
  PROVE  LayersAccurate' /\ Knows(p)'
<1>1. /\ UNCHANGED <<attached, volume, device, session, op>>
      /\ s \in unlocking /\ unlocking' = unlocking \ {s} /\ fuse' \in {fuse, fuse \cup {s}}
  BY DEF FuseComesUp, FuseGivesUp
<1>2. LayersAccurate'
  BY <1>1 DEF LayersAccurate, ImagesUnique, RecordAccurate, DevicesAccurate
<1>3. session.kind = "valid" => session.stage # s
  BY <1>1 DEF LayersAccurate, RecordAccurate
<1>4. MountBuilds(p)'
  BY <1>1 DEF Knows, MountBuilds, HasImage, HasVolume, MountLabels, StaleLabels
<1>5. MountOverDeadRecord(p)'
  BY <1>1, <1>3 DEF Knows, MountOverDeadRecord, Live, HasImage, HasVolume
<1>6. StaleChecked(p)'
  BY <1>1, <1>3 DEF Knows, StaleChecked, Live, HasImage, HasVolume
<1>7. UnmountProgress(p)'
  BY <1>1, <1>3 DEF Knows, UnmountProgress, Live, HasImage, HasVolume, UnmountLabels
<1> QED
  BY <1>2, <1>4, <1>5, <1>6, <1>7 DEF Knows

\* Others at work while no operation runs.
LEMMA UndisturbedKnows ==
  ASSUME ~ Interference, TypeOK, Assigned, NEW p \in Procs, Undisturbed, UNCHANGED op
  PROVE  Knows(p)'
BY EndKnows DEF Undisturbed, At

LEMMA OthersKnow ==
  ASSUME TypeOK, Assigned, LayersAccurate,
         \/ \E s \in Stages : HandUnmountFuse(s)
         \/ \E d \in Disks : ForeignAttach(d) \/ ForeignDetach(d) \/ HandDetach(d)
         \/ \E d, e \in Disks : Renumber(d, e)
         \/ \E q \in Points : ForeignMount(q) \/ Eject(q) \/ TouchDir(q)
         \/ RemoveUntrusted
  PROVE  LayersAccurate' /\ Undisturbed /\ UNCHANGED op
<1> USE ConstantsOK DEF machine
<1>1. ASSUME NEW s \in Stages, HandUnmountFuse(s)
      PROVE  LayersAccurate' /\ Undisturbed /\ UNCHANGED op
  BY <1>1 DEF HandUnmountFuse, LayersAccurate, ImagesUnique, RecordAccurate, DevicesAccurate
<1>2. ASSUME NEW d \in Disks, ForeignAttach(d)
      PROVE  LayersAccurate' /\ Undisturbed /\ UNCHANGED op
  <2>1. \A e \in Disks : attached'[e] = IF e = d THEN Foreign ELSE attached[e]
    BY <1>2 DEF ForeignAttach, TypeOK
  <2>2. \A q \in Points : device[q] # d
    BY <1>2 DEF ForeignAttach, LayersAccurate, DevicesAccurate
  <2>3. ImagesUnique'
    BY <1>2, <2>1 DEF ForeignAttach, LayersAccurate, ImagesUnique
  <2>4. RecordAccurate' /\ DevicesAccurate'
    BY <1>2, <2>1, <2>2 DEF ForeignAttach, LayersAccurate, RecordAccurate, DevicesAccurate
  <2> QED
    BY <1>2, <2>3, <2>4 DEF ForeignAttach, LayersAccurate
<1>3. ASSUME NEW d \in Disks, ForeignDetach(d) \/ HandDetach(d)
      PROVE  LayersAccurate' /\ Undisturbed /\ UNCHANGED op
  BY <1>3, DetachedLayers DEF ForeignDetach, HandDetach
<1>4. ASSUME NEW d \in Disks, NEW e \in Disks, Renumber(d, e)
      PROVE  LayersAccurate' /\ Undisturbed /\ UNCHANGED op
  <2>1. /\ d # e /\ attached[d] \in Stages
        /\ attached'[d] = None /\ attached'[e] = attached[d]
        /\ \A c \in Disks \ {d, e} : attached'[c] = attached[c]
    BY <1>4 DEF Renumber, TypeOK
  <2>2. \A q \in Points : device[q] # d /\ device[q] # e
    BY <1>4 DEF Renumber, LayersAccurate, DevicesAccurate
  <2>3. ImagesUnique'
    <3>1. UNCHANGED <<fuse, unlocking>> /\ fuse \cap unlocking = {}
      BY <1>4 DEF Renumber, LayersAccurate, ImagesUnique
    <3>2. \A a, b \in Disks : attached'[a] \in Stages /\ attached'[a] = attached'[b] => a = b
      <4> SUFFICES ASSUME NEW a \in Disks, NEW b \in Disks,
                          attached'[a] \in Stages, attached'[a] = attached'[b]
                   PROVE  a = b
        OBVIOUS
      <4>1. \A x, y \in Disks : attached[x] \in Stages /\ attached[x] = attached[y] => x = y
        BY DEF LayersAccurate, ImagesUnique
      <4>2. a # d /\ b # d
        BY <2>1
      <4>3. CASE a = e
        BY <2>1, <4>1, <4>2, <4>3
      <4>4. CASE a # e
        BY <2>1, <4>1, <4>2, <4>4
      <4> QED
        BY <4>3, <4>4
    <3> QED
      BY <3>1, <3>2 DEF ImagesUnique
  <2>4. RecordAccurate' /\ DevicesAccurate'
    BY <1>4, <2>1, <2>2 DEF Renumber, LayersAccurate, RecordAccurate, DevicesAccurate
  <2> QED
    BY <1>4, <2>3, <2>4 DEF Renumber, LayersAccurate
<1>5. ASSUME NEW q \in Points, ForeignMount(q)
      PROVE  LayersAccurate' /\ Undisturbed /\ UNCHANGED op
  <2>1. PICK node \in {d \in Disks : attached[d] = Foreign} \cup {NonDev} :
          device' = [device EXCEPT ![q] = node]
    BY <1>5 DEF ForeignMount
  <2>2. /\ volume'[q] = Foreign /\ device'[q] = node
        /\ \A r \in Points : r # q => volume'[r] = volume[r] /\ device'[r] = device[r]
    BY <1>5, <2>1 DEF ForeignMount, TypeOK
  <2>3. ImagesUnique' /\ RecordAccurate'
    BY <1>5, <2>2 DEF ForeignMount, LayersAccurate, ImagesUnique, RecordAccurate, Assigned
  <2>4. DevicesAccurate'
    <3>1. UNCHANGED attached /\ Foreign # None
      BY <1>5 DEF ForeignMount
    <3> QED
      BY <2>2, <3>1 DEF LayersAccurate, DevicesAccurate
  <2> QED
    BY <1>5, <2>3, <2>4 DEF ForeignMount, LayersAccurate
<1>6. ASSUME NEW q \in Points, Eject(q)
      PROVE  LayersAccurate' /\ Undisturbed /\ UNCHANGED op
  BY <1>6, UnmountedLayers DEF Eject
<1>7. ASSUME NEW q \in Points, TouchDir(q)
      PROVE  LayersAccurate' /\ Undisturbed /\ UNCHANGED op
  BY <1>7, SameLayers DEF TouchDir
<1>8. CASE RemoveUntrusted
  BY <1>8, ClearedLayers DEF RemoveUntrusted
<1> QED
  BY <1>1, <1>2, <1>3, <1>4, <1>5, <1>6, <1>7, <1>8

LEMMA OutsideKnows ==
  ASSUME ~ Interference, TypeOK, Assigned, OperationsSerialized, OperationsSerialized',
         NEW p \in Procs, LayersAccurate, Knows(p), Outside
  PROVE  LayersAccurate' /\ Knows(p)'
<1>1. ASSUME NEW r \in Procs, Crash(r) PROVE LayersAccurate' /\ Knows(p)'
  <2>1. LayersAccurate'
    BY <1>1, SameLayers DEF Crash
  <2>2. CASE p = r
    BY <1>1, <2>1, <2>2, FinishKnows DEF Crash
  <2>3. CASE p # r
    BY <1>1, <2>1, <2>3, OthersWait, EndKnows
  <2> QED
    BY <2>2, <2>3
<1>2. CASE Reboot
  <2>1. op'[p].pc = "idle"
    BY <1>2 DEF Reboot, NoOperation
  <2>2. LayersAccurate'
    BY <1>2, ConstantsOK
       DEF Reboot, LayersAccurate, ImagesUnique, RecordAccurate, DevicesAccurate, Assigned
  <2> QED
    BY <2>1, <2>2, EndKnows
<1>3. ASSUME NEW s \in Stages, FuseComesUp(s) \/ FuseGivesUp(s)
      PROVE  LayersAccurate' /\ Knows(p)'
  BY <1>3, UnlockingKnows
<1> QED
  BY <1>1, <1>2, <1>3, OthersKnow, UndisturbedKnows DEF Outside

LEMMA InitKnows == Init => RecordInvariant
<1> SUFFICES ASSUME Init PROVE RecordInvariant
  OBVIOUS
<1> USE ConstantsOK
<1>1. session.kind # "valid"
  BY DEF Init, NoSession
<1>2. fuse \cap unlocking = {}
  BY DEF Init
<1>3. \A d, e \in Disks : attached[d] \in Stages /\ attached[d] = attached[e] => d = e
  BY DEF Init
<1>4. DevicesAccurate
  BY DEF Init, DevicesAccurate
<1>5. \A p \in Procs : Knows(p)
  BY IdleKnows DEF Init, NoOperation
<1> QED
  BY <1>1, <1>2, <1>3, <1>4, <1>5 DEF RecordInvariant, ImagesUnique, RecordAccurate, Knows

LEMMA NextKnows ==
  ASSUME ~ Interference, ~ LogMayFail, ~ LoadMayFail, TypeOK, Assigned, OperationsSerialized,
         OperationsSerialized', LayersAccurate, \A r \in Procs : Knows(r), NEW p \in Procs,
         [Next]_vars
  PROVE  LayersAccurate' /\ Knows(p)'
<1>1. ASSUME NEW r \in Procs, Program(r) PROVE LayersAccurate' /\ Knows(p)'
  <2>1. LayersAccurate' /\ Knows(r)'
    BY <1>1, ProgramKnows
  <2>2. CASE p # r
    BY <1>1, <2>1, <2>2, OthersWait, EndKnows
  <2> QED
    BY <2>1, <2>2
<1>2. CASE UNCHANGED vars
  <2>1. LayersAccurate'
    BY <1>2, SameLayers DEF vars, machine
  <2>2. Knows(p)'
    BY <1>2 DEF vars, Knows, MountBuilds, MountOverDeadRecord, StaleChecked, UnmountProgress, Live,
                HasImage, HasVolume
  <2> QED
    BY <2>1, <2>2
<1> QED
  BY <1>1, <1>2, OutsideKnows DEF Next

-----------------------------------------------------------------------------
(* Theorems *)

\* As long as operations do not overlap, nobody interferes with one, and neither
\* loads of the record nor the log after save_session fail, what each knows at
\* its point of the code is true: what is on record, what an unmount has taken
\* down, what a mount has built.
THEOREM RecordAlwaysAccurate ==
  ASSUME ~ Interference, ~ LogMayFail, ~ LoadMayFail
  PROVE  Spec /\ []OperationsSerialized => []RecordInvariant
<1>1. /\ TypeOK /\ Assigned /\ OperationsSerialized /\ OperationsSerialized'
      /\ RecordInvariant /\ [Next]_vars
      => RecordInvariant'
  <2> SUFFICES ASSUME TypeOK, Assigned, OperationsSerialized, OperationsSerialized',
                      RecordInvariant, [Next]_vars
               PROVE  RecordInvariant'
    OBVIOUS
  <2>1. CASE Procs = {}
    <3>1. LayersAccurate
      BY DEF RecordInvariant, LayersAccurate
    <3>2. LayersAccurate'
      <4>1. CASE UNCHANGED vars
        BY <3>1, <4>1, SameLayers DEF vars, machine
      <4>2. CASE Reboot
        BY <4>2, ConstantsOK
           DEF Reboot, LayersAccurate, ImagesUnique, RecordAccurate, DevicesAccurate, Assigned
      <4>3. ASSUME NEW s \in Stages, FuseComesUp(s) \/ FuseGivesUp(s) PROVE LayersAccurate'
        BY <3>1, <4>3 DEF FuseComesUp, FuseGivesUp, LayersAccurate, ImagesUnique, RecordAccurate,
                          DevicesAccurate
      <4> QED
        BY <2>1, <3>1, <4>1, <4>2, <4>3, OthersKnow DEF Next, Outside
    <3> QED
      BY <2>1, <3>2 DEF RecordInvariant, LayersAccurate
  <2>2. ASSUME NEW p \in Procs PROVE RecordInvariant'
    <3>1. LayersAccurate' /\ \A r \in Procs : Knows(r)'
      BY <2>2, NextKnows, AllKnow
    <3> QED
      BY <3>1, AllKnow
  <2> QED
    BY <2>1, <2>2
<1> QED
  BY <1>1, InitKnows, TypeCorrect, PTL DEF Spec

-----------------------------------------------------------------------------
(* The stacks move as LayerStack says *)

StackStep == Stack!Next \/ UNCHANGED <<fuse, Images, Volumes, OnRecord>>

LEMMA LayersMapped ==
  /\ UNCHANGED attached => UNCHANGED Images
  /\ UNCHANGED volume => UNCHANGED Volumes
  /\ UNCHANGED session => UNCHANGED OnRecord
BY DEF Images, Volumes, OnRecord, HasImage, HasVolume

LEMMA StackStutters == ASSUME UNCHANGED <<attached, volume, fuse, session>> PROVE StackStep
BY LayersMapped DEF StackStep

\* A mount table entry goes: the volume of a stack comes off the top.
LEMMA UnmountedLowers ==
  ASSUME TypeOK, NEW q \in Points, Unmounted(q), UNCHANGED <<attached, fuse, session>>
  PROVE  StackStep
<1> USE ConstantsOK
<1>1. /\ volume'[q] = None /\ \A r \in Points : r # q => volume'[r] = volume[r]
  BY DEF Unmounted, TypeOK
<1>2. \A s \in Stages : s # volume[q] => (HasVolume(s)' <=> HasVolume(s))
  BY <1>1 DEF HasVolume
<1>3. \A s \in Stages : HasVolume(s)' => HasVolume(s)
  BY <1>1 DEF HasVolume
<1>4. CASE Volumes' = Volumes
  BY <1>4, LayersMapped DEF StackStep
<1>5. CASE Volumes' # Volumes
  <2>1. volume[q] \in Stages /\ Volumes' = Volumes \ {volume[q]}
    BY <1>2, <1>3, <1>5 DEF Volumes
  <2>2. Stack!Lower(volume[q])
    BY <2>1, LayersMapped DEF Stack!Lower
  <2> QED
    BY <2>1, <2>2 DEF StackStep, Stack!Next
<1> QED
  BY <1>4, <1>5

\* What detaching a disk does to the layers of the stack it carries.
LEMMA DetachedMapped ==
  ASSUME TypeOK, Assigned, LayersAccurate, NEW d \in Disks, Detached(d),
         UNCHANGED <<fuse, unlocking, session>>
  PROVE  /\ Images' = Images \ {attached[d]}
         /\ Volumes' \in {Volumes, Volumes \ {attached[d]}}
<1>1. Images' = Images \ {attached[d]}
  BY DetachedLayers DEF Images
<1>2. \A q \in Points : volume'[q] = IF device[q] = d THEN None ELSE volume[q]
  BY DEF Detached, TypeOK
<1>3. \A q \in Points : device[q] = d => volume[q] = attached[d]
  BY DEF LayersAccurate, DevicesAccurate
<1>4. \A s \in Stages : s # attached[d] => (HasVolume(s)' <=> HasVolume(s))
  BY <1>2, <1>3, ConstantsOK DEF HasVolume
<1>5. \A s \in Stages : HasVolume(s)' => HasVolume(s)
  BY DetachedLayers
<1>6. Volumes' \in {Volumes, Volumes \ {attached[d]}}
  BY <1>4, <1>5 DEF Volumes
<1> QED
  BY <1>1, <1>6

\* Nothing is mounted from the disk: the image comes off the top, or a disk
\* that is not the program's goes.
LEMMA DetachedLowers ==
  ASSUME TypeOK, Assigned, LayersAccurate, NEW d \in Disks, Detached(d),
         UNCHANGED <<fuse, unlocking, session>>,
         attached[d] \in Stages => ~ HasVolume(attached[d])
  PROVE  StackStep
<1>1. attached[d] \notin Volumes
  BY DEF Volumes
<1>2. Images' = Images \ {attached[d]} /\ Volumes' = Volumes
  BY <1>1, DetachedMapped
<1>3. CASE attached[d] \in Stages
  <2>1. Stack!Lower(attached[d])
    BY <1>1, <1>2, LayersMapped DEF Stack!Lower
  <2> QED
    BY <1>3, <2>1 DEF StackStep, Stack!Next
<1>4. CASE attached[d] \notin Stages
  BY <1>2, <1>4, LayersMapped DEF StackStep, Images
<1> QED
  BY <1>3, <1>4

\* The FUSE mount goes once no image is attached from it.
LEMMA FuseLowers ==
  ASSUME NEW s \in Stages, ~ HasImage(s), fuse' = fuse \ {s},
         UNCHANGED <<attached, volume, session>>
  PROVE  StackStep
<1>1. s \notin Images
  BY DEF Images
<1>2. Stack!Lower(s)
  BY <1>1, LayersMapped DEF Stack!Lower
<1> QED
  BY <1>2 DEF StackStep, Stack!Next

\* A record is removed with nothing left of its stack.
LEMMA ForgetStep ==
  ASSUME TypeOK, Assigned, UNCHANGED <<attached, volume, fuse>>, session' \in {NoSession, session},
         session.kind = "valid" /\ session' # session => ~ Live(session.stage)
  PROVE  StackStep
<1>1. CASE session' = session
  BY <1>1, StackStutters
<1>2. CASE session' = NoSession /\ session' # session /\ session.kind = "valid"
  <2>1. /\ OnRecord = session.stage /\ session.stage \in Stages /\ OnRecord' = None
        /\ OnRecord # None
    BY <1>2, ConstantsOK DEF OnRecord, NoSession, Assigned
  <2>2. session.stage \notin fuse \cup Images \cup Volumes
    BY <1>2 DEF Live, Images, Volumes
  <2>3. Stack!Forget
    BY <2>1, <2>2, LayersMapped DEF Stack!Forget, Stack!Bare, Stack!layers
  <2> QED
    BY <2>3 DEF StackStep, Stack!Next
<1>3. CASE session' = NoSession /\ session.kind # "valid"
  BY <1>3, LayersMapped DEF StackStep, OnRecord, NoSession
<1> QED
  BY <1>1, <1>2, <1>3

LEMMA MountStacks ==
  ASSUME ~ LogMayFail, TypeOK, Assigned, NEW p \in Procs, LayersAccurate, Knows(p),
         Attach(p) \/ MountDecryptedVolume(p) \/ SaveSession(p)
  PROVE  StackStep
<1> USE ConstantsOK DEF At
<1>1. PICK s \in Stages, q \in Points : s = op[p].stage /\ q = op[p].point
  BY DEF Attach, MountDecryptedVolume, SaveSession, Assigned, AssignedAt
<1>2. CASE Attach(p)
  <2>1. CASE UNCHANGED attached
    BY <1>2, <2>1, StackStutters DEF Attach
  <2>2. ASSUME NEW d \in Disks, s \in fuse, attached[d] = None, attached' = [attached EXCEPT ![d] = s]
        PROVE  StackStep
    <3>1. \A t \in Stages : HasImage(t)' <=> HasImage(t) \/ t = s
      BY <2>2 DEF HasImage, TypeOK
    <3>2. Images' = Images \cup {s}
      BY <3>1 DEF Images
    <3>3. Stack!Raise(s)
      BY <1>2, <2>2, <3>2, LayersMapped DEF Attach, Stack!Raise
    <3> QED
      BY <3>3 DEF StackStep, Stack!Next
  <2> QED
    BY <1>1, <1>2, <2>1, <2>2 DEF Attach
<1>3. CASE MountDecryptedVolume(p)
  <2>1. PICK d \in Disks : d = op[p].disk /\ attached[d] = s
    BY <1>1, <1>3 DEF MountDecryptedVolume, Assigned, AssignedAt, Knows, MountBuilds, MountLabels,
                      StaleLabels
  <2>2. CASE UNCHANGED volume
    BY <1>3, <2>2, StackStutters DEF MountDecryptedVolume
  <2>3. CASE volume[q] = None /\ volume' = [volume EXCEPT ![q] = s]
    <3>1. \A t \in Stages : HasVolume(t)' <=> HasVolume(t) \/ t = s
      BY <2>3 DEF HasVolume, TypeOK
    <3>2. Volumes' = Volumes \cup {s} /\ s \in Images
      BY <2>1, <3>1 DEF Volumes, Images, HasImage
    <3>3. Stack!Raise(s)
      BY <1>3, <3>2, LayersMapped DEF MountDecryptedVolume, Stack!Raise
    <3> QED
      BY <3>3 DEF StackStep, Stack!Next
  <2> QED
    BY <1>1, <1>3, <2>1, <2>2, <2>3 DEF MountDecryptedVolume
<1>4. CASE SaveSession(p)
  <2>1. /\ s \in fuse /\ op[p].disk \in Disks /\ attached[op[p].disk] = s /\ volume[q] = s
        /\ session.kind = "valid" => ~ Live(session.stage)
    BY <1>1, <1>4 DEF SaveSession, Assigned, AssignedAt, Knows, MountBuilds, MountOverDeadRecord,
                      MountLabels, StaleLabels
  <2>2. CASE UNCHANGED session
    BY <1>4, <2>2, StackStutters DEF SaveSession, machine
  <2>3. CASE session' = [kind |-> "valid", stage |-> s, point |-> q]
    <3>1. OnRecord' = s
      BY <2>3 DEF OnRecord
    <3>2. s \in Images /\ s \in Volumes
      BY <2>1 DEF Images, Volumes, HasImage, HasVolume
    <3>3. OnRecord = None \/ OnRecord \notin fuse \cup Images \cup Volumes
      BY <2>1 DEF OnRecord, Live, Images, Volumes
    <3>4. Stack!Record(s)
      BY <1>4, <2>1, <3>1, <3>2, <3>3, LayersMapped
         DEF SaveSession, machine, Stack!Record, Stack!Complete, Stack!Bare, Stack!layers
    <3> QED
      BY <3>4 DEF StackStep, Stack!Next
  <2> QED
    BY <1>1, <1>4, <2>2, <2>3 DEF SaveSession
<1> QED
  BY <1>2, <1>3, <1>4

LEMMA CleanupStacks ==
  ASSUME TypeOK, Assigned, NEW p \in Procs, LayersAccurate, Knows(p),
         CleanVolume(p) \/ CleanImage(p) \/ CleanFuse(p)
  PROVE  StackStep
<1> USE ConstantsOK DEF At
<1>1. PICK s \in Stages, q \in Points : s = op[p].stage /\ q = op[p].point
  BY DEF CleanVolume, CleanImage, CleanFuse, Assigned, AssignedAt
<1>2. CASE CleanVolume(p)
  BY <1>1, <1>2, UnmountedLowers, StackStutters DEF CleanVolume
<1>3. CASE CleanImage(p)
  <2>1. CASE UNCHANGED <<attached, volume, device>>
    BY <1>3, <2>1, StackStutters DEF CleanImage
  <2>2. ASSUME NEW d \in Disks, attached[d] = s, Detached(d) PROVE StackStep
    <3>1. Images' = Images \ {s} /\ Volumes' \in {Volumes, Volumes \ {s}}
      BY <1>3, <2>2, DetachedMapped DEF CleanImage
    <3>2. s # OnRecord
      BY <1>1, <1>3, BuildingKnows DEF CleanImage, OnRecord, MountLabels, StaleLabels
    <3>3. Stack!Tear(s)
      BY <1>3, <3>1, <3>2, LayersMapped DEF CleanImage, Stack!Tear
    <3> QED
      BY <3>3 DEF StackStep, Stack!Next
  <2>3. op[p].disk \in Disks \cup {None}
    BY DEF TypeOK, Operation
  <2> QED
    BY <1>1, <1>3, <2>1, <2>2, <2>3 DEF CleanImage
<1>4. CASE CleanFuse(p)
  BY <1>1, <1>4, FuseLowers, StackStutters DEF CleanFuse
<1> QED
  BY <1>2, <1>3, <1>4

LEMMA UnmountStacks ==
  ASSUME TypeOK, Assigned, NEW p \in Procs, LayersAccurate, Knows(p),
         \/ UnmountVolume(p) \/ UnmountVolumeForce(p) \/ DetachRawDisk(p) \/ DetachForce(p)
         \/ UnmountFuse(p)
  PROVE  StackStep
<1> USE ConstantsOK DEF At
<1>1. PICK s \in Stages, q \in Points : s = op[p].stage /\ q = op[p].point
  BY UnmountingKnows DEF UnmountVolume, UnmountVolumeForce, DetachRawDisk, DetachForce, UnmountFuse,
                         UnmountLabels
<1>2. CASE UnmountVolume(p) \/ UnmountVolumeForce(p)
  BY <1>1, <1>2, UnmountedLowers, StackStutters DEF UnmountVolume, UnmountVolumeForce
<1>3. CASE DetachRawDisk(p) \/ DetachForce(p)
  <2>1. ~ HasVolume(s) /\ UNCHANGED <<fuse, unlocking, session>>
    BY <1>1, <1>3 DEF DetachRawDisk, DetachForce, Knows, UnmountProgress
  <2>2. CASE UNCHANGED <<attached, volume, device>>
    BY <2>1, <2>2, StackStutters
  <2>3. ASSUME NEW d \in Disks, attached[d] \in {s, None}, Detached(d) PROVE StackStep
    BY <2>1, <2>3, DetachedLowers
  <2>4. CASE DetachRawDisk(p)
    <3>1. \A d \in SessionImage(p) : d \in Disks /\ attached[d] = s
      BY <1>1, <2>4
         DEF DetachRawDisk, SessionImage, Knows, UnmountProgress, TypeOK, Operation
    <3> QED
      BY <2>2, <2>3, <2>4, <3>1 DEF DetachRawDisk
  <2>5. CASE DetachForce(p)
    <3>1. op[p].found \in Disks /\ attached[op[p].found] \in {s, None}
      BY <1>1, <2>5 DEF DetachForce, Knows, UnmountProgress, Assigned, AssignedAt
    <3> QED
      BY <2>2, <2>3, <2>5, <3>1 DEF DetachForce
  <2> QED
    BY <1>3, <2>4, <2>5
<1>4. CASE UnmountFuse(p)
  <2>1. UNCHANGED <<attached, volume, session>>
    BY <1>4 DEF UnmountFuse
  <2>2. CASE fuse' = fuse
    BY <2>1, <2>2, StackStutters
  <2>3. CASE ~ HasImage(s) /\ fuse' = fuse \ {s}
    BY <2>1, <2>3, FuseLowers
  <2>4. s \notin fuse => fuse \ {s} = fuse
    OBVIOUS
  <2> QED
    BY <1>1, <1>4, <2>2, <2>3, <2>4 DEF UnmountFuse
<1> QED
  BY <1>2, <1>3, <1>4

LEMMA OthersStack ==
  ASSUME TypeOK, Assigned, LayersAccurate, Outside
  PROVE  StackStep
<1> USE ConstantsOK
<1>1. ASSUME NEW p \in Procs, Crash(p) PROVE StackStep
  BY <1>1, StackStutters DEF Crash, machine
<1>2. CASE Reboot
  <2>1. Images' = {} /\ Volumes' = {} /\ fuse' = {} /\ OnRecord' = OnRecord
    BY <1>2, LayersMapped DEF Reboot, Images, Volumes, HasImage, HasVolume
  <2>2. Stack!PowerLoss
    BY <2>1 DEF Stack!PowerLoss
  <2> QED
    BY <2>2 DEF StackStep, Stack!Next
<1>3. ASSUME NEW s \in Stages, FuseComesUp(s) PROVE StackStep
  <2>1. Stack!Raise(s)
    BY <1>3, LayersMapped DEF FuseComesUp, Stack!Raise
  <2> QED
    BY <2>1 DEF StackStep, Stack!Next
<1>4. ASSUME NEW s \in Stages, FuseGivesUp(s) PROVE StackStep
  BY <1>4, StackStutters DEF FuseGivesUp
<1>5. ASSUME NEW s \in Stages, HandUnmountFuse(s) PROVE StackStep
  BY <1>5, FuseLowers DEF HandUnmountFuse
<1>6. ASSUME NEW d \in Disks, ForeignAttach(d) PROVE StackStep
  <2>1. Images' = Images
    BY <1>6 DEF ForeignAttach, Images, HasImage, TypeOK
  <2> QED
    BY <1>6, <2>1, LayersMapped DEF ForeignAttach, StackStep
<1>7. ASSUME NEW d \in Disks, ForeignDetach(d) \/ HandDetach(d) PROVE StackStep
  BY <1>7, DetachedLowers DEF ForeignDetach, HandDetach, HasVolume
<1>8. ASSUME NEW d \in Disks, NEW e \in Disks, Renumber(d, e) PROVE StackStep
  <2>1. /\ d # e /\ attached[e] = None /\ attached'[d] = None /\ attached'[e] = attached[d]
        /\ \A c \in Disks \ {d, e} : attached'[c] = attached[c]
    BY <1>8 DEF Renumber, TypeOK
  <2>2. \A s \in Stages : HasImage(s)' <=> HasImage(s)
    BY <2>1 DEF HasImage
  <2>3. Images' = Images
    BY <2>2 DEF Images
  <2> QED
    BY <1>8, <2>3, LayersMapped DEF Renumber, StackStep
<1>9. ASSUME NEW q \in Points, ForeignMount(q) PROVE StackStep
  <2>1. Volumes' = Volumes
    BY <1>9 DEF ForeignMount, Volumes, HasVolume, TypeOK
  <2> QED
    BY <1>9, <2>1, LayersMapped DEF ForeignMount, StackStep
<1>10. ASSUME NEW q \in Points, Eject(q) PROVE StackStep
  BY <1>10, UnmountedLowers DEF Eject
<1>11. ASSUME NEW q \in Points, TouchDir(q) PROVE StackStep
  BY <1>11, StackStutters DEF TouchDir, machine
<1>12. CASE RemoveUntrusted
  BY <1>12, ForgetStep DEF RemoveUntrusted, machine
<1> QED
  BY <1>1, <1>2, <1>3, <1>4, <1>5, <1>6, <1>7, <1>8, <1>9, <1>10, <1>11, <1>12 DEF Outside

LEMMA ProgramStacks ==
  ASSUME ~ LogMayFail, TypeOK, Assigned, NEW p \in Procs, LayersAccurate, Knows(p), Program(p)
  PROVE  StackStep
<1>1. CASE \/ LoadForMount(p) \/ CheckMounts(p) \/ CheckImages(p) \/ DropStale(p)
           \/ PrepareFuseMount(p) \/ AllocatePoint(p) \/ StartFuse(p) \/ WaitForFile(p)
           \/ LoadForUnmount(p) \/ SnapshotImages(p) \/ RemoveDirs(p)
  BY <1>1, StackStutters
     DEF LoadForMount, CheckMounts, CheckImages, DropStale, PrepareFuseMount, AllocatePoint,
         StartFuse, WaitForFile, LoadForUnmount, SnapshotImages, RemoveDirs, machine
<1>2. CASE ClearStale(p) \/ CleanRecord(p) \/ ClearRecord(p)
  <2>1. UNCHANGED <<attached, volume, fuse>> /\ session' \in {NoSession, session}
    BY <1>2 DEF ClearStale, CleanRecord, ClearRecord, Cleared, machine
  <2>2. session.kind = "valid" /\ session' # session => ~ Live(session.stage)
    BY <1>2 DEF ClearStale, CleanRecord, ClearRecord, At, Knows, MountOverDeadRecord, StaleChecked,
                UnmountProgress, MountLabels, StaleLabels, UnmountLabels
  <2> QED
    BY <2>1, <2>2, ForgetStep
<1> QED
  BY <1>1, <1>2, MountStacks, CleanupStacks, UnmountStacks
     DEF Program, Validate, MountPipeline, BestEffortCleanup, Unmount

LEMMA InitStacks == Init => Stack!Init
<1> SUFFICES ASSUME Init PROVE Stack!Init
  OBVIOUS
<1> USE ConstantsOK
<1>1. OnRecord = None
  BY DEF Init, NoSession, OnRecord
<1>2. fuse \in SUBSET Stages /\ Images = fuse /\ Volumes = fuse
  <2>1. 1 \in Points
    BY DEF Points
  <2> QED
    BY <2>1 DEF Init, Images, Volumes, HasImage, HasVolume
<1> QED
  BY <1>1, <1>2 DEF Stack!Init

\* Operations that do not overlap, that nobody interferes with, and whose loads
\* and logs do not fail, implement LayerStack: whatever else fails or dies, a
\* stack goes up one layer at a time and is recorded only when complete; the
\* recorded stack comes down from the top and is forgotten only when nothing
\* of it is left.
THEOREM StacksMoveInOrder ==
  ASSUME ~ Interference, ~ LogMayFail, ~ LoadMayFail
  PROVE  Spec /\ []OperationsSerialized => LayeredMoves
<1>1. TypeOK /\ Assigned /\ RecordInvariant /\ [Next]_vars => [Stack!Next]_(Stack!stack)
  <2> SUFFICES ASSUME TypeOK, Assigned, RecordInvariant, [Next]_vars
               PROVE  Stack!Next \/ UNCHANGED Stack!stack
    OBVIOUS
  <2>1. LayersAccurate /\ \A p \in Procs : Knows(p)
    BY DEF RecordInvariant, LayersAccurate, Knows
  <2>2. StackStep
    BY <2>1, ProgramStacks, OthersStack, StackStutters DEF Next, vars
  <2> QED
    BY <2>2 DEF StackStep, Stack!stack
<1>2. Spec /\ []OperationsSerialized => []RecordInvariant
  BY RecordAlwaysAccurate
<1> QED
  BY <1>1, <1>2, InitStacks, TypeCorrect, PTL DEF Spec, LayeredMoves, Stack!Spec

-----------------------------------------------------------------------------
(***************************************************************************)
(* With interference: whatever others do to disks, mounts and directories  *)
(* meanwhile, the record outlives the layers of its stack.                 *)
(*                                                                         *)
(* The invariant needs nothing that interference can undo, above all no    *)
(* disk number.  An image cannot do without its FUSE mount, so a stack     *)
(* with no FUSE mount has no image, wherever its disk has gone.            *)
(***************************************************************************)

ImagesOnFuse ==
  /\ \A s \in Stages : HasImage(s) => s \in fuse
  /\ fuse \cap unlocking = {}

MountApart(p) ==
  LET s == op[p].stage IN
  op[p].pc \in MountLabels \ (StaleLabels \cup {"prepare"}) =>
    /\ session.kind = "valid" => session.stage # s
    /\ op[p].pc \in {"allocate", "startFuse"} => s \notin fuse \cup unlocking
    /\ op[p].pc \in {"attach", "mountVolume", "save"} => s \notin unlocking
    /\ op[p].pc \in {"allocate", "startFuse", "waitFuse", "attach", "mountVolume"} =>
         ~ HasVolume(s)
    /\ op[p].pc = "save" => \A q \in Points : volume[q] = s => q = op[p].point

UnmountDone(p) ==
  LET s == op[p].stage IN
  /\ op[p].pc \in UnmountLabels =>
       session.kind = "valid" /\ session.stage = s /\ session.point = op[p].point
  /\ op[p].pc \in {"detach", "detachForce", "unmountFuse"} => ~ HasVolume(s)
  /\ op[p].pc \in {"removeDirs", "clearRecord"} => ~ Live(s)

Sound == ImagesOnFuse /\ RecordAccurate
Safe(p) == MountApart(p) /\ MountOverDeadRecord(p) /\ StaleChecked(p) /\ UnmountDone(p)

LEMMA IdleSafe == ASSUME NEW p, op[p].pc = "idle" PROVE Safe(p)
BY DEF Safe, MountApart, MountOverDeadRecord, StaleChecked, UnmountDone, MountLabels,
       StaleLabels, UnmountLabels

LEMMA EndSafe == ASSUME NEW p, op'[p].pc = "idle" PROVE Safe(p)'
BY DEF Safe, MountApart, MountOverDeadRecord, StaleChecked, UnmountDone, MountLabels,
       StaleLabels, UnmountLabels

LEMMA FinishSafe == ASSUME TypeOK, NEW p \in Procs, Finish(p) PROVE Safe(p)'
BY FinishStep, EndSafe DEF NoOperation

-----------------------------------------------------------------------------
(* Layers that only go *)

\* No layer of any stack comes up, and no FUSE mount goes from under an image.
Descent ==
  /\ fuse' \subseteq fuse /\ unlocking' \subseteq unlocking
  /\ \A q \in Points : volume'[q] \in Stages => volume'[q] = volume[q]
  /\ \A s \in Stages : HasImage(s)' => HasImage(s) /\ s \in fuse'

LEMMA DescentLowers ==
  ASSUME Descent
  PROVE  \A s \in Stages : (HasVolume(s)' => HasVolume(s)) /\ (Live(s)' => Live(s))
<1>1. \A s \in Stages : HasVolume(s)' => HasVolume(s)
  BY DEF Descent, HasVolume
<1> QED
  BY <1>1 DEF Descent, Live

LEMMA DescentSound ==
  ASSUME Assigned, Sound, Descent, session'.kind = "valid" => session' = session
  PROVE  Sound'
<1>1. ImagesOnFuse'
  BY DEF Sound, ImagesOnFuse, Descent
<1>2. RecordAccurate'
  BY DEF Sound, RecordAccurate, Descent, Assigned
<1> QED
  BY <1>1, <1>2 DEF Sound

\* What a process knows stays true while others take layers away.
LEMMA DescentSafe ==
  ASSUME TypeOK, Assigned, NEW p \in Procs, Safe(p), Descent, UNCHANGED <<session, op>>
  PROVE  Safe(p)'
<1>1. PICK s \in Stages \cup {None} : s = op[p].stage
  BY DEF TypeOK, Operation
<1>2. op[p].pc \notin {"idle", "prepare"} => s \in Stages
  BY <1>1 DEF Assigned, AssignedAt
<1>3. s \in Stages => (HasVolume(s)' => HasVolume(s)) /\ (Live(s)' => Live(s))
  BY DescentLowers
<1>4. session.kind = "valid" => (Live(session.stage)' => Live(session.stage))
  BY DescentLowers DEF Assigned
<1>5. MountApart(p)'
  BY <1>1, <1>2, <1>3 DEF Safe, MountApart, Descent, MountLabels, StaleLabels
<1>6. MountOverDeadRecord(p)'
  BY <1>4 DEF Safe, MountOverDeadRecord
<1>7. StaleChecked(p)'
  BY <1>1, <1>2, <1>3 DEF Safe, StaleChecked, Descent, StaleLabels
<1>8. UnmountDone(p)'
  BY <1>1, <1>2, <1>3 DEF Safe, UnmountDone, UnmountLabels
<1> QED
  BY <1>5, <1>6, <1>7, <1>8 DEF Safe

LEMMA SameDescends ==
  ASSUME Sound, UNCHANGED <<attached, volume, fuse>>, unlocking' \subseteq unlocking
  PROVE  Descent
BY DEF Descent, Sound, ImagesOnFuse, HasImage

LEMMA UnmountedDescends ==
  ASSUME TypeOK, Sound, NEW q \in Points, Unmounted(q), UNCHANGED <<attached, fuse, unlocking>>
  PROVE  Descent
BY ConstantsOK DEF Unmounted, Descent, Sound, ImagesOnFuse, HasImage, TypeOK

LEMMA DetachedDescends ==
  ASSUME TypeOK, Sound, NEW d \in Disks, Detached(d), UNCHANGED <<fuse, unlocking>>
  PROVE  Descent
<1>1. \A s \in Stages : HasImage(s)' => HasImage(s)
  BY ConstantsOK DEF Detached, HasImage, TypeOK
<1> QED
  BY <1>1, ConstantsOK DEF Detached, Descent, Sound, ImagesOnFuse, TypeOK

LEMMA FuseDescends ==
  ASSUME Sound, NEW s \in Stages, fuse' = fuse \ {s}, ~ HasImage(s),
         UNCHANGED <<attached, volume, unlocking>>
  PROVE  Descent
BY DEF Descent, Sound, ImagesOnFuse, HasImage

-----------------------------------------------------------------------------
(* The steps of the program *)

LEMMA ValidateSafe ==
  ASSUME ~ LoadMayFail, TypeOK, Assigned, NEW p \in Procs, Sound, Safe(p), Validate(p)
  PROVE  Sound' /\ Safe(p)'
<1> USE ConstantsOK DEF machine, At
<1>1. /\ UNCHANGED <<machine>> /\ session' \in {NoSession, session}
      /\ ~ ClearStale(p) => UNCHANGED session
  BY DEF Validate, LoadForMount, CheckMounts, CheckImages, ClearStale, DropStale, Cleared
<1>2. Sound' /\ Descent
  <2>1. Descent
    BY <1>1, SameDescends
  <2> QED
    BY <1>1, <2>1, DescentSound DEF NoSession
<1>3. \A s \in Stages : Live(s)' => Live(s)
  BY <1>2, DescentLowers
<1>4. LoadForMount(p) => session' = session
  BY DEF LoadForMount
<1>5. CASE LoadForMount(p) /\ Goto(p, "prepare")
  <2>1. op'[p].pc = "prepare"
    BY <1>5, GotoStep DEF MountLabels
  <2>2. CASE session.kind \in {"none", "legacy"}
    BY <1>2, <1>4, <1>5, <2>1, <2>2
       DEF Safe, MountApart, MountOverDeadRecord, StaleChecked, UnmountDone, UnmountLabels
  <2>3. CASE session.kind = "valid"
    <3>1. op'[p].pc = "staleMounts"
      BY <1>5, <2>3, OnSessionType DEF LoadForMount, MountLabels, OnSession, NoOperation, TypeOK
    <3> QED
      BY <2>1, <3>1
  <2> QED
    BY <1>5, <2>2, <2>3 DEF LoadForMount
<1>6. CASE LoadForMount(p) /\ ~ Goto(p, "prepare")
  <2>1. /\ op'[p].pc = "staleMounts" /\ op'[p].stage = session.stage
        /\ op'[p].point = session.point /\ session.kind = "valid"
    <3>1. session.kind = "valid" /\ op' = [op EXCEPT ![p] = OnSession("staleMounts")]
      BY <1>6 DEF LoadForMount
    <3>2. op'[p] = OnSession("staleMounts")
      BY <3>1 DEF TypeOK
    <3>3. /\ OnSession("staleMounts").pc = "staleMounts"
          /\ OnSession("staleMounts").stage = session.stage
          /\ OnSession("staleMounts").point = session.point
      BY DEF OnSession, NoOperation
    <3> QED
      BY <3>1, <3>2, <3>3
  <2>2. session' = session
    BY <1>4, <1>6
  <2> QED
    BY <1>2, <2>1, <2>2
       DEF Safe, MountApart, MountOverDeadRecord, StaleChecked, UnmountDone, UnmountLabels, StaleLabels
<1>7. CASE CheckMounts(p) \/ CheckImages(p)
  <2>1. PICK s \in Stages : /\ s = op[p].stage /\ session.kind = "valid" /\ session.stage = s
                            /\ session.point = op[p].point
    BY <1>7 DEF CheckMounts, CheckImages, Safe, StaleChecked, Assigned
  <2>2. ~ (HasImage(s) /\ s \notin fuse) /\ (volume[op[p].point] = None => ~ HasVolume(s))
    BY <2>1 DEF Sound, ImagesOnFuse, RecordAccurate, HasVolume
  <2>3. ASSUME NEW label \in {"staleImages", "clearStale"}, Goto(p, label), ~ Live(s)
        PROVE  Safe(p)'
    <3>1. op'[p].pc = label /\ op'[p].stage = s /\ op'[p].point = op[p].point
      BY <2>1, <2>3, GotoStep DEF MountLabels
    <3>2. ~ Live(s)' /\ UNCHANGED <<session, fuse>>
      BY <1>1, <1>3, <1>7, <2>3 DEF ClearStale, CheckMounts, CheckImages
    <3>3. s \notin fuse' /\ ~ HasVolume(s)'
      BY <3>2 DEF Live
    <3> QED
      BY <2>1, <3>1, <3>2, <3>3
         DEF Safe, MountApart, MountOverDeadRecord, StaleChecked, UnmountDone, UnmountLabels, StaleLabels
  <2>4. CASE CheckMounts(p)
    BY <1>2, <2>1, <2>2, <2>3, <2>4, FinishSafe DEF CheckMounts, Live
  <2>5. CASE CheckImages(p)
    <3>1. s \notin fuse /\ ~ HasVolume(s)
      BY <2>1, <2>5 DEF CheckImages, Safe, StaleChecked
    <3> QED
      BY <1>2, <2>1, <2>3, <2>5, <3>1, FinishSafe DEF CheckImages, Live
  <2> QED
    BY <1>7, <2>4, <2>5
<1>8. CASE ClearStale(p)
  <2>1. PICK s \in Stages : s = op[p].stage /\ session.kind = "valid" /\ session.stage = s /\ ~ Live(s)
    BY <1>8 DEF ClearStale, Safe, StaleChecked, Assigned
  <2>2. op'[p].pc = "dropStale" /\ op'[p].stage = s
    BY <1>8, <2>1, GotoStep DEF ClearStale, MountLabels
  <2>3. ~ Live(s)' /\ s \notin unlocking'
    BY <1>1, <1>3, <2>1 DEF Sound, RecordAccurate
  <2>4. session'.kind = "valid" => session'.stage = s
    BY <1>1, <2>1 DEF NoSession
  <2> QED
    BY <1>2, <2>2, <2>3, <2>4
       DEF Safe, MountApart, MountOverDeadRecord, StaleChecked, UnmountDone, UnmountLabels, StaleLabels
<1>9. CASE DropStale(p)
  <2>1. op'[p].pc = "prepare" /\ UNCHANGED session
    BY <1>9 DEF DropStale, TypeOK, NoOperation
  <2>2. session.kind = "valid" => ~ Live(session.stage) /\ session.stage \in Stages
    BY <1>9 DEF DropStale, Safe, StaleChecked, Assigned
  <2>3. session.kind = "valid" => ~ Live(session.stage)'
    BY <1>3, <2>1, <2>2
  <2> QED
    BY <1>2, <2>1, <2>3
       DEF Safe, MountApart, MountOverDeadRecord, StaleChecked, UnmountDone, UnmountLabels, StaleLabels
<1> QED
  BY <1>5, <1>6, <1>7, <1>8, <1>9 DEF Validate

\* While a mount runs, the record left, if any, is dead and of another stage.
LEMMA BuildingSafe ==
  ASSUME TypeOK, Assigned, NEW p \in Procs, Safe(p), op[p].pc \in MountLabels \ StaleLabels
  PROVE  /\ session.kind = "valid" => ~ Live(session.stage) /\ session.stage \in Stages
         /\ op[p].pc \notin {"prepare", "allocate"} => op[p].point \in Points
         /\ op[p].pc # "prepare" =>
              /\ op[p].stage \in Stages
              /\ session.kind = "valid" => session.stage # op[p].stage
BY DEF Safe, MountApart, MountOverDeadRecord, Assigned, AssignedAt, MountLabels, StaleLabels

\* It is enough to show what is new of MountApart at the next point.
LEMMA MountGoesOn ==
  ASSUME NEW p \in Procs, op'[p].pc \in MountLabels \ StaleLabels, MountApart(p)',
         session'.kind = "valid" => ~ Live(session.stage)', UNCHANGED session
  PROVE  Safe(p)'
BY DEF Safe, MountOverDeadRecord, StaleChecked, UnmountDone, MountLabels, StaleLabels, UnmountLabels

LEMMA MountDescends ==
  ASSUME TypeOK, Assigned, NEW p \in Procs, Sound, Safe(p),
         op[p].pc \in MountLabels \ (StaleLabels \cup {"prepare", "allocate"}),
         NEW label \in {"waitFuse", "attach", "cleanVolume", "cleanImage", "cleanFuse", "cleanRecord"},
         Goto(p, label), label = "waitFuse" => ~ HasVolume(op[p].stage),
         label = "attach" => op[p].stage \in fuse /\ ~ HasVolume(op[p].stage),
         Descent, UNCHANGED session
  PROVE  Sound' /\ Safe(p)'
<1>1. PICK s \in Stages : s = op[p].stage /\ (session.kind = "valid" => session.stage # s)
  BY BuildingSafe
<1>2. op'[p].pc = label /\ op'[p].stage = s
  <2>1. label \in MountLabels \cup UnmountLabels
    BY DEF MountLabels
  <2> QED
    BY <1>1, <2>1, GotoStep
<1>3. session.kind = "valid" => ~ Live(session.stage)'
  BY BuildingSafe, DescentLowers
<1>4. HasVolume(s)' => HasVolume(s)
  BY DescentLowers
<1>5. label = "attach" => s \notin unlocking'
  BY <1>1 DEF Descent, Sound, ImagesOnFuse
<1>6. MountApart(p)'
  BY <1>1, <1>2, <1>4, <1>5 DEF MountApart
<1>7. op'[p].pc \in MountLabels \ StaleLabels
  BY <1>2 DEF MountLabels, StaleLabels
<1>8. Safe(p)'
  BY <1>3, <1>6, <1>7, MountGoesOn
<1> QED
  BY <1>8, DescentSound

LEMMA PrepareSafe ==
  ASSUME TypeOK, Assigned, NEW p \in Procs, Sound, Safe(p), PrepareFuseMount(p) \/ AllocatePoint(p)
  PROVE  Sound' /\ Safe(p)'
<1> USE DEF machine, At
<1>1. UNCHANGED <<machine, session>> /\ op[p].pc \in {"prepare", "allocate"}
  BY DEF PrepareFuseMount, AllocatePoint
<1>2. Sound' /\ Descent
  BY <1>1, SameDescends, DescentSound
<1>3. session.kind = "valid" => ~ Live(session.stage)'
  BY <1>1, <1>2, BuildingSafe, DescentLowers DEF MountLabels, StaleLabels
<1>4. ASSUME NEW s \in Stages, s \notin fuse \cup unlocking, ~ HasVolume(s),
             session.kind = "valid" => session.stage # s,
             op'[p].pc \in {"allocate", "startFuse"}, op'[p].stage = s
      PROVE  Safe(p)'
  <2>1. ~ HasVolume(s)'
    BY <1>2, <1>4, DescentLowers
  <2>2. MountApart(p)'
    BY <1>1, <1>4, <2>1 DEF MountApart
  <2> QED
    BY <1>1, <1>3, <1>4, <2>2, MountGoesOn DEF MountLabels, StaleLabels
<1>5. CASE PrepareFuseMount(p)
  <2>1. ASSUME NEW s \in Stages, Fresh(s), op' = [op EXCEPT ![p].stage = s, ![p].pc = "allocate"]
        PROVE  Safe(p)'
    <3>1. op'[p].pc = "allocate" /\ op'[p].stage = s
      BY <2>1 DEF TypeOK, Operation
    <3> QED
      BY <1>4, <2>1, <3>1 DEF Fresh, Live
  <2> QED
    BY <1>2, <1>5, <2>1, FinishSafe DEF PrepareFuseMount
<1>6. CASE AllocatePoint(p)
  <2>1. PICK s \in Stages : /\ s = op[p].stage /\ s \notin fuse \cup unlocking /\ ~ HasVolume(s)
                            /\ session.kind = "valid" => session.stage # s
    BY <1>6 DEF AllocatePoint, Safe, MountApart, MountLabels, StaleLabels, Assigned, AssignedAt
  <2>2. ASSUME NEW q \in Points, op' = [op EXCEPT ![p].point = q, ![p].pc = "startFuse"]
        PROVE  Safe(p)'
    <3>1. op'[p].pc = "startFuse" /\ op'[p].stage = s
      BY <2>1, <2>2 DEF TypeOK, Operation
    <3> QED
      BY <1>4, <2>1, <3>1
  <2> QED
    BY <1>2, <1>6, <2>2, FinishSafe DEF AllocatePoint
<1> QED
  BY <1>5, <1>6

LEMMA FuseSafe ==
  ASSUME TypeOK, Assigned, NEW p \in Procs, Sound, Safe(p), StartFuse(p) \/ WaitForFile(p)
  PROVE  Sound' /\ Safe(p)'
<1> USE DEF machine, At
<1>1. PICK s \in Stages : s = op[p].stage /\ ~ HasVolume(s)
  BY DEF StartFuse, WaitForFile, Assigned, AssignedAt, Safe, MountApart, MountLabels, StaleLabels
<1>2. op[p].pc \in {"startFuse", "waitFuse"} /\ UNCHANGED <<attached, volume, fuse, session>>
  BY DEF StartFuse, WaitForFile
<1>3. CASE UNCHANGED unlocking
  <2>1. Descent
    BY <1>2, <1>3, SameDescends
  <2> QED
    BY <1>1, <1>2, <2>1, MountDescends DEF StartFuse, WaitForFile, MountLabels, StaleLabels
<1>4. CASE unlocking' = unlocking \cup {s} /\ StartFuse(p) /\ Goto(p, "waitFuse")
  <2>1. /\ s \notin fuse
        /\ session.kind = "valid" =>
             ~ Live(session.stage) /\ session.stage \in Stages /\ session.stage # s
    BY <1>1, <1>4, BuildingSafe DEF StartFuse, Safe, MountApart, MountLabels, StaleLabels
  <2>2. Sound'
    BY <1>2, <1>4, <2>1 DEF Sound, ImagesOnFuse, RecordAccurate, HasImage
  <2>3. op'[p].pc = "waitFuse" /\ op'[p].stage = s
    BY <1>1, <1>4, GotoStep DEF MountLabels
  <2>4. ~ HasVolume(s)' /\ (session.kind = "valid" => ~ Live(session.stage)')
    BY <1>1, <1>2, <2>1 DEF HasVolume, HasImage, Live
  <2>5. MountApart(p)'
    BY <1>2, <2>1, <2>3, <2>4 DEF MountApart
  <2> QED
    BY <1>2, <2>2, <2>3, <2>4, <2>5, MountGoesOn DEF MountLabels, StaleLabels
<1> QED
  BY <1>1, <1>3, <1>4 DEF StartFuse, WaitForFile

LEMMA AttachSafe ==
  ASSUME TypeOK, Assigned, NEW p \in Procs, Sound, Safe(p), Attach(p)
  PROVE  Sound' /\ Safe(p)'
<1> USE ConstantsOK DEF machine, At
<1>1. PICK s \in Stages : /\ s = op[p].stage /\ ~ HasVolume(s) /\ s \notin unlocking
                          /\ session.kind = "valid" =>
                               ~ Live(session.stage) /\ session.stage \in Stages /\ session.stage # s
  BY BuildingSafe DEF Attach, Assigned, AssignedAt, Safe, MountApart, MountLabels, StaleLabels
<1>2. op[p].pc = "attach" /\ UNCHANGED <<volume, device, fuse, unlocking, session>>
  BY DEF Attach
<1>3. CASE UNCHANGED attached
  <2>1. Descent
    BY <1>2, <1>3, SameDescends
  <2>2. CASE Goto(p, "cleanVolume")
    BY <1>2, <2>1, <2>2, MountDescends DEF MountLabels, StaleLabels
  <2>3. ASSUME NEW d \in Disks, attached[d] = None, attached' = [attached EXCEPT ![d] = s] PROVE FALSE
    BY <1>3, <2>3 DEF TypeOK
  <2> QED
    BY <1>1, <2>2, <2>3 DEF Attach
<1>4. ASSUME NEW d \in Disks, s \in fuse, attached[d] = None, attached' = [attached EXCEPT ![d] = s],
             op' = [op EXCEPT ![p].disk = d, ![p].pc = "mountVolume"] \/ Goto(p, "cleanVolume")
      PROVE  Sound' /\ Safe(p)'
  <2>1. \A t \in Stages : HasImage(t)' => HasImage(t) \/ t = s
    BY <1>4 DEF HasImage, TypeOK
  <2>2. Sound'
    BY <1>2, <1>4, <2>1 DEF Sound, ImagesOnFuse, RecordAccurate
  <2>3. op'[p].pc \in {"mountVolume", "cleanVolume"} /\ op'[p].stage = s
    <3>1. CASE op' = [op EXCEPT ![p].disk = d, ![p].pc = "mountVolume"]
      BY <1>1, <3>1 DEF TypeOK, Operation
    <3>2. CASE Goto(p, "cleanVolume")
      BY <1>1, <3>2, GotoStep DEF MountLabels
    <3> QED
      BY <1>4, <3>1, <3>2
  <2>4. ~ HasVolume(s)' /\ (session.kind = "valid" => ~ Live(session.stage)')
    BY <1>1, <1>2, <2>1 DEF HasVolume, Live
  <2>5. MountApart(p)'
    BY <1>1, <1>2, <2>3, <2>4 DEF MountApart
  <2> QED
    BY <1>2, <2>2, <2>3, <2>4, <2>5, MountGoesOn DEF MountLabels, StaleLabels
<1> QED
  BY <1>1, <1>3, <1>4 DEF Attach

LEMMA MountVolumeSafe ==
  ASSUME TypeOK, Assigned, NEW p \in Procs, Sound, Safe(p), MountDecryptedVolume(p)
  PROVE  Sound' /\ Safe(p)'
<1> USE ConstantsOK DEF machine, At
<1>1. PICK s \in Stages, q \in Points, d \in Disks :
        /\ s = op[p].stage /\ q = op[p].point /\ d = op[p].disk /\ ~ HasVolume(s) /\ s \notin unlocking
        /\ session.kind = "valid" =>
             ~ Live(session.stage) /\ session.stage \in Stages /\ session.stage # s
  BY BuildingSafe
     DEF MountDecryptedVolume, Assigned, AssignedAt, Safe, MountApart, MountLabels, StaleLabels
<1>2. op[p].pc = "mountVolume" /\ UNCHANGED <<attached, fuse, unlocking, session>>
  BY DEF MountDecryptedVolume
<1>3. CASE UNCHANGED volume /\ Goto(p, "cleanVolume")
  <2>1. Descent
    BY <1>2, <1>3, SameDescends
  <2> QED
    BY <1>2, <1>3, <2>1, MountDescends DEF MountLabels, StaleLabels
<1>4. ASSUME volume[q] = None, attached[d] # None, volume' = [volume EXCEPT ![q] = attached[d]],
             NEW label \in {"save", "cleanVolume"}, Goto(p, label)
      PROVE  Sound' /\ Safe(p)'
  <2>1. volume'[q] = attached[d] /\ \A r \in Points : r # q => volume'[r] = volume[r]
    BY <1>4 DEF TypeOK
  <2>2. session.kind = "valid" => attached[d] # session.stage
    BY <1>1 DEF Live, HasImage
  <2>3. Sound'
    BY <1>2, <2>1, <2>2 DEF Sound, ImagesOnFuse, RecordAccurate, HasImage
  <2>4. op'[p].pc = label /\ op'[p].stage = s /\ op'[p].point = q
    <3>1. label \in MountLabels \cup UnmountLabels
      BY DEF MountLabels
    <3>2. op'[p].pc = label /\ op'[p].stage = op[p].stage /\ op'[p].point = op[p].point
      BY <1>4, <3>1, GotoStep
    <3> QED
      BY <1>1, <3>2
  <2>5. session.kind = "valid" => ~ Live(session.stage)'
    BY <1>1, <1>2, <2>1, <2>2 DEF Live, HasVolume, HasImage
  <2>6. \A r \in Points : volume'[r] = s => r = q
    BY <1>1, <2>1 DEF HasVolume
  <2>7. MountApart(p)'
    BY <1>1, <1>2, <2>4, <2>6 DEF MountApart
  <2> QED
    BY <1>2, <2>3, <2>4, <2>5, <2>7, MountGoesOn DEF MountLabels, StaleLabels
<1> QED
  BY <1>1, <1>3, <1>4 DEF MountDecryptedVolume

LEMMA SaveSafe ==
  ASSUME ~ LogMayFail, TypeOK, Assigned, NEW p \in Procs, Sound, Safe(p), SaveSession(p)
  PROVE  Sound' /\ Safe(p)'
<1> USE DEF machine, At
<1>1. PICK s \in Stages, q \in Points :
        /\ s = op[p].stage /\ q = op[p].point /\ s \notin unlocking
        /\ \A r \in Points : volume[r] = s => r = q
  BY DEF SaveSession, Assigned, AssignedAt, Safe, MountApart, MountLabels, StaleLabels
<1>2. op[p].pc = "save" /\ UNCHANGED machine
  BY DEF SaveSession
<1>3. CASE UNCHANGED session /\ Goto(p, "cleanVolume")
  <2>1. Descent
    BY <1>2, SameDescends
  <2> QED
    BY <1>2, <1>3, <2>1, MountDescends DEF MountLabels, StaleLabels
<1>4. CASE session' = [kind |-> "valid", stage |-> s, point |-> q] /\ Finish(p)
  <2>1. Sound'
    BY <1>1, <1>2, <1>4 DEF Sound, ImagesOnFuse, RecordAccurate, HasImage
  <2> QED
    BY <1>4, <2>1, FinishSafe
<1> QED
  BY <1>1, <1>3, <1>4 DEF SaveSession

LEMMA CleanupSafe ==
  ASSUME TypeOK, Assigned, NEW p \in Procs, Sound, Safe(p), BestEffortCleanup(p)
  PROVE  Sound' /\ Safe(p)'
<1> USE DEF machine, At
<1>1. PICK s \in Stages, q \in Points : s = op[p].stage /\ q = op[p].point
  BY DEF BestEffortCleanup, CleanVolume, CleanImage, CleanFuse, CleanRecord, Assigned, AssignedAt
<1>2. Descent
  <2>1. CASE CleanVolume(p)
    BY <1>1, <2>1, UnmountedDescends, SameDescends DEF CleanVolume
  <2>2. CASE CleanImage(p)
    <3>1. op[p].disk \in Disks \cup {None}
      BY DEF TypeOK, Operation
    <3> QED
      BY <2>2, <3>1, DetachedDescends, SameDescends DEF CleanImage
  <2>3. CASE CleanFuse(p)
    BY <1>1, <2>3, FuseDescends, SameDescends DEF CleanFuse
  <2>4. CASE CleanRecord(p)
    BY <2>4, SameDescends DEF CleanRecord
  <2> QED
    BY <2>1, <2>2, <2>3, <2>4 DEF BestEffortCleanup
<1>3. CASE CleanVolume(p) \/ CleanImage(p) \/ CleanFuse(p)
  BY <1>2, <1>3, MountDescends DEF CleanVolume, CleanImage, CleanFuse, MountLabels, StaleLabels
<1>4. CASE CleanRecord(p)
  BY <1>2, <1>4, DescentSound, FinishSafe DEF CleanRecord, Cleared, NoSession
<1> QED
  BY <1>3, <1>4 DEF BestEffortCleanup

LEMMA UnmountGoesOn ==
  ASSUME NEW p \in Procs, op'[p].pc \in UnmountLabels, UnmountDone(p)'
  PROVE  Safe(p)'
BY DEF Safe, MountApart, MountOverDeadRecord, StaleChecked, MountLabels, StaleLabels, UnmountLabels

LEMMA UnmountSafe ==
  ASSUME TypeOK, Assigned, NEW p \in Procs, Sound, Safe(p), Unmount(p)
  PROVE  Sound' /\ Safe(p)'
<1> USE DEF machine, At
<1>1. CASE LoadForUnmount(p)
  <2>1. session.kind = "valid" /\ op' = [op EXCEPT ![p] = OnSession("snapshot")] /\ UNCHANGED <<machine, session>>
    BY <1>1 DEF LoadForUnmount
  <2>2. op'[p] = OnSession("snapshot")
    BY <2>1 DEF TypeOK
  <2>3. op'[p].pc = "snapshot" /\ op'[p].stage = session.stage /\ op'[p].point = session.point
    BY <2>2 DEF OnSession, NoOperation
  <2>4. UnmountDone(p)'
    BY <2>1, <2>3 DEF UnmountDone
  <2>5. Sound'
    BY <2>1, SameDescends, DescentSound
  <2> QED
    BY <2>3, <2>4, <2>5, UnmountGoesOn DEF UnmountLabels
<1>2. CASE ~ LoadForUnmount(p)
  <2>1. PICK s \in Stages, q \in Points :
          /\ s = op[p].stage /\ q = op[p].point /\ session.kind = "valid"
          /\ session.stage = s /\ session.point = q /\ op[p].pc \in UnmountLabels
    BY <1>2 DEF Unmount, SnapshotImages, UnmountVolume, UnmountVolumeForce, DetachRawDisk,
                DetachForce, UnmountFuse, RemoveDirs, ClearRecord, UnmountLabels, Safe, UnmountDone,
                Assigned
  <2>2. /\ \A r \in Points : volume[r] = s => r = q
        /\ HasImage(s) => s \in fuse
    BY <2>1 DEF Sound, ImagesOnFuse, RecordAccurate
  <2>3. ASSUME Descent, UNCHANGED session, NEW label \in UnmountLabels,
               op'[p].pc = label, op'[p].stage = s, op'[p].point = q,
               label \in {"detach", "detachForce", "unmountFuse"} => ~ HasVolume(s)',
               label \in {"removeDirs", "clearRecord"} => ~ Live(s)'
        PROVE  Sound' /\ Safe(p)'
    <3>1. UnmountDone(p)'
      BY <2>1, <2>3 DEF UnmountDone
    <3> QED
      BY <2>3, <3>1, UnmountGoesOn, DescentSound
  <2>4. ASSUME Descent, UNCHANGED session, Finish(p) PROVE Sound' /\ Safe(p)'
    BY <2>4, DescentSound, FinishSafe
  <2>5. ASSUME NEW label \in UnmountLabels, Goto(p, label)
        PROVE  op'[p].pc = label /\ op'[p].stage = s /\ op'[p].point = q
    BY <2>1, <2>5, GotoStep
  <2>6. CASE SnapshotImages(p)
    <3>1. Descent /\ UNCHANGED session
      BY <2>6, SameDescends DEF SnapshotImages
    <3>2. op'[p].pc = "unmountVolume" /\ op'[p].stage = s /\ op'[p].point = q
      BY <2>1, <2>6 DEF SnapshotImages, TypeOK, Operation
    <3> QED
      BY <2>3, <3>1, <3>2 DEF UnmountLabels
  <2>7. CASE UnmountVolume(p) \/ UnmountVolumeForce(p)
    <3>1. Descent /\ UNCHANGED session
      BY <2>1, <2>7, SameDescends, UnmountedDescends DEF UnmountVolume, UnmountVolumeForce
    <3>2. CASE Goto(p, "unmountVolumeForce")
      BY <2>3, <2>5, <3>1, <3>2 DEF UnmountLabels
    <3>3. CASE Goto(p, "detach") /\ (Unmounted(q) \/ (volume[q] = None /\ UNCHANGED volume))
      <4>1. volume'[q] # s
        BY <3>3, ConstantsOK DEF Unmounted, TypeOK
      <4>2. \A r \in Points : volume'[r] = s => volume[r] = s
        BY <3>1 DEF Descent
      <4>3. ~ HasVolume(s)'
        BY <2>2, <4>1, <4>2 DEF HasVolume
      <4> QED
        BY <2>3, <2>5, <3>1, <3>3, <4>3 DEF UnmountLabels
    <3> QED
      BY <2>1, <2>4, <2>7, <3>1, <3>2, <3>3 DEF UnmountVolume, UnmountVolumeForce
  <2>8. CASE DetachRawDisk(p) \/ DetachForce(p)
    <3>1. SessionImage(p) \cap {None} = {} /\ SessionImage(p) \subseteq Disks
      BY ConstantsOK DEF SessionImage, TypeOK, Operation
    <3>2. op[p].pc = "detachForce" => op[p].found \in Disks
      BY DEF Assigned, AssignedAt
    <3>3. Descent /\ UNCHANGED session
      BY <2>8, <3>1, <3>2, SameDescends, DetachedDescends DEF DetachRawDisk, DetachForce
    <3>4. ~ HasVolume(s)
      BY <2>1, <2>8 DEF DetachRawDisk, DetachForce, Safe, UnmountDone
    <3>5. ~ HasVolume(s)'
      BY <3>3, <3>4, DescentLowers
    <3>6. op'[p].pc \in {"unmountFuse", "detachForce"} /\ op'[p].stage = s /\ op'[p].point = q
      <4>1. CASE Goto(p, "unmountFuse")
        BY <2>5, <4>1 DEF UnmountLabels
      <4>2. CASE op' = [op EXCEPT ![p].errors = TRUE, ![p].pc = "unmountFuse"]
        BY <2>1, <4>2 DEF TypeOK, Operation
      <4>3. ASSUME NEW d, op' = [op EXCEPT ![p].found = d, ![p].pc = "detachForce"]
            PROVE  op'[p].pc = "detachForce" /\ op'[p].stage = s /\ op'[p].point = q
        BY <2>1, <4>3 DEF TypeOK, Operation
      <4> QED
        BY <2>8, <4>1, <4>2, <4>3 DEF DetachRawDisk, DetachForce
    <3> QED
      BY <2>3, <3>3, <3>5, <3>6 DEF UnmountLabels
  <2>9. CASE UnmountFuse(p)
    <3>1. UNCHANGED <<attached, volume, unlocking, session>>
      BY <2>9 DEF UnmountFuse
    <3>2. CASE UNCHANGED fuse /\ Finish(p)
      BY <2>4, <3>1, <3>2, SameDescends
    <3>3. CASE ~ HasImage(s) /\ fuse' = fuse \ {s} /\ (Goto(p, "removeDirs") \/ Finish(p))
      <4>1. Descent
        BY <3>1, <3>3, FuseDescends
      <4>2. ~ HasVolume(s) /\ ~ HasImage(s) /\ s \notin fuse'
        BY <2>1, <2>9, <3>3 DEF UnmountFuse, Safe, UnmountDone
      <4>3. ~ Live(s)'
        BY <3>1, <4>2 DEF Live, HasImage, HasVolume
      <4> QED
        BY <2>3, <2>4, <2>5, <3>1, <3>3, <4>1, <4>3 DEF UnmountLabels
    <3> QED
      BY <2>1, <2>2, <2>9, <3>2, <3>3 DEF UnmountFuse
  <2>10. CASE RemoveDirs(p)
    <3>1. Descent /\ UNCHANGED session
      BY <2>10, SameDescends DEF RemoveDirs
    <3>2. ~ Live(s)'
      BY <2>1, <2>10, <3>1, DescentLowers DEF RemoveDirs, Safe, UnmountDone
    <3> QED
      BY <2>3, <2>4, <2>5, <2>10, <3>1, <3>2 DEF RemoveDirs, UnmountLabels
  <2>11. CASE ClearRecord(p)
    <3>1. Descent
      BY <2>11, SameDescends DEF ClearRecord
    <3> QED
      BY <2>11, <3>1, DescentSound, FinishSafe DEF ClearRecord, Cleared, NoSession
  <2> QED
    BY <1>2, <2>6, <2>7, <2>8, <2>9, <2>10, <2>11 DEF Unmount
<1> QED
  BY <1>1, <1>2

-----------------------------------------------------------------------------
(* What happens around the program *)

\* Whatever others do, and a dislocker-fuse that gives up, takes layers away.
LEMMA OthersDescend ==
  ASSUME TypeOK, Sound,
         \/ \E s \in Stages : FuseGivesUp(s) \/ HandUnmountFuse(s)
         \/ \E d \in Disks : ForeignAttach(d) \/ ForeignDetach(d) \/ HandDetach(d)
         \/ \E d, e \in Disks : Renumber(d, e)
         \/ \E q \in Points : ForeignMount(q) \/ Eject(q) \/ TouchDir(q)
  PROVE  Descent /\ UNCHANGED <<session, op>>
<1> USE ConstantsOK DEF machine
<1>1. ASSUME NEW s \in Stages, FuseGivesUp(s) \/ HandUnmountFuse(s)
      PROVE  Descent /\ UNCHANGED <<session, op>>
  BY <1>1, SameDescends, FuseDescends DEF FuseGivesUp, HandUnmountFuse
<1>2. ASSUME NEW d \in Disks, ForeignAttach(d)
      PROVE  Descent /\ UNCHANGED <<session, op>>
  <2>1. \A s \in Stages : HasImage(s)' => HasImage(s)
    BY <1>2 DEF ForeignAttach, HasImage, TypeOK
  <2> QED
    BY <1>2, <2>1 DEF ForeignAttach, Descent, Sound, ImagesOnFuse
<1>3. ASSUME NEW d \in Disks, ForeignDetach(d) \/ HandDetach(d)
      PROVE  Descent /\ UNCHANGED <<session, op>>
  BY <1>3, DetachedDescends DEF ForeignDetach, HandDetach
<1>4. ASSUME NEW d \in Disks, NEW e \in Disks, Renumber(d, e)
      PROVE  Descent /\ UNCHANGED <<session, op>>
  <2>1. \A s \in Stages : HasImage(s)' => HasImage(s)
    BY <1>4 DEF Renumber, HasImage, TypeOK
  <2> QED
    BY <1>4, <2>1 DEF Renumber, Descent, Sound, ImagesOnFuse
<1>5. ASSUME NEW q \in Points, ForeignMount(q)
      PROVE  Descent /\ UNCHANGED <<session, op>>
  <2>1. \A r \in Points : volume'[r] \in Stages => volume'[r] = volume[r]
    BY <1>5 DEF ForeignMount, TypeOK
  <2> QED
    BY <1>5, <2>1 DEF ForeignMount, Descent, Sound, ImagesOnFuse, HasImage
<1>6. ASSUME NEW q \in Points, Eject(q) \/ TouchDir(q)
      PROVE  Descent /\ UNCHANGED <<session, op>>
  BY <1>6, UnmountedDescends, SameDescends DEF Eject, TouchDir
<1> QED
  BY <1>1, <1>2, <1>3, <1>4, <1>5, <1>6

LEMMA ComesUpSafe ==
  ASSUME TypeOK, Assigned, NEW p \in Procs, Sound, Safe(p), NEW s \in Stages, FuseComesUp(s)
  PROVE  Sound' /\ Safe(p)'
<1>1. /\ UNCHANGED <<attached, volume, session, op>>
      /\ s \in unlocking /\ unlocking' = unlocking \ {s} /\ fuse' = fuse \cup {s}
  BY DEF FuseComesUp
<1>2. session.kind = "valid" => session.stage # s
  BY <1>1 DEF Sound, RecordAccurate
<1>3. Sound'
  BY <1>1 DEF Sound, ImagesOnFuse, RecordAccurate, HasImage
<1>4. MountApart(p)'
  BY <1>1 DEF Safe, MountApart, HasVolume
<1>5. MountOverDeadRecord(p)'
  BY <1>1, <1>2 DEF Safe, MountOverDeadRecord, Live, HasImage, HasVolume
<1>6. StaleChecked(p)'
  BY <1>1, <1>2 DEF Safe, StaleChecked, Live, HasImage, HasVolume
<1>7. UnmountDone(p)'
  BY <1>1, <1>2 DEF Safe, UnmountDone, Live, HasImage, HasVolume, UnmountLabels
<1> QED
  BY <1>3, <1>4, <1>5, <1>6, <1>7 DEF Safe

LEMMA OutsideSafe ==
  ASSUME TypeOK, Assigned, OperationsSerialized, OperationsSerialized', NEW p \in Procs, Sound,
         Safe(p), Outside
  PROVE  Sound' /\ Safe(p)'
<1>1. ASSUME NEW r \in Procs, Crash(r) PROVE Sound' /\ Safe(p)'
  <2>1. Sound'
    BY <1>1, SameDescends, DescentSound DEF Crash, machine
  <2>2. CASE p = r
    BY <1>1, <2>1, <2>2, FinishSafe DEF Crash
  <2>3. CASE p # r
    BY <1>1, <2>1, <2>3, OthersWait, EndSafe
  <2> QED
    BY <2>2, <2>3
<1>2. CASE Reboot
  <2>1. op'[p].pc = "idle"
    BY <1>2 DEF Reboot, NoOperation
  <2>2. Sound'
    BY <1>2, ConstantsOK DEF Reboot, Sound, ImagesOnFuse, RecordAccurate, HasImage, Assigned
  <2> QED
    BY <2>1, <2>2, EndSafe
<1>3. ASSUME NEW s \in Stages, FuseComesUp(s) PROVE Sound' /\ Safe(p)'
  BY <1>3, ComesUpSafe
<1>4. CASE RemoveUntrusted
  <2>1. /\ session' = NoSession /\ session.kind # "valid" /\ UNCHANGED <<machine, op>>
    BY <1>4 DEF RemoveUntrusted
  <2>2. Sound' /\ Descent
    BY <2>1, SameDescends, DescentSound DEF machine, NoSession
  <2>3. op[p].pc \notin UnmountLabels \cup {"staleMounts", "staleImages", "clearStale"}
    BY <2>1 DEF Safe, UnmountDone, StaleChecked
  <2>4. session'.kind # "valid"
    BY <2>1 DEF NoSession
  <2>5. MountApart(p)' /\ MountOverDeadRecord(p)' /\ UnmountDone(p)'
    BY <2>1, <2>3, <2>4 DEF machine, Safe, MountApart, MountOverDeadRecord, UnmountDone, HasVolume,
                            UnmountLabels
  <2>6. StaleChecked(p)'
    BY <2>1, <2>3, <2>4 DEF machine, Safe, StaleChecked, Live, HasImage, HasVolume
  <2> QED
    BY <2>2, <2>5, <2>6 DEF Safe
<1> QED
  BY <1>1, <1>2, <1>3, <1>4, OthersDescend, DescentSound, DescentSafe DEF Outside

LEMMA InitSafe == Init => Sound /\ \A p \in Procs : Safe(p)
<1> SUFFICES ASSUME Init PROVE Sound /\ \A p \in Procs : Safe(p)
  OBVIOUS
<1>1. session.kind # "valid"
  BY DEF Init, NoSession
<1>2. ImagesOnFuse
  BY ConstantsOK DEF Init, ImagesOnFuse, HasImage
<1>3. \A p \in Procs : Safe(p)
  BY IdleSafe DEF Init, NoOperation
<1> QED
  BY <1>1, <1>2, <1>3 DEF Sound, RecordAccurate

-----------------------------------------------------------------------------
(* Theorems *)

RecordSafe == \A p \in Procs : Sound /\ Safe(p)

LEMMA ProgramSafe ==
  ASSUME ~ LogMayFail, ~ LoadMayFail, TypeOK, Assigned, NEW p \in Procs, Sound, Safe(p), Program(p)
  PROVE  Sound' /\ Safe(p)'
BY ValidateSafe, PrepareSafe, FuseSafe, AttachSafe, MountVolumeSafe, SaveSafe, CleanupSafe, UnmountSafe
   DEF Program, MountPipeline

LEMMA RecordAlwaysSafe ==
  ASSUME ~ LogMayFail, ~ LoadMayFail
  PROVE  Spec /\ []OperationsSerialized => []RecordSafe
<1>1. /\ TypeOK /\ Assigned /\ OperationsSerialized /\ OperationsSerialized' /\ RecordSafe
      /\ [Next]_vars
      => RecordSafe'
  <2> SUFFICES ASSUME TypeOK, Assigned, OperationsSerialized, OperationsSerialized', [Next]_vars,
                      RecordSafe, NEW p \in Procs
               PROVE  Sound' /\ Safe(p)'
    BY DEF RecordSafe
  <2> Sound /\ \A r \in Procs : Safe(r)
    BY DEF RecordSafe
  <2>1. ASSUME NEW r \in Procs, Program(r) PROVE Sound' /\ Safe(p)'
    <3>1. Sound' /\ Safe(r)'
      BY <2>1, ProgramSafe
    <3>2. CASE p # r
      BY <2>1, <3>1, <3>2, OthersWait, EndSafe
    <3> QED
      BY <3>1, <3>2
  <2>2. CASE UNCHANGED vars
    BY <2>2, SameDescends, DescentSound, DescentSafe DEF vars
  <2> QED
    BY <2>1, <2>2, OutsideSafe DEF Next
<1>2. Init => RecordSafe
  BY InitSafe DEF RecordSafe
<1> QED
  BY <1>1, <1>2, TypeCorrect, PTL DEF Spec

\* No step removes or overwrites the record of a stack that has a layer left:
\* clear_session and save_session run only once the stack is known to be
\* bare, and a failed unmount keeps what a retry needs, also when disks are
\* renumbered, taken over, ejected or mounted by hand between its steps.  This
\* takes operations that do not overlap, loads that find the record that is
\* there, and a log call after save_session that does not raise.
THEOREM RecordOutlives ==
  ASSUME ~ LogMayFail, ~ LoadMayFail
  PROVE  Spec /\ []OperationsSerialized => RecordOutlivesLayers
<1>1. TypeOK /\ Assigned /\ RecordSafe /\ [Next]_vars =>
        [session.kind = "valid" /\ session' # session => ~ Live(session.stage)]_vars
  <2> SUFFICES ASSUME TypeOK, Assigned, RecordSafe, Next, session.kind = "valid",
                      session' # session
               PROVE  ~ Live(session.stage)
    OBVIOUS
  <2>1. ASSUME NEW p \in Procs, Program(p) PROVE ~ Live(session.stage)
    <3>1. Safe(p)
      BY DEF RecordSafe
    <3>2. CASE ClearStale(p) \/ SaveSession(p) \/ CleanRecord(p)
      BY <3>1, <3>2 DEF ClearStale, SaveSession, CleanRecord, At, Safe, MountOverDeadRecord,
                        StaleChecked, MountLabels, StaleLabels
    <3>3. CASE ClearRecord(p)
      BY <3>1, <3>3 DEF ClearRecord, At, Safe, UnmountDone, UnmountLabels
    <3>4. CASE Validate(p) /\ ~ ClearStale(p)
      BY <3>4 DEF Validate, LoadForMount, CheckMounts, CheckImages, DropStale
    <3>5. CASE MountPipeline(p) /\ ~ SaveSession(p)
      BY <3>5 DEF MountPipeline, PrepareFuseMount, AllocatePoint, StartFuse, WaitForFile, Attach,
                  MountDecryptedVolume
    <3>6. CASE BestEffortCleanup(p) /\ ~ CleanRecord(p)
      BY <3>6 DEF BestEffortCleanup, CleanVolume, CleanImage, CleanFuse
    <3>7. CASE Unmount(p) /\ ~ ClearRecord(p)
      BY <3>7 DEF Unmount, LoadForUnmount, SnapshotImages, UnmountVolume, UnmountVolumeForce,
                  DetachRawDisk, DetachForce, UnmountFuse, RemoveDirs
    <3> QED
      BY <2>1, <3>2, <3>3, <3>4, <3>5, <3>6, <3>7 DEF Program
  <2>2. CASE Outside
    BY <2>2 DEF Outside, Crash, Reboot, FuseComesUp, FuseGivesUp, HandUnmountFuse, ForeignAttach,
                ForeignDetach, HandDetach, Renumber, ForeignMount, Eject, TouchDir, RemoveUntrusted
  <2> QED
    BY <2>1, <2>2 DEF Next
<1>2. Spec /\ []OperationsSerialized => []RecordSafe
  BY RecordAlwaysSafe
<1> QED
  BY <1>1, <1>2, TypeCorrect, PTL DEF Spec, RecordOutlivesLayers

=============================================================================
