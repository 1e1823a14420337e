---------------------------- MODULE RunnerProofs ----------------------------
(***************************************************************************)
(* Theorems about Runner, for every number of processes, disks, stages and *)
(* mount points: types; no process takes a disk or a disk's volume away    *)
(* from anyone else, as long as disks come and go between operations only; *)
(* and who waits while one operation runs.                                 *)
(***************************************************************************)
EXTENDS RunnerInvariant, TLAPS

-----------------------------------------------------------------------------
(* How one step changes the operations *)

LEMMA NoOperationType == NoOperation \in Operation
  BY ConstantsOK DEF NoOperation, Operation

LEMMA OnSessionType ==
  ASSUME TypeOK, NEW label \in MountLabels \cup UnmountLabels
  PROVE  /\ OnSession(label) \in Operation
         /\ OnSession(label).pc = label
         /\ OnSession(label).stage = session.stage
         /\ OnSession(label).point = session.point
         /\ OnSession(label).disk = None
         /\ OnSession(label).found = None
         /\ OnSession(label).errors = FALSE
  BY ConstantsOK DEF OnSession, NoOperation, TypeOK, SessionFile, Operation

LEMMA FinishStep ==
  ASSUME TypeOK, NEW p \in Procs, Finish(p)
  PROVE  /\ op' \in [Procs -> Operation]
         /\ op'[p] = NoOperation
         /\ \A r \in Procs \ {p} : op'[r] = op[r]
  BY NoOperationType DEF Finish, TypeOK

LEMMA GotoStep ==
  ASSUME TypeOK, NEW p \in Procs,
         NEW label \in MountLabels \cup UnmountLabels, Goto(p, label)
  PROVE  /\ op' \in [Procs -> Operation]
         /\ op'[p] = [op[p] EXCEPT !.pc = label]
         /\ op'[p].pc = label
         /\ op'[p].stage = op[p].stage
         /\ op'[p].point = op[p].point
         /\ op'[p].disk = op[p].disk
         /\ op'[p].found = op[p].found
         /\ op'[p].errors = op[p].errors
         /\ \A r \in Procs \ {p} : op'[r] = op[r]
  BY DEF Goto, TypeOK, Operation

LEMMA DetachedType ==
  ASSUME TypeOK, NEW d \in Disks, Detached(d)
  PROVE  /\ attached' \in [Disks -> Stages \cup {Foreign, None}]
         /\ volume' \in [Points -> Stages \cup {Foreign, None}]
         /\ device' \in [Points -> Disks \cup {NonDev, None}]
  BY DEF Detached, TypeOK

LEMMA UnmountedType ==
  ASSUME TypeOK, NEW q, Unmounted(q)
  PROVE  /\ volume' \in [Points -> Stages \cup {Foreign, None}]
         /\ device' \in [Points -> Disks \cup {NonDev, None}]
  BY DEF Unmounted, TypeOK

-----------------------------------------------------------------------------
(* Type correctness *)

LEMMA IdleAssigned == AssignedAt(NoOperation)
  BY DEF AssignedAt, NoOperation

LEMMA GotoAssigned ==
  ASSUME TypeOK, Assigned, NEW p \in Procs,
         NEW label \in MountLabels \cup UnmountLabels, Goto(p, label),
         op[p].pc \notin {"idle", "prepare", "allocate"},
         label \notin {"mountVolume", "save", "detachForce"}
  PROVE  AssignedAt(op'[p])
<1>1. op'[p].pc = label /\ op'[p].stage = op[p].stage /\ op'[p].point = op[p].point
  BY GotoStep
<1>2. op[p].stage \in Stages /\ op[p].point \in Points
  BY DEF Assigned, AssignedAt
<1> QED
  BY <1>1, <1>2 DEF AssignedAt

SessionAssigned ==
  session.kind = "valid" => session.stage \in Stages /\ session.point \in Points

LEMMA AssignedStep ==
  ASSUME Assigned, NEW p \in Procs, AssignedAt(op'[p]),
         \A r \in Procs \ {p} : op'[r] = op[r], SessionAssigned'
  PROVE  Assigned'
  BY DEF Assigned, AssignedAt, SessionAssigned

LEMMA ClearedType ==
  ASSUME TypeOK, Assigned, Cleared
  PROVE  session' \in SessionFile /\ SessionAssigned'
  BY ConstantsOK DEF Cleared, NoSession, SessionFile, SessionAssigned, TypeOK, Assigned

LEMMA FinishKeeps ==
  ASSUME TypeOK, Assigned, NEW p \in Procs, Finish(p), SessionAssigned'
  PROVE  op' \in [Procs -> Operation] /\ Assigned'
  BY FinishStep, IdleAssigned, AssignedStep

LEMMA GotoKeeps ==
  ASSUME TypeOK, Assigned, NEW p \in Procs,
         NEW label \in MountLabels \cup UnmountLabels, Goto(p, label),
         op[p].pc \notin {"idle", "prepare", "allocate"},
         label \notin {"mountVolume", "save", "detachForce"}, SessionAssigned'
  PROVE  op' \in [Procs -> Operation] /\ Assigned'
  BY GotoStep, GotoAssigned, AssignedStep

LEMMA SetKeeps ==
  ASSUME TypeOK, Assigned, NEW p \in Procs, NEW o \in Operation, AssignedAt(o),
         op' = [op EXCEPT ![p] = o], SessionAssigned'
  PROVE  op' \in [Procs -> Operation] /\ Assigned'
  BY AssignedStep DEF TypeOK

LEMMA FailedKeeps ==
  ASSUME TypeOK, Assigned, NEW p \in Procs, op[p].pc \in {"detach", "detachForce"},
         op' = [op EXCEPT ![p].errors = TRUE, ![p].pc = "unmountFuse"],
         SessionAssigned'
  PROVE  op' \in [Procs -> Operation] /\ Assigned'
<1> DEFINE o == [op[p] EXCEPT !.errors = TRUE, !.pc = "unmountFuse"]
<1>1. op[p] \in Operation /\ op[p].stage \in Stages /\ op[p].point \in Points
  BY DEF TypeOK, Assigned, AssignedAt
<1>2. /\ o \in Operation /\ o.pc = "unmountFuse"
      /\ o.stage = op[p].stage /\ o.point = op[p].point
  BY <1>1 DEF Operation, UnmountLabels
<1>3. AssignedAt(o)
  BY <1>1, <1>2 DEF AssignedAt
<1>4. op' = [op EXCEPT ![p] = o]
  BY DEF TypeOK, Operation
<1> HIDE DEF o
<1> QED
  BY <1>2, <1>3, <1>4, SetKeeps

LEMMA SessionKeeps ==
  ASSUME Assigned, UNCHANGED session
  PROVE  SessionAssigned'
  BY DEF Assigned, SessionAssigned

LEMMA ValidateType ==
  ASSUME TypeOK, Assigned, NEW p \in Procs, Validate(p)
  PROVE  TypeOK' /\ Assigned'
<1> USE SessionKeeps DEF machine
<1>1. CASE LoadForMount(p)
  <2>1. CASE Goto(p, "prepare")
    <3>1. op'[p].pc = "prepare"
      BY <2>1, GotoStep DEF MountLabels
    <3>2. AssignedAt(op'[p])
      BY <3>1 DEF AssignedAt
    <3> QED
      BY <1>1, <2>1, <3>2, GotoStep, AssignedStep DEF LoadForMount, TypeOK, MountLabels
  <2>2. CASE session.kind = "valid" /\ op' = [op EXCEPT ![p] = OnSession("staleMounts")]
    <3>1. OnSession("staleMounts") \in Operation /\ AssignedAt(OnSession("staleMounts"))
      BY <2>2, OnSessionType DEF Assigned, AssignedAt, MountLabels
    <3> QED
      BY <1>1, <2>2, <3>1, SetKeeps DEF LoadForMount, TypeOK
  <2> QED
    BY <1>1, <2>1, <2>2 DEF LoadForMount
<1>2. CASE CheckMounts(p)
  BY <1>2, GotoKeeps, FinishKeeps DEF CheckMounts, At, MountLabels, TypeOK
<1>3. CASE CheckImages(p)
  BY <1>3, GotoKeeps, FinishKeeps DEF CheckImages, At, MountLabels, TypeOK
<1>4. CASE ClearStale(p)
  BY <1>4, GotoKeeps, ClearedType DEF ClearStale, At, MountLabels, TypeOK
<1>5. CASE DropStale(p)
  <2> DEFINE o == [NoOperation EXCEPT !.pc = "prepare"]
  <2>1. o \in Operation /\ AssignedAt(o)
    BY NoOperationType DEF NoOperation, Operation, AssignedAt, MountLabels
  <2>2. op' \in [Procs -> Operation] /\ Assigned'
    BY <1>5, <2>1, SetKeeps DEF DropStale
  <2> QED
    BY <1>5, <2>2 DEF DropStale, TypeOK
<1> QED
  BY <1>1, <1>2, <1>3, <1>4, <1>5 DEF Validate

LEMMA MountPipelineType ==
  ASSUME TypeOK, Assigned, NEW p \in Procs, MountPipeline(p)
  PROVE  TypeOK' /\ Assigned'
<1> USE SessionKeeps DEF machine
<1>1. CASE PrepareFuseMount(p)
  <2>1. CASE Finish(p) /\ UNCHANGED stageDir
    BY <1>1, <2>1, FinishKeeps DEF PrepareFuseMount, TypeOK
  <2>2. ASSUME NEW s \in Stages, stageDir' = stageDir \cup {s},
               op' = [op EXCEPT ![p].stage = s, ![p].pc = "allocate"]
        PROVE  TypeOK' /\ Assigned'
    <3> DEFINE o == [op[p] EXCEPT !.stage = s, !.pc = "allocate"]
    <3>0. op[p] \in Operation
      BY DEF TypeOK
    <3>1. o \in Operation /\ AssignedAt(o)
      BY <3>0 DEF Operation, AssignedAt, MountLabels
    <3>2. op' = [op EXCEPT ![p] = o]
      BY <2>2, <3>0 DEF TypeOK, Operation
    <3> HIDE DEF o
    <3> QED
      BY <1>1, <2>2, <3>1, <3>2, SetKeeps DEF PrepareFuseMount, TypeOK
  <2> QED
    BY <1>1, <2>1, <2>2 DEF PrepareFuseMount
<1>2. CASE AllocatePoint(p)
  <2>1. CASE Finish(p) /\ UNCHANGED dir
    BY <1>2, <2>1, FinishKeeps DEF AllocatePoint, TypeOK
  <2>2. ASSUME NEW q \in Points, dir' = [dir EXCEPT ![q] = "empty"],
               op' = [op EXCEPT ![p].point = q, ![p].pc = "startFuse"]
        PROVE  TypeOK' /\ Assigned'
    <3> DEFINE o == [op[p] EXCEPT !.point = q, !.pc = "startFuse"]
    <3>1. o \in Operation /\ AssignedAt(o)
      <4>1. op[p] \in Operation /\ op[p].stage \in Stages
        BY <1>2 DEF AllocatePoint, At, TypeOK, Assigned, AssignedAt
      <4>2. o \in Operation /\ o.pc = "startFuse" /\ o.point = q /\ o.stage = op[p].stage
        BY <4>1 DEF Operation, MountLabels
      <4> QED
        BY <4>1, <4>2 DEF AssignedAt
    <3>2. op' = [op EXCEPT ![p] = o]
      BY <2>2 DEF TypeOK, Operation
    <3> HIDE DEF o
    <3> QED
      BY <1>2, <2>2, <3>1, <3>2, SetKeeps DEF AllocatePoint, TypeOK
  <2> QED
    BY <1>2, <2>1, <2>2 DEF AllocatePoint
<1>3. CASE StartFuse(p)
  <2>1. op[p].stage \in Stages
    BY <1>3 DEF StartFuse, At, Assigned, AssignedAt
  <2> QED
    BY <1>3, <2>1, GotoKeeps DEF StartFuse, At, MountLabels, TypeOK
<1>4. CASE WaitForFile(p)
  BY <1>4, GotoKeeps DEF WaitForFile, At, MountLabels, TypeOK
<1>5. CASE Attach(p)
  <2>1. CASE UNCHANGED attached /\ Goto(p, "cleanVolume")
    BY <1>5, <2>1, GotoKeeps DEF Attach, At, MountLabels, TypeOK
  <2>2. ASSUME NEW d \in Disks,
               attached' = [attached EXCEPT ![d] = op[p].stage],
               \/ op' = [op EXCEPT ![p].disk = d, ![p].pc = "mountVolume"]
               \/ Goto(p, "cleanVolume")
        PROVE  TypeOK' /\ Assigned'
    <3> DEFINE o == [op[p] EXCEPT !.disk = d, !.pc = "mountVolume"]
    <3>1. o \in Operation /\ AssignedAt(o)
      <4>1. op[p] \in Operation /\ op[p].stage \in Stages /\ op[p].point \in Points
        BY <1>5 DEF Attach, At, TypeOK, Assigned, AssignedAt
      <4>2. /\ o \in Operation /\ o.pc = "mountVolume" /\ o.disk = d
            /\ o.stage = op[p].stage /\ o.point = op[p].point
        BY <4>1 DEF Operation, MountLabels
      <4> QED
        BY <4>1, <4>2 DEF AssignedAt
    <3>2. CASE op' = [op EXCEPT ![p].disk = d, ![p].pc = "mountVolume"]
      <4>1. op' = [op EXCEPT ![p] = o]
        BY <3>2 DEF TypeOK, Operation
      <4> HIDE DEF o
      <4>2. op' \in [Procs -> Operation] /\ Assigned'
        BY <1>5, <4>1, <3>1, SetKeeps DEF Attach
      <4> QED
        BY <1>5, <2>2, <4>2 DEF Attach, TypeOK, Operation
    <3>3. CASE Goto(p, "cleanVolume")
      BY <1>5, <2>2, <3>3, GotoKeeps DEF Attach, At, MountLabels, TypeOK, Operation
    <3> QED
      BY <2>2, <3>2, <3>3
  <2> QED
    BY <1>5, <2>1, <2>2 DEF Attach
<1>6. CASE MountDecryptedVolume(p)
  <2>1. /\ volume' \in [Points -> Stages \cup {Foreign, None}]
        /\ device' \in [Points -> Disks \cup {NonDev, None}]
        /\ dir' \in [Points -> {"absent", "empty", "full"}]
    BY <1>6 DEF MountDecryptedVolume, At, Assigned, AssignedAt, TypeOK
  <2>2. CASE Goto(p, "save")
    <3>1. op[p].stage \in Stages /\ op[p].point \in Points /\ op[p].disk \in Disks
      BY <1>6 DEF MountDecryptedVolume, At, Assigned, AssignedAt
    <3>2. /\ op'[p].pc = "save" /\ op'[p].stage = op[p].stage
          /\ op'[p].point = op[p].point /\ op'[p].disk = op[p].disk
      BY <2>2, GotoStep DEF MountLabels
    <3>3. AssignedAt(op'[p])
      BY <3>1, <3>2 DEF AssignedAt
    <3> QED
      BY <1>6, <2>1, <2>2, <3>3, GotoStep, AssignedStep
         DEF MountDecryptedVolume, MountLabels, TypeOK
  <2>3. CASE Goto(p, "cleanVolume")
    BY <1>6, <2>1, <2>3, GotoKeeps DEF MountDecryptedVolume, At, MountLabels, TypeOK
  <2> QED
    BY <1>6, <2>2, <2>3 DEF MountDecryptedVolume
<1>7. CASE SaveSession(p)
  <2>1. session' \in SessionFile /\ SessionAssigned'
    BY <1>7 DEF SaveSession, At, SessionFile, SessionAssigned, TypeOK, Operation,
                Assigned, AssignedAt
  <2> QED
    BY <1>7, <2>1, GotoKeeps, FinishKeeps DEF SaveSession, At, MountLabels, TypeOK
<1> QED
  BY <1>1, <1>2, <1>3, <1>4, <1>5, <1>6, <1>7 DEF MountPipeline

LEMMA CleanupType ==
  ASSUME TypeOK, Assigned, NEW p \in Procs, BestEffortCleanup(p)
  PROVE  TypeOK' /\ Assigned'
<1> USE SessionKeeps DEF machine
<1>1. CASE CleanVolume(p)
  BY <1>1, GotoKeeps, UnmountedType DEF CleanVolume, At, MountLabels, TypeOK
<1>2. CASE CleanImage(p)
  <2>1. op[p].disk \in Disks \cup {None}
    BY DEF TypeOK, Operation
  <2> QED
    BY <1>2, <2>1, GotoKeeps, DetachedType DEF CleanImage, At, MountLabels, TypeOK
<1>3. CASE CleanFuse(p)
  BY <1>3, GotoKeeps DEF CleanFuse, At, MountLabels, TypeOK
<1>4. CASE CleanRecord(p)
  BY <1>4, FinishKeeps, ClearedType DEF CleanRecord, TypeOK
<1> QED
  BY <1>1, <1>2, <1>3, <1>4 DEF BestEffortCleanup

LEMMA UnmountType ==
  ASSUME TypeOK, Assigned, NEW p \in Procs, Unmount(p)
  PROVE  TypeOK' /\ Assigned'
<1> USE SessionKeeps DEF machine
<1>1. CASE LoadForUnmount(p)
  <2>1. OnSession("snapshot") \in Operation /\ AssignedAt(OnSession("snapshot"))
    BY <1>1, OnSessionType DEF LoadForUnmount, Assigned, AssignedAt, UnmountLabels
  <2> QED
    BY <1>1, <2>1, SetKeeps DEF LoadForUnmount, TypeOK
<1>2. CASE SnapshotImages(p)
  <2>1. PICK d \in Disks \cup {None, Unknown} :
          op' = [op EXCEPT ![p].found = d, ![p].pc = "unmountVolume"]
    BY <1>2 DEF SnapshotImages
  <2> DEFINE o == [op[p] EXCEPT !.found = d, !.pc = "unmountVolume"]
  <2>2. op[p] \in Operation /\ op[p].stage \in Stages /\ op[p].point \in Points
    BY <1>2 DEF SnapshotImages, At, TypeOK, Assigned, AssignedAt
  <2>3. /\ o \in Operation /\ o.pc = "unmountVolume"
        /\ o.stage = op[p].stage /\ o.point = op[p].point
    BY <2>2 DEF Operation, UnmountLabels
  <2>4. AssignedAt(o)
    BY <2>2, <2>3 DEF AssignedAt
  <2>5. op' = [op EXCEPT ![p] = o]
    BY <2>1 DEF TypeOK, Operation
  <2> HIDE DEF o
  <2> QED
    BY <1>2, <2>3, <2>4, <2>5, SetKeeps DEF SnapshotImages, TypeOK
<1>3. CASE UnmountVolume(p)
  BY <1>3, GotoKeeps, FinishKeeps, UnmountedType
     DEF UnmountVolume, At, UnmountLabels, TypeOK
<1>4. CASE UnmountVolumeForce(p)
  BY <1>4, GotoKeeps, FinishKeeps, UnmountedType
     DEF UnmountVolumeForce, At, UnmountLabels, TypeOK
<1>5. CASE DetachRawDisk(p)
  <2>1. CASE Goto(p, "unmountFuse") /\ UNCHANGED <<attached, volume, device>>
    BY <1>5, <2>1, GotoKeeps DEF DetachRawDisk, At, UnmountLabels, TypeOK
  <2>2. CASE /\ op' = [op EXCEPT ![p].errors = TRUE, ![p].pc = "unmountFuse"]
             /\ UNCHANGED <<attached, volume, device>>
    BY <1>5, <2>2, FailedKeeps DEF DetachRawDisk, At, UnmountLabels, TypeOK
  <2>3. ASSUME NEW d \in SessionImage(p),
               \/ Detached(d) /\ Goto(p, "unmountFuse")
               \/ /\ Detached(d) \/ UNCHANGED <<attached, volume, device>>
                  /\ op' = [op EXCEPT ![p].found = d, ![p].pc = "detachForce"]
        PROVE  TypeOK' /\ Assigned'
    <3>1. d \in Disks
      BY DEF SessionImage, TypeOK, Operation
    <3>2. CASE Goto(p, "unmountFuse")
      BY <1>5, <2>3, <3>1, <3>2, GotoKeeps, DetachedType
         DEF DetachRawDisk, At, UnmountLabels, TypeOK
    <3>3. CASE op' = [op EXCEPT ![p].found = d, ![p].pc = "detachForce"]
      <4> DEFINE o == [op[p] EXCEPT !.found = d, !.pc = "detachForce"]
      <4>1. op[p] \in Operation /\ op[p].stage \in Stages /\ op[p].point \in Points
        BY <1>5 DEF DetachRawDisk, At, TypeOK, Assigned, AssignedAt
      <4>2. /\ o \in Operation /\ o.pc = "detachForce" /\ o.found = d
            /\ o.stage = op[p].stage /\ o.point = op[p].point
        BY <3>1, <4>1 DEF Operation, UnmountLabels
      <4>3. AssignedAt(o)
        BY <3>1, <4>1, <4>2 DEF AssignedAt
      <4>4. op' = [op EXCEPT ![p] = o]
        BY <3>3 DEF TypeOK, Operation
      <4> HIDE DEF o
      <4>5. op' \in [Procs -> Operation] /\ Assigned'
        BY <1>5, <4>2, <4>3, <4>4, SetKeeps DEF DetachRawDisk
      <4> QED
        BY <1>5, <2>3, <3>1, <4>5, DetachedType DEF DetachRawDisk, TypeOK
    <3> QED
      BY <2>3, <3>2, <3>3
  <2> QED
    BY <1>5, <2>1, <2>2, <2>3 DEF DetachRawDisk
<1>6. CASE DetachForce(p)
  <2>1. op[p].found \in Disks
    BY <1>6 DEF DetachForce, At, Assigned, AssignedAt
  <2>2. CASE Goto(p, "unmountFuse")
    BY <1>6, <2>1, <2>2, GotoKeeps, DetachedType
       DEF DetachForce, At, UnmountLabels, TypeOK
  <2>3. CASE op' = [op EXCEPT ![p].errors = TRUE, ![p].pc = "unmountFuse"]
    BY <1>6, <2>1, <2>3, FailedKeeps, DetachedType
       DEF DetachForce, At, UnmountLabels, TypeOK
  <2> QED
    BY <1>6, <2>2, <2>3 DEF DetachForce
<1>7. CASE UnmountFuse(p)
  BY <1>7, GotoKeeps, FinishKeeps DEF UnmountFuse, At, UnmountLabels, TypeOK
<1>8. CASE RemoveDirs(p)
  BY <1>8, GotoKeeps, FinishKeeps DEF RemoveDirs, At, UnmountLabels, TypeOK
<1>9. CASE ClearRecord(p)
  BY <1>9, FinishKeeps, ClearedType DEF ClearRecord, TypeOK
<1> QED
  BY <1>1, <1>2, <1>3, <1>4, <1>5, <1>6, <1>7, <1>8, <1>9 DEF Unmount

LEMMA OutsideType ==
  ASSUME TypeOK, Assigned, Outside
  PROVE  TypeOK' /\ Assigned'
<1> USE SessionKeeps DEF machine
<1>1. ASSUME NEW p \in Procs, Crash(p) PROVE TypeOK' /\ Assigned'
  BY <1>1, FinishKeeps DEF Crash, TypeOK
<1>2. CASE Reboot
  <2>1. op' \in [Procs -> Operation] /\ Assigned'
    BY <1>2, NoOperationType, IdleAssigned DEF Reboot, Assigned
  <2> QED
    BY <1>2, <2>1 DEF Reboot, TypeOK
<1>3. ASSUME UNCHANGED <<op, session>> PROVE Assigned'
  BY <1>3 DEF Assigned
<1>4. ASSUME NEW s \in Stages, FuseComesUp(s) \/ FuseGivesUp(s) \/ HandUnmountFuse(s)
      PROVE TypeOK' /\ Assigned'
  BY <1>3, <1>4 DEF FuseComesUp, FuseGivesUp, HandUnmountFuse, TypeOK
<1>5. ASSUME NEW d \in Disks, ForeignAttach(d) \/ ForeignDetach(d) \/ HandDetach(d)
      PROVE TypeOK' /\ Assigned'
  BY <1>3, <1>5, DetachedType DEF ForeignAttach, ForeignDetach, HandDetach, TypeOK
<1>6. ASSUME NEW d \in Disks, NEW e \in Disks, Renumber(d, e)
      PROVE TypeOK' /\ Assigned'
  BY <1>3, <1>6 DEF Renumber, TypeOK
<1>7. ASSUME NEW q \in Points, ForeignMount(q) PROVE TypeOK' /\ Assigned'
  BY <1>3, <1>7 DEF ForeignMount, TypeOK
<1>8. ASSUME NEW q \in Points, Eject(q) \/ TouchDir(q) PROVE TypeOK' /\ Assigned'
  BY <1>3, <1>8, UnmountedType DEF Eject, TouchDir, TypeOK
<1>9. CASE RemoveUntrusted
  BY <1>9, ConstantsOK DEF RemoveUntrusted, NoSession, SessionFile, TypeOK, Assigned
<1> QED
  BY <1>1, <1>2, <1>4, <1>5, <1>6, <1>7, <1>8, <1>9 DEF Outside

LEMMA InitType == Init => TypeOK /\ Assigned
<1> SUFFICES ASSUME Init PROVE TypeOK /\ Assigned
  OBVIOUS
<1>1. 1 \in Points /\ 0 \in Points \cup {0}
  BY ConstantsOK DEF Points
<1>2. op \in [Procs -> Operation] /\ \A p \in Procs : AssignedAt(op[p])
  BY NoOperationType, IdleAssigned DEF Init
<1>3. CASE session = NoSession
  BY <1>2, <1>3, ConstantsOK DEF Init, NoSession, SessionFile, TypeOK, Assigned
<1>4. ASSUME NEW s \in Stages, NEW d \in Disks, NEW k \in {"distrusted", "legacy"},
             session = [kind |-> k, stage |-> s, point |-> 1],
             attached = [e \in Disks |-> IF e = d THEN s ELSE None],
             volume = [q \in Points |-> IF q = 1 THEN s ELSE None],
             device = [q \in Points |-> IF q = 1 THEN NonDev ELSE None],
             fuse = {s}, stageDir = {s},
             dir = [q \in Points |-> IF q = 1 THEN "empty" ELSE "absent"]
      PROVE TypeOK /\ Assigned
  BY <1>1, <1>2, <1>4 DEF Init, SessionFile, TypeOK, Assigned
<1> QED
  BY <1>3, <1>4 DEF Init

\* The variables keep their types, and every local variable is assigned
\* before the code that reads it runs.
THEOREM TypeCorrect == Spec => [](TypeOK /\ Assigned)
<1>1. TypeOK /\ Assigned /\ [Next]_vars => TypeOK' /\ Assigned'
  <2> SUFFICES ASSUME TypeOK, Assigned, [Next]_vars PROVE TypeOK' /\ Assigned'
    OBVIOUS
  <2>1. ASSUME NEW p \in Procs, Program(p) PROVE TypeOK' /\ Assigned'
    BY <2>1, ValidateType, MountPipelineType, CleanupType, UnmountType DEF Program
  <2>2. CASE UNCHANGED vars
    BY <2>2 DEF vars, TypeOK, Assigned
  <2> QED
    BY <2>1, <2>2, OutsideType DEF Next
<1> QED
  BY <1>1, InitType, PTL DEF Spec

-----------------------------------------------------------------------------
(* Which steps touch what *)

LEMMA MachineSteps ==
  ASSUME NEW p \in Procs, Program(p)
  PROVE  \/ UNCHANGED <<attached, volume, device>>
         \/ Attach(p) \/ MountDecryptedVolume(p) \/ CleanVolume(p) \/ CleanImage(p)
         \/ UnmountVolume(p) \/ UnmountVolumeForce(p)
         \/ DetachRawDisk(p) \/ DetachForce(p)
<1>1. CASE Validate(p)
  BY <1>1 DEF Validate, LoadForMount, CheckMounts, CheckImages, ClearStale,
              DropStale, machine
<1>2. CASE MountPipeline(p)
  BY <1>2 DEF MountPipeline, PrepareFuseMount, AllocatePoint, StartFuse,
              WaitForFile, SaveSession, machine
<1>3. CASE BestEffortCleanup(p)
  BY <1>3 DEF BestEffortCleanup, CleanFuse, CleanRecord
<1>4. CASE Unmount(p)
  BY <1>4 DEF Unmount, LoadForUnmount, SnapshotImages, UnmountFuse, RemoveDirs,
              ClearRecord, machine
<1> QED
  BY <1>1, <1>2, <1>3, <1>4 DEF Program

LEMMA SessionImageOurs ==
  ASSUME TypeOK, Assigned, DisksAccounted, NEW p \in Procs,
         op[p].pc \in {"unmountVolume", "detach"}, NEW d \in SessionImage(p)
  PROVE  d \in Disks /\ attached[d] # Foreign
<1>1. op[p].stage \in Stages /\ op[p].found \in Disks \cup {None, Unknown}
  BY DEF TypeOK, Assigned, AssignedAt, Operation
<1>2. CASE op[p].found = Unknown
  BY <1>1, <1>2, ConstantsOK DEF SessionImage
<1>3. CASE op[p].found # Unknown
  BY <1>1, <1>3 DEF SessionImage, DisksAccounted
<1> QED
  BY <1>2, <1>3

\* No disk turns foreign, and none stops being foreign, by a program step.
LEMMA DiskSteps ==
  ASSUME TypeOK, Assigned, DisksAccounted, NEW p \in Procs, Program(p),
         NEW d \in Disks
  PROVE  attached[d] = Foreign <=> attached'[d] = Foreign
<1>1. CASE UNCHANGED attached
  BY <1>1
<1>2. CASE Attach(p)
  <2>1. op[p].stage \in Stages
    BY <1>2 DEF Attach, At, Assigned, AssignedAt
  <2> QED
    BY <1>2, <2>1, ConstantsOK DEF Attach, TypeOK
<1>3. ASSUME NEW e \in Disks, Detached(e), attached[e] # Foreign
      PROVE  attached[d] = Foreign <=> attached'[d] = Foreign
  BY <1>3, ConstantsOK DEF Detached, TypeOK
<1>4. CASE CleanImage(p)
  <2>1. op[p].stage \in Stages /\ op[p].disk \in Disks \cup {None}
    BY <1>4 DEF CleanImage, At, TypeOK, Assigned, AssignedAt, Operation
  <2> QED
    BY <1>1, <1>3, <1>4, <2>1, ConstantsOK DEF CleanImage
<1>5. CASE DetachRawDisk(p)
  BY <1>1, <1>3, <1>5, SessionImageOurs DEF DetachRawDisk, At
<1>6. CASE DetachForce(p)
  <2>1. op[p].found \in Disks /\ attached[op[p].found] # Foreign
    BY <1>6 DEF DetachForce, At, Assigned, AssignedAt, DisksAccounted
  <2> QED
    BY <1>1, <1>3, <1>6, <2>1 DEF DetachForce
<1>7. CASE \/ MountDecryptedVolume(p) \/ CleanVolume(p)
           \/ UnmountVolume(p) \/ UnmountVolumeForce(p)
  BY <1>1, <1>7 DEF MountDecryptedVolume, CleanVolume, UnmountVolume, UnmountVolumeForce
<1> QED
  BY <1>1, <1>2, <1>4, <1>5, <1>6, <1>7, MachineSteps

\* No volume of another disk appears by a program step, nor does one go.
LEMMA VolumeSteps ==
  ASSUME TypeOK, Assigned, DisksAccounted, PointsAccounted,
         NEW p \in Procs, Program(p), NEW q \in Points
  PROVE  /\ ForeignAt(q)' => ForeignAt(q) /\ device'[q] = device[q]
         /\ ForeignAt(q) => volume'[q] = Foreign
<1> DEFINE Kept == /\ ForeignAt(q)' => ForeignAt(q) /\ device'[q] = device[q]
                   /\ ForeignAt(q) => volume'[q] = Foreign
<1>1. CASE UNCHANGED <<volume, device>>
  BY <1>1 DEF ForeignAt
<1>2. ASSUME NEW r \in Points, Unmounted(r), ~ ForeignAt(r) PROVE Kept
  BY <1>2, ConstantsOK DEF Unmounted, ForeignAt, TypeOK
<1>3. ASSUME NEW d \in Disks, Detached(d), attached[d] # Foreign PROVE Kept
  BY <1>3, ConstantsOK DEF Detached, ForeignAt, TypeOK, DisksAccounted
<1>4. CASE Attach(p)
  BY <1>1, <1>4 DEF Attach
<1>5. CASE MountDecryptedVolume(p)
  <2>1. /\ op[p].point \in Points /\ op[p].disk \in Disks
        /\ attached[op[p].disk] # Foreign
    BY <1>5 DEF MountDecryptedVolume, At, Assigned, AssignedAt, DisksAccounted
  <2> QED
    BY <1>1, <1>5, <2>1, ConstantsOK DEF MountDecryptedVolume, ForeignAt, TypeOK
<1>6. CASE CleanVolume(p)
  <2>1. op[p].point \in Points /\ ~ ForeignAt(op[p].point)
    BY <1>6 DEF CleanVolume, At, Assigned, AssignedAt, PointsAccounted
  <2> QED
    BY <1>1, <1>2, <1>6, <2>1 DEF CleanVolume
<1>7. CASE CleanImage(p)
  <2>1. op[p].stage \in Stages /\ op[p].disk \in Disks \cup {None}
    BY <1>7 DEF CleanImage, At, TypeOK, Assigned, AssignedAt, Operation
  <2> QED
    BY <1>1, <1>3, <1>7, <2>1, ConstantsOK DEF CleanImage
<1>8. CASE UnmountVolume(p)
  <2>1. op[p].point \in Points
    BY <1>8 DEF UnmountVolume, At, Assigned, AssignedAt
  <2>2. MayUnmount(p) => ~ ForeignAt(op[p].point)
    BY <1>8, <2>1, SessionImageOurs, ConstantsOK
       DEF UnmountVolume, At, MayUnmount, ForeignAt, DisksAccounted
  <2> QED
    BY <1>1, <1>2, <1>8, <2>1, <2>2 DEF UnmountVolume
<1>9. CASE UnmountVolumeForce(p)
  <2>1. op[p].point \in Points /\ ~ ForeignAt(op[p].point)
    BY <1>9 DEF UnmountVolumeForce, At, Assigned, AssignedAt, PointsAccounted
  <2> QED
    BY <1>1, <1>2, <1>9, <2>1 DEF UnmountVolumeForce
<1>10. CASE DetachRawDisk(p)
  BY <1>1, <1>3, <1>10, SessionImageOurs DEF DetachRawDisk, At
<1>11. CASE DetachForce(p)
  <2>1. op[p].found \in Disks /\ attached[op[p].found] # Foreign
    BY <1>11 DEF DetachForce, At, Assigned, AssignedAt, DisksAccounted
  <2> QED
    BY <1>1, <1>3, <1>11, <2>1 DEF DetachForce
<1> QED
  BY <1>1, <1>4, <1>5, <1>6, <1>7, <1>8, <1>9, <1>10, <1>11, MachineSteps

-----------------------------------------------------------------------------
(* What a step does to the local variables *)

\* The labels PointsAccounted speaks of.
Watched == {"unmountVolumeForce", "startFuse", "waitFuse", "attach",
            "mountVolume", "save", "cleanVolume"}

LEMMA IdleRecord ==
  /\ NoOperation.pc = "idle" /\ NoOperation.found = None /\ NoOperation.disk = None
  BY DEF NoOperation

\* The other operations stand still; a disk newly remembered is not foreign;
\* a watched label is entered with no foreign volume at the mount point.
StepOf(p) ==
  /\ \A r \in Procs \ {p} : op'[r] = op[r]
  /\ op'[p].pc = "idle" => op'[p] = NoOperation
  /\ op'[p].found \in Disks =>
       op'[p].found = op[p].found \/ attached[op'[p].found] # Foreign
  /\ op'[p].disk \in Disks =>
       op'[p].disk = op[p].disk \/ attached[op'[p].disk] # Foreign
  /\ op'[p].pc \in Watched =>
       \/ op[p].pc \in Watched /\ op'[p].point = op[p].point
       \/ op'[p].point \in Points /\ ~ ForeignAt(op'[p].point)

LEMMA FinishLocal ==
  ASSUME TypeOK, NEW p \in Procs, Finish(p)
  PROVE  StepOf(p)
  BY FinishStep, IdleRecord, ConstantsOK DEF StepOf, Watched

LEMMA GotoLocal ==
  ASSUME TypeOK, NEW p \in Procs,
         NEW label \in MountLabels \cup UnmountLabels, Goto(p, label),
         label \in Watched => op[p].pc \in Watched
  PROVE  StepOf(p)
<1>1. label # "idle"
  BY DEF MountLabels, UnmountLabels
<1>2. /\ op'[p].pc = label /\ op'[p].point = op[p].point
      /\ op'[p].disk = op[p].disk /\ op'[p].found = op[p].found
  BY GotoStep
<1>3. \A r \in Procs \ {p} : op'[r] = op[r]
  BY GotoStep
<1> QED
  BY <1>1, <1>2, <1>3 DEF StepOf

LEMMA SetLocal ==
  ASSUME TypeOK, NEW p \in Procs, NEW o \in Operation,
         op' = [op EXCEPT ![p] = o], o.pc # "idle",
         o.found \in Disks => o.found = op[p].found \/ attached[o.found] # Foreign,
         o.disk \in Disks => o.disk = op[p].disk \/ attached[o.disk] # Foreign,
         o.pc \in Watched =>
           \/ op[p].pc \in Watched /\ o.point = op[p].point
           \/ o.point \in Points /\ ~ ForeignAt(o.point)
  PROVE  StepOf(p)
<1>1. op'[p] = o /\ \A r \in Procs \ {p} : op'[r] = op[r]
  BY DEF TypeOK
<1> QED
  BY <1>1 DEF StepOf

LEMMA OnSessionLocal ==
  ASSUME TypeOK, NEW p \in Procs, NEW label \in (MountLabels \cup UnmountLabels) \ Watched,
         op' = [op EXCEPT ![p] = OnSession(label)]
  PROVE  StepOf(p)
<1>1. /\ OnSession(label) \in Operation /\ OnSession(label).pc = label
      /\ OnSession(label).found = None /\ OnSession(label).disk = None
  BY OnSessionType
<1>2. label # "idle" /\ None \notin Disks
  BY ConstantsOK DEF MountLabels, UnmountLabels
<1> QED
  BY <1>1, <1>2, SetLocal

LEMMA ValidateLocal ==
  ASSUME TypeOK, NEW p \in Procs, Validate(p)
  PROVE  StepOf(p)
<1> USE DEF MountLabels, Watched
<1>1. CASE LoadForMount(p)
  <2>1. CASE op' = [op EXCEPT ![p] = OnSession("staleMounts")]
    BY <2>1, OnSessionLocal
  <2> QED
    BY <1>1, <2>1, GotoLocal DEF LoadForMount
<1>2. CASE CheckMounts(p)
  BY <1>2, GotoLocal, FinishLocal DEF CheckMounts
<1>3. CASE CheckImages(p)
  BY <1>3, GotoLocal, FinishLocal DEF CheckImages
<1>4. CASE ClearStale(p)
  BY <1>4, GotoLocal DEF ClearStale
<1>5. CASE DropStale(p)
  <2> DEFINE o == [NoOperation EXCEPT !.pc = "prepare"]
  <2>1. /\ o \in Operation /\ o.pc = "prepare" /\ o.found = None /\ o.disk = None
    BY NoOperationType DEF NoOperation, Operation
  <2>2. op' = [op EXCEPT ![p] = o]
    BY <1>5 DEF DropStale
  <2> HIDE DEF o
  <2> QED
    BY <2>1, <2>2, SetLocal, ConstantsOK
<1> QED
  BY <1>1, <1>2, <1>3, <1>4, <1>5 DEF Validate

LEMMA MountPipelineLocal ==
  ASSUME TypeOK, Assigned, PointsAccounted, NEW p \in Procs, MountPipeline(p)
  PROVE  StepOf(p)
<1>0. op[p] \in Operation
  BY DEF TypeOK
<1>1. CASE PrepareFuseMount(p)
  <2>1. ASSUME NEW s \in Stages, op' = [op EXCEPT ![p].stage = s, ![p].pc = "allocate"]
        PROVE  StepOf(p)
    <3> DEFINE o == [op[p] EXCEPT !.stage = s, !.pc = "allocate"]
    <3>1. /\ o \in Operation /\ o.pc = "allocate"
          /\ o.found = op[p].found /\ o.disk = op[p].disk
      BY <1>0 DEF Operation, MountLabels
    <3>2. op' = [op EXCEPT ![p] = o]
      BY <2>1 DEF TypeOK, Operation
    <3> HIDE DEF o
    <3> QED
      BY <3>1, <3>2, SetLocal DEF Watched
  <2> QED
    BY <1>1, <2>1, FinishLocal DEF PrepareFuseMount
<1>2. CASE AllocatePoint(p)
  <2>1. ASSUME NEW q \in Points, dir[q] = "absent",
               op' = [op EXCEPT ![p].point = q, ![p].pc = "startFuse"]
        PROVE  StepOf(p)
    <3> DEFINE o == [op[p] EXCEPT !.point = q, !.pc = "startFuse"]
    <3>1. /\ o \in Operation /\ o.pc = "startFuse" /\ o.point = q
          /\ o.found = op[p].found /\ o.disk = op[p].disk
      BY <1>0 DEF Operation, MountLabels
    <3>2. op' = [op EXCEPT ![p] = o]
      BY <2>1 DEF TypeOK, Operation
    <3>3. ~ ForeignAt(q)
      BY <2>1, ConstantsOK DEF PointsAccounted, ForeignAt
    <3> HIDE DEF o
    <3> QED
      BY <3>1, <3>2, <3>3, SetLocal
  <2> QED
    BY <1>2, <2>1, FinishLocal DEF AllocatePoint
<1>3. CASE StartFuse(p)
  BY <1>3, GotoLocal DEF StartFuse, At, MountLabels, Watched
<1>4. CASE WaitForFile(p)
  BY <1>4, GotoLocal DEF WaitForFile, At, MountLabels, Watched
<1>5. CASE Attach(p)
  <2>1. CASE Goto(p, "cleanVolume")
    BY <1>5, <2>1, GotoLocal DEF Attach, At, MountLabels, Watched
  <2>2. ASSUME NEW d \in Disks, attached[d] = None,
               op' = [op EXCEPT ![p].disk = d, ![p].pc = "mountVolume"]
        PROVE  StepOf(p)
    <3> DEFINE o == [op[p] EXCEPT !.disk = d, !.pc = "mountVolume"]
    <3>1. /\ o \in Operation /\ o.pc = "mountVolume" /\ o.point = op[p].point
          /\ o.found = op[p].found /\ o.disk = d
      BY <1>0 DEF Operation, MountLabels
    <3>2. op' = [op EXCEPT ![p] = o]
      BY <2>2 DEF TypeOK, Operation
    <3> HIDE DEF o
    <3> QED
      BY <1>5, <2>2, <3>1, <3>2, SetLocal, ConstantsOK DEF Attach, At, Watched
  <2> QED
    BY <1>5, <2>1, <2>2 DEF Attach
<1>6. CASE MountDecryptedVolume(p)
  BY <1>6, GotoLocal DEF MountDecryptedVolume, At, MountLabels, Watched
<1>7. CASE SaveSession(p)
  BY <1>7, GotoLocal, FinishLocal DEF SaveSession, At, MountLabels, Watched
<1> QED
  BY <1>1, <1>2, <1>3, <1>4, <1>5, <1>6, <1>7 DEF MountPipeline

LEMMA CleanupLocal ==
  ASSUME TypeOK, NEW p \in Procs, BestEffortCleanup(p)
  PROVE  StepOf(p)
<1> USE DEF MountLabels, Watched
<1>1. CASE CleanVolume(p)
  BY <1>1, GotoLocal DEF CleanVolume
<1>2. CASE CleanImage(p)
  BY <1>2, GotoLocal DEF CleanImage
<1>3. CASE CleanFuse(p)
  BY <1>3, GotoLocal DEF CleanFuse
<1>4. CASE CleanRecord(p)
  BY <1>4, FinishLocal DEF CleanRecord
<1> QED
  BY <1>1, <1>2, <1>3, <1>4 DEF BestEffortCleanup

LEMMA UnmountLocal ==
  ASSUME TypeOK, Assigned, DisksAccounted, NEW p \in Procs, Unmount(p)
  PROVE  StepOf(p)
<1> USE DEF UnmountLabels
<1>0. op[p] \in Operation
  BY DEF TypeOK
<1>1. CASE LoadForUnmount(p)
  BY <1>1, OnSessionLocal DEF LoadForUnmount, Watched
<1>2. CASE SnapshotImages(p)
  <2>1. PICK d \in Disks \cup {None, Unknown} :
          /\ d \in Disks => attached[d] = op[p].stage
          /\ op' = [op EXCEPT ![p].found = d, ![p].pc = "unmountVolume"]
    BY <1>2 DEF SnapshotImages
  <2> DEFINE o == [op[p] EXCEPT !.found = d, !.pc = "unmountVolume"]
  <2>2. /\ o \in Operation /\ o.pc = "unmountVolume"
        /\ o.found = d /\ o.disk = op[p].disk
    BY <1>0 DEF Operation
  <2>3. op' = [op EXCEPT ![p] = o]
    BY <2>1 DEF TypeOK, Operation
  <2>4. op[p].stage \in Stages
    BY <1>2 DEF SnapshotImages, At, Assigned, AssignedAt
  <2> HIDE DEF o
  <2> QED
    BY <2>1, <2>2, <2>3, <2>4, SetLocal, ConstantsOK DEF Watched
<1>3. CASE UnmountVolume(p)
  <2>1. CASE Finish(p) \/ Goto(p, "detach")
    BY <2>1, FinishLocal, GotoLocal DEF Watched
  <2>2. CASE MayUnmount(p) /\ Goto(p, "unmountVolumeForce")
    <3>1. op[p].point \in Points
      BY <1>3 DEF UnmountVolume, At, Assigned, AssignedAt
    <3>2. ~ ForeignAt(op[p].point)
      BY <1>3, <2>2, <3>1, SessionImageOurs, ConstantsOK
         DEF UnmountVolume, At, MayUnmount, ForeignAt, DisksAccounted
    <3>3. op' = [op EXCEPT ![p] = [op[p] EXCEPT !.pc = "unmountVolumeForce"]]
      BY <2>2 DEF Goto
    <3> DEFINE o == [op[p] EXCEPT !.pc = "unmountVolumeForce"]
    <3>4. /\ o \in Operation /\ o.pc = "unmountVolumeForce" /\ o.point = op[p].point
          /\ o.found = op[p].found /\ o.disk = op[p].disk
      BY <1>0 DEF Operation
    <3> HIDE DEF o
    <3> QED
      BY <3>1, <3>2, <3>3, <3>4, SetLocal DEF o
  <2> QED
    BY <1>3, <2>1, <2>2 DEF UnmountVolume
<1>4. CASE UnmountVolumeForce(p)
  BY <1>4, GotoLocal, FinishLocal DEF UnmountVolumeForce, Watched
<1>5. CASE DetachRawDisk(p) \/ DetachForce(p)
  <2>1. CASE Goto(p, "unmountFuse")
    BY <2>1, GotoLocal DEF Watched
  <2>2. CASE op' = [op EXCEPT ![p].errors = TRUE, ![p].pc = "unmountFuse"]
    <3> DEFINE o == [op[p] EXCEPT !.errors = TRUE, !.pc = "unmountFuse"]
    <3>1. /\ o \in Operation /\ o.pc = "unmountFuse"
          /\ o.found = op[p].found /\ o.disk = op[p].disk
      BY <1>0 DEF Operation
    <3>2. op' = [op EXCEPT ![p] = o]
      BY <2>2 DEF TypeOK, Operation
    <3> HIDE DEF o
    <3> QED
      BY <3>1, <3>2, SetLocal DEF Watched
  <2>3. ASSUME NEW d \in SessionImage(p), DetachRawDisk(p),
               op' = [op EXCEPT ![p].found = d, ![p].pc = "detachForce"]
        PROVE  StepOf(p)
    <3>1. d \in Disks /\ attached[d] # Foreign
      BY <2>3, SessionImageOurs DEF DetachRawDisk, At
    <3> DEFINE o == [op[p] EXCEPT !.found = d, !.pc = "detachForce"]
    <3>2. /\ o \in Operation /\ o.pc = "detachForce"
          /\ o.found = d /\ o.disk = op[p].disk
      BY <1>0, <3>1 DEF Operation
    <3>3. op' = [op EXCEPT ![p] = o]
      BY <2>3 DEF TypeOK, Operation
    <3> HIDE DEF o
    <3> QED
      BY <3>1, <3>2, <3>3, SetLocal DEF Watched
  <2> QED
    BY <1>5, <2>1, <2>2, <2>3 DEF DetachRawDisk, DetachForce
<1>6. CASE UnmountFuse(p)
  BY <1>6, GotoLocal, FinishLocal DEF UnmountFuse, Watched
<1>7. CASE RemoveDirs(p)
  BY <1>7, GotoLocal, FinishLocal DEF RemoveDirs, Watched
<1>8. CASE ClearRecord(p)
  BY <1>8, FinishLocal DEF ClearRecord
<1> QED
  BY <1>1, <1>2, <1>3, <1>4, <1>5, <1>6, <1>7, <1>8 DEF Unmount

\* A mount point without a directory has nothing mounted.
LEMMA MountedOnDirs ==
  ASSUME TypeOK, Assigned, PointsAccounted, NEW p \in Procs, Program(p),
         NEW q \in Points, dir'[q] = "absent"
  PROVE  volume'[q] = None
<1> USE DEF TypeOK, machine
<1>1. dir[q] = "absent" => volume[q] = None
  BY DEF PointsAccounted
<1>2. ASSUME volume'[q] \in {volume[q], None}, dir'[q] = dir[q] PROVE volume'[q] = None
  BY <1>1, <1>2
<1>3. ASSUME UNCHANGED <<volume, dir>> PROVE volume'[q] = None
  BY <1>2, <1>3
<1>4. \A d : Detached(d) => volume'[q] \in {volume[q], None}
  BY DEF Detached
<1>5. \A r : Unmounted(r) => volume'[q] \in {volume[q], None}
  BY DEF Unmounted
<1>6. CASE Validate(p)
  <2>1. CASE DropStale(p)
    BY <1>1, <2>1 DEF DropStale
  <2> QED
    BY <1>3, <1>6, <2>1
       DEF Validate, LoadForMount, CheckMounts, CheckImages, ClearStale
<1>7. CASE MountPipeline(p)
  <2>1. CASE AllocatePoint(p)
    BY <1>1, <2>1 DEF AllocatePoint
  <2>2. CASE MountDecryptedVolume(p)
    <3>1. op[p].point \in Points
      BY <2>2 DEF MountDecryptedVolume, At, Assigned, AssignedAt
    <3> QED
      BY <1>1, <2>2, <3>1 DEF MountDecryptedVolume
  <2> QED
    BY <1>3, <1>7, <2>1, <2>2
       DEF MountPipeline, PrepareFuseMount, StartFuse, WaitForFile, Attach, SaveSession
<1>8. CASE BestEffortCleanup(p)
  BY <1>2, <1>4, <1>5, <1>8
     DEF BestEffortCleanup, CleanVolume, CleanImage, CleanFuse, CleanRecord
<1>9. CASE Unmount(p)
  <2>1. CASE RemoveDirs(p)
    <3>1. op[p].point \in Points
      BY <2>1 DEF RemoveDirs, At, Assigned, AssignedAt
    <3> QED
      BY <1>1, <2>1, <3>1 DEF RemoveDirs
  <2> QED
    BY <1>2, <1>4, <1>5, <1>9, <2>1
       DEF Unmount, LoadForUnmount, SnapshotImages, UnmountVolume,
           UnmountVolumeForce, DetachRawDisk, DetachForce, UnmountFuse, ClearRecord
<1> QED
  BY <1>6, <1>7, <1>8, <1>9 DEF Program

-----------------------------------------------------------------------------
(* The invariant *)

Accounted == DisksAccounted /\ PointsAccounted

LEMMA ProgramAccounted ==
  ASSUME TypeOK, Assigned, Accounted, TypeOK', Assigned',
         NEW p \in Procs, Program(p)
  PROVE  Accounted'
<1> USE DEF Accounted
<1>1. StepOf(p)
  BY ValidateLocal, MountPipelineLocal, CleanupLocal, UnmountLocal DEF Program
<1>2. \A d \in Disks : attached[d] = Foreign <=> attached'[d] = Foreign
  BY DiskSteps
<1>3. \A q \in Points : ForeignAt(q)' => ForeignAt(q) /\ device'[q] = device[q]
  BY VolumeSteps
<1>4. ASSUME NEW r \in Procs
      PROVE  /\ op'[r].pc = "idle" => op'[r] = NoOperation
             /\ op'[r].found \in Disks => attached'[op'[r].found] # Foreign
             /\ op'[r].disk \in Disks => attached'[op'[r].disk] # Foreign
  <2>1. CASE r = p
    BY <1>1, <1>2, <2>1 DEF StepOf, DisksAccounted
  <2>2. CASE r # p
    <3>1. op'[r] = op[r]
      BY <1>1, <2>2 DEF StepOf
    <3> QED
      BY <1>2, <3>1 DEF DisksAccounted
  <2> QED
    BY <2>1, <2>2
<1>5. ASSUME NEW q \in Points, ForeignAt(q)' PROVE attached'[device'[q]] = Foreign
  BY <1>2, <1>3, <1>5 DEF DisksAccounted, ForeignAt
<1>6. ASSUME NEW r \in Procs, op'[r].pc \in Watched
      PROVE  ~ (volume'[op'[r].point] = Foreign /\ device'[op'[r].point] \in Disks)
  <2>1. op'[r].point \in Points
    BY <1>6 DEF Assigned, AssignedAt, Watched
  <2>2. ~ ForeignAt(op'[r].point)
    <3>1. CASE r = p
      BY <1>1, <1>6, <3>1 DEF StepOf, PointsAccounted, Watched
    <3>2. CASE r # p
      <4>1. op'[r] = op[r]
        BY <1>1, <3>2 DEF StepOf
      <4> QED
        BY <1>6, <4>1 DEF PointsAccounted, Watched
    <3> QED
      BY <3>1, <3>2
  <2> QED
    BY <1>3, <2>1, <2>2 DEF ForeignAt
<1>7. \A q \in Points : dir'[q] = "absent" => volume'[q] = None
  BY MountedOnDirs
<1> QED
  BY <1>4, <1>5, <1>6, <1>7 DEF DisksAccounted, PointsAccounted, ForeignAt, Watched

LEMMA OutsideAccounted ==
  ASSUME ~ Interference, TypeOK, Assigned, Accounted, Outside
  PROVE  Accounted'
<1> USE DEF Accounted, machine
<1>0. \A r \in Procs : op[r].pc = "idle" =>
        op[r].found = None /\ op[r].disk = None
  BY IdleRecord DEF DisksAccounted
<1>1. ASSUME NEW p \in Procs, Crash(p) PROVE Accounted'
  <2>1. /\ op'[p] = NoOperation
        /\ \A r \in Procs \ {p} : op'[r] = op[r]
        /\ UNCHANGED <<attached, volume, device, dir>>
    BY <1>1, FinishStep DEF Crash
  <2>2. \A r \in Procs : op'[r] = NoOperation \/ op'[r] = op[r]
    BY <2>1
  <2> QED
    BY <2>1, <2>2, IdleRecord, ConstantsOK
       DEF DisksAccounted, PointsAccounted, ForeignAt
<1>2. CASE Reboot
  <2>1. \A r \in Procs : op'[r] = NoOperation
    BY <1>2 DEF Reboot
  <2>2. \A q \in Points : volume'[q] = None
    BY <1>2 DEF Reboot
  <2> QED
    BY <2>1, <2>2, IdleRecord, ConstantsOK
       DEF DisksAccounted, PointsAccounted, ForeignAt
<1>3. ASSUME UNCHANGED <<attached, volume, device, dir, op>> PROVE Accounted'
  BY <1>3 DEF DisksAccounted, PointsAccounted, ForeignAt
<1>4. ASSUME Undisturbed, UNCHANGED op,
             \A q \in Points : dir'[q] = "absent" => volume'[q] = None,
             \A q \in Points : ForeignAt(q)' => attached'[device'[q]] = Foreign
      PROVE  Accounted'
  <2>1. \A r \in Procs : op[r].pc = "idle"
    BY <1>4 DEF Undisturbed, At
  <2> QED
    BY <1>0, <1>4, <2>1, ConstantsOK DEF DisksAccounted, PointsAccounted
<1>5. ASSUME NEW s \in Stages, FuseComesUp(s) \/ FuseGivesUp(s) \/ HandUnmountFuse(s)
      PROVE  Accounted'
  BY <1>3, <1>5 DEF FuseComesUp, FuseGivesUp, HandUnmountFuse
<1>6. ASSUME NEW d \in Disks, ForeignAttach(d) PROVE Accounted'
  BY <1>4, <1>6 DEF ForeignAttach, DisksAccounted, PointsAccounted, ForeignAt, TypeOK
<1>7. ASSUME NEW d \in Disks, ForeignDetach(d) PROVE Accounted'
  BY <1>4, <1>7, ConstantsOK
     DEF ForeignDetach, Detached, DisksAccounted, PointsAccounted, ForeignAt, TypeOK
<1>8. ASSUME NEW d \in Disks, HandDetach(d) PROVE Accounted'
  BY <1>4, <1>8, ConstantsOK
     DEF HandDetach, Detached, DisksAccounted, PointsAccounted, ForeignAt, TypeOK
<1>9. ASSUME NEW d \in Disks, NEW e \in Disks, Renumber(d, e) PROVE Accounted'
  BY <1>4, <1>9, ConstantsOK
     DEF Renumber, DisksAccounted, PointsAccounted, ForeignAt, TypeOK
<1>10. ASSUME NEW q \in Points, ForeignMount(q) PROVE Accounted'
  BY <1>4, <1>10, ConstantsOK
     DEF ForeignMount, DisksAccounted, PointsAccounted, ForeignAt, TypeOK
<1>11. ASSUME NEW q \in Points, Eject(q) PROVE Accounted'
  BY <1>4, <1>11, ConstantsOK
     DEF Eject, Unmounted, DisksAccounted, PointsAccounted, ForeignAt, TypeOK
<1>12. ASSUME NEW q \in Points, TouchDir(q) PROVE Accounted'
  BY <1>4, <1>12 DEF TouchDir, DisksAccounted, PointsAccounted, ForeignAt, TypeOK
<1>13. CASE RemoveUntrusted
  BY <1>3, <1>13 DEF RemoveUntrusted
<1> QED
  BY <1>1, <1>2, <1>5, <1>6, <1>7, <1>8, <1>9, <1>10, <1>11, <1>12, <1>13 DEF Outside

LEMMA InitAccounted == Init => Accounted
<1> SUFFICES ASSUME Init PROVE Accounted
  OBVIOUS
<1>1. \A r \in Procs : op[r] = NoOperation
  BY DEF Init
<1>2. \A q \in Points : volume[q] # Foreign
  BY ConstantsOK DEF Init
<1>3. \A q \in Points : dir[q] = "absent" => volume[q] = None
  BY DEF Init
<1> QED
  BY <1>1, <1>2, <1>3, IdleRecord, ConstantsOK
     DEF Accounted, DisksAccounted, PointsAccounted, ForeignAt

\* Disks and mount points stay accounted for.
THEOREM AlwaysAccounted ==
  ASSUME ~ Interference
  PROVE  Spec => []Accounted
<1>1. TypeOK /\ Assigned /\ TypeOK' /\ Assigned' /\ Accounted /\ [Next]_vars => Accounted'
  <2> SUFFICES ASSUME TypeOK, Assigned, TypeOK', Assigned', Accounted, [Next]_vars
               PROVE  Accounted'
    OBVIOUS
  <2>1. CASE UNCHANGED vars
    BY <2>1 DEF vars, Accounted, DisksAccounted, PointsAccounted, ForeignAt
  <2> QED
    BY <2>1, ProgramAccounted, OutsideAccounted DEF Next
<1> QED
  BY <1>1, InitAccounted, TypeCorrect, PTL DEF Spec

\* A disk number that a running operation holds is never another disk's, and
\* every /dev volume of another disk is on another's disk.
THEOREM DisksAlwaysAccounted ==
  ASSUME ~ Interference
  PROVE  Spec => []DisksAccounted
<1>1. Accounted => DisksAccounted
  BY DEF Accounted
<1> QED
  BY <1>1, AlwaysAccounted, PTL

\* A mount point about to be unmounted by force, or still in the hands of the
\* mount that made it, holds no volume of another disk.
THEOREM PointsAlwaysAccounted ==
  ASSUME ~ Interference
  PROVE  Spec => []PointsAccounted
<1>1. Accounted => PointsAccounted
  BY DEF Accounted
<1> QED
  BY <1>1, AlwaysAccounted, PTL

-----------------------------------------------------------------------------
(* The two promises *)

\* With no interference during operations, no step of any process detaches
\* another disk.
THEOREM NeverDetachesForeign ==
  ASSUME ~ Interference
  PROVE  Spec => ForeignDisksKept
<1>1. TypeOK /\ Assigned /\ Accounted /\ [Next]_vars =>
        [ProgramStep => \A d \in Disks :
           attached[d] = Foreign => attached'[d] = Foreign]_vars
  BY DiskSteps DEF ProgramStep, Accounted
<1> QED
  BY <1>1, TypeCorrect, AlwaysAccounted, PTL DEF Spec, ForeignDisksKept

\* Nor does one unmount a volume of another disk.
THEOREM NeverUnmountsForeign ==
  ASSUME ~ Interference
  PROVE  Spec => ForeignVolumesKept
<1>1. TypeOK /\ Assigned /\ Accounted /\ [Next]_vars =>
        [ProgramStep => \A q \in Points :
           volume[q] = Foreign /\ device[q] \in Disks => volume'[q] = Foreign]_vars
  BY VolumeSteps DEF ProgramStep, Accounted, ForeignAt
<1> QED
  BY <1>1, TypeCorrect, AlwaysAccounted, PTL DEF Spec, ForeignVolumesKept

-----------------------------------------------------------------------------
(* One operation at a time *)

\* A step of one process leaves the operations of the others alone.
LEMMA OwnOperation ==
  ASSUME NEW p \in Procs, Program(p), NEW r \in Procs, r # p
  PROVE  op'[r] = op[r]
<1> USE DEF Goto, Finish
<1>1. \E o : op' = [op EXCEPT ![p] = o]
  <2>1. CASE Validate(p)
    BY <2>1 DEF Validate, LoadForMount, CheckMounts, CheckImages, ClearStale, DropStale
  <2>2. CASE MountPipeline(p)
    BY <2>2 DEF MountPipeline, PrepareFuseMount, AllocatePoint, StartFuse, WaitForFile, Attach,
                MountDecryptedVolume, SaveSession
  <2>3. CASE BestEffortCleanup(p)
    BY <2>3 DEF BestEffortCleanup, CleanVolume, CleanImage, CleanFuse, CleanRecord
  <2>4. CASE Unmount(p)
    BY <2>4 DEF Unmount, LoadForUnmount, SnapshotImages, UnmountVolume, UnmountVolumeForce,
                DetachRawDisk, DetachForce, UnmountFuse, RemoveDirs, ClearRecord
  <2> QED
    BY <2>1, <2>2, <2>3, <2>4 DEF Program
<1> QED
  BY <1>1

\* The only step of an idle process begins an operation.
LEMMA IdleBegins ==
  ASSUME TypeOK, NEW p \in Procs, Program(p), op[p].pc = "idle"
  PROVE  op'[p].pc # "idle"
<1>1. LoadForMount(p) \/ LoadForUnmount(p)
  BY DEF Program, Validate, CheckMounts, CheckImages, ClearStale, DropStale, MountPipeline,
         PrepareFuseMount, AllocatePoint, StartFuse, WaitForFile, Attach, MountDecryptedVolume,
         SaveSession, BestEffortCleanup, CleanVolume, CleanImage, CleanFuse, CleanRecord, Unmount,
         SnapshotImages, UnmountVolume, UnmountVolumeForce, DetachRawDisk, DetachForce, UnmountFuse,
         RemoveDirs, ClearRecord, At
<1>2. CASE LoadForMount(p)
  <2>1. CASE Goto(p, "prepare")
    BY <2>1 DEF Goto, TypeOK, Operation
  <2>2. CASE op' = [op EXCEPT ![p] = OnSession("staleMounts")]
    BY <2>2 DEF OnSession, NoOperation, TypeOK
  <2> QED
    BY <1>2, <2>1, <2>2 DEF LoadForMount
<1>3. CASE LoadForUnmount(p)
  BY <1>3 DEF LoadForUnmount, OnSession, NoOperation, TypeOK
<1> QED
  BY <1>1, <1>2, <1>3

\* While one process runs an operation, all others are idle, and stay so.
LEMMA OthersWait ==
  ASSUME TypeOK, OperationsSerialized, OperationsSerialized', NEW p \in Procs,
         Program(p) \/ Crash(p), NEW r \in Procs, r # p
  PROVE  op'[r].pc = "idle"
<1>1. op'[r] = op[r]
  <2>1. CASE Crash(p)
    BY <2>1 DEF Crash, Finish
  <2> QED
    BY <2>1, OwnOperation
<1>2. CASE Program(p) /\ op[p].pc = "idle"
  BY <1>1, <1>2, IdleBegins DEF OperationsSerialized, At
<1>3. CASE op[p].pc # "idle"
  BY <1>1, <1>3 DEF OperationsSerialized, At
<1> QED
  BY <1>2, <1>3 DEF Crash, At

=============================================================================
