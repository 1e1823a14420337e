-------------------------- MODULE RunnerInvariant --------------------------
(***************************************************************************)
(* The inductive invariants behind the theorems of RunnerProofs: what the  *)
(* local variables of a running operation are known to say, at each point  *)
(* of the code, about the machine and the session.                         *)
(***************************************************************************)
EXTENDS Runner

StaleLabels == {"staleMounts", "staleImages", "clearStale", "dropStale"}

-----------------------------------------------------------------------------
(* Any number of processes *)

\* Which local variables have been assigned where they are used.
AssignedAt(o) ==
  /\ o.pc \notin {"idle", "prepare"} => o.stage \in Stages
  /\ o.pc \notin {"idle", "prepare", "allocate"} => o.point \in Points
  /\ o.pc \in {"mountVolume", "save"} => o.disk \in Disks
  /\ o.pc = "detachForce" => o.found \in Disks

Assigned ==
  /\ session.kind = "valid" =>
       session.stage \in Stages /\ session.point \in Points
  /\ \A p \in Procs : AssignedAt(op[p])

\* The mount table shows another disk's volume at q.
ForeignAt(q) == volume[q] = Foreign /\ device[q] \in Disks

\* While nobody interferes, the disk an operation goes by never turns into
\* someone else's, and a /dev mount of another volume is on another's disk.
DisksAccounted ==
  /\ \A p \in Procs :
       /\ op[p].pc = "idle" => op[p] = NoOperation
       /\ op[p].found \in Disks => attached[op[p].found] # Foreign
       /\ op[p].disk \in Disks => attached[op[p].disk] # Foreign
  /\ \A q \in Points : ForeignAt(q) => attached[device[q]] = Foreign

\* Volumes are mounted on directories.  A forced unmount follows a look at the
\* mount table: no /dev volume of another disk is there.  A cleanup's mount
\* point was its own to make.
PointsAccounted ==
  /\ \A q \in Points : dir[q] = "absent" => volume[q] = None
  /\ \A p \in Procs :
       op[p].pc \in {"unmountVolumeForce", "startFuse", "waitFuse", "attach",
                     "mountVolume", "save", "cleanVolume"} =>
         ~ ForeignAt(op[p].point)

-----------------------------------------------------------------------------
(* One operation at a time *)

\* What follows is true of any number of processes of which only one is ever
\* in the middle of an operation (OperationsSerialized): two of them can undo
\* for each other what they have checked.

\* One disk per image; a dislocker-fuse still unlocking has mounted nothing.
ImagesUnique ==
  /\ \A d, e \in Disks : attached[d] \in Stages /\ attached[d] = attached[e] => d = e
  /\ fuse \cap unlocking = {}

\* A recorded stack is mounted at the recorded point only, and is unlocked.
RecordAccurate ==
  session.kind = "valid" =>
    /\ \A q \in Points : volume[q] = session.stage => q = session.point
    /\ session.stage \notin unlocking

\* A /dev mount shows what its disk carries.
DevicesAccurate ==
  /\ \A q \in Points : device[q] \in Disks => volume[q] = attached[device[q]]
  /\ \A q \in Points : volume[q] = None => device[q] = None

\* A mount builds a stage nobody has on record, one layer after the other.
MountBuilds(p) ==
  LET s == op[p].stage IN
  op[p].pc \in MountLabels \ (StaleLabels \cup {"prepare"}) =>
    /\ session.kind = "valid" => session.stage # s
    /\ op[p].pc \in {"allocate", "startFuse"} => s \notin fuse \cup unlocking
    /\ op[p].pc \in {"allocate", "startFuse", "waitFuse", "attach"} => ~ HasImage(s)
    /\ op[p].pc \in {"allocate", "startFuse", "waitFuse", "attach", "mountVolume"} =>
         ~ HasVolume(s)
    /\ op[p].pc \in {"attach", "mountVolume", "save"} => s \in fuse
    /\ op[p].pc \in {"mountVolume", "save"} => attached[op[p].disk] = s
    /\ op[p].pc = "save" => /\ volume[op[p].point] = s
                            /\ \A q \in Points : volume[q] = s => q = op[p].point

\* Once validation is over, a record that is left has no layer left.
MountOverDeadRecord(p) ==
  op[p].pc \in MountLabels \ StaleLabels /\ session.kind = "valid" =>
    ~ Live(session.stage)

\* What validation has established about the record it read.
StaleChecked(p) ==
  /\ op[p].pc \in {"staleMounts", "staleImages", "clearStale"} =>
       /\ session.kind = "valid"
       /\ session.stage = op[p].stage /\ session.point = op[p].point
  /\ op[p].pc = "dropStale" =>
       (session.kind = "valid" => session.stage = op[p].stage)
  /\ op[p].pc = "staleImages" =>
       op[p].stage \notin fuse /\ ~ HasVolume(op[p].stage)
  /\ op[p].pc \in {"clearStale", "dropStale"} => ~ Live(op[p].stage)
  /\ op[p].pc = "dropStale" => op[p].stage \notin unlocking

\* What an unmount has taken down so far, and which disk it goes by.
UnmountProgress(p) ==
  LET s == op[p].stage IN
  /\ op[p].pc \in UnmountLabels =>
       /\ session.kind = "valid"
       /\ session.stage = s /\ session.point = op[p].point
  /\ op[p].pc \in {"unmountVolume", "unmountVolumeForce", "detach"} =>
       /\ op[p].found \in Disks => attached[op[p].found] = s
       /\ op[p].found = None => ~ HasImage(s)
  /\ op[p].pc = "detachForce" => attached[op[p].found] \in {s, None}
  /\ op[p].pc \in {"detach", "detachForce", "unmountFuse"} => ~ HasVolume(s)
  /\ op[p].pc = "unmountFuse" /\ ~ op[p].errors => ~ HasImage(s)
  /\ op[p].pc \in {"removeDirs", "clearRecord"} => ~ Live(s)

RecordInvariant ==
  /\ ImagesUnique
  /\ RecordAccurate
  /\ DevicesAccurate
  /\ \A p \in Procs : /\ MountBuilds(p)
                      /\ MountOverDeadRecord(p)
                      /\ StaleChecked(p)
                      /\ UnmountProgress(p)

=============================================================================
