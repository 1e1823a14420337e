------------------------------- MODULE Runner -------------------------------
(***************************************************************************)
(* The mount and unmount pipelines of dislocker-ui (runner.py,             *)
(* unmount_steps.py, and the session calls they make), run over the        *)
(* machine they drive.                                                     *)
(*                                                                         *)
(* A mounted BitLocker volume is a stack of three layers: the FUSE mount   *)
(* that dislocker-fuse puts on a fresh staging directory, the disk image   *)
(* hdiutil attaches from the file inside it, and the file system mounted   *)
(* from that image under /Volumes.  One JSON record, the session, is all   *)
(* that a later process knows about a stack.                               *)
(*                                                                         *)
(* What is abstracted.  A staging directory (a stage) names its stack, as  *)
(* the image path is derived from it; an image list is reduced to what the *)
(* code asks of it, the disk carrying one stage's image; secrets, volume   *)
(* names and argv are dropped; a command is one step that succeeds, fails, *)
(* or fails after taking effect (a timeout).  Reading a listing and the    *)
(* command it justifies are one step when nothing runs between them.       *)
(*                                                                         *)
(* Two failures of the program itself break what it promises of the        *)
(* record, so that a constant says of each whether it may occur: a load of *)
(* the record that fails, which load_session answers like the absence of   *)
(* one, and a log call that raises once the record is written.             *)
(***************************************************************************)
EXTENDS Naturals, FiniteSets

CONSTANTS
  Procs,        \* processes running the pipelines as root
  Disks,        \* /dev/diskN numbers
  Stages,       \* names mkdtemp can draw for a staging directory
  NPoints,      \* candidates of _allocate_volume_path for one label (48)
  None,         \* no disk, no stage, nothing mounted
  Foreign,      \* an image or a file system that is not the program's
  NonDev,       \* device column of a mount that has no /dev/disk node
  Unknown,      \* an image list that could not be read
  Interference, \* may others change disks while an operation runs?
  LogMayFail,   \* may the log call after save_session raise?
  LoadMayFail   \* may load_session fail to open or read a record that is there?

Points == 1 .. NPoints

ASSUME ConstantsOK ==
  /\ NPoints \in Nat \ {0}
  /\ None \notin Stages \cup Disks \cup {Foreign, NonDev, Unknown}
  /\ Foreign \notin Stages
  /\ NonDev \notin Disks
  /\ Unknown \notin Disks
  /\ Interference \in BOOLEAN
  /\ LogMayFail \in BOOLEAN
  /\ LoadMayFail \in BOOLEAN

VARIABLES
  attached,   \* disk number -> the stage whose image has it, Foreign or None
  volume,     \* mount point -> whose file system is mounted there
  device,     \* mount point -> device column of the mount table
  fuse,       \* stages with a FUSE mount in the mount table
  unlocking,  \* stages whose dislocker-fuse runs but has mounted nothing yet
  stageDir,   \* stages whose directory exists
  dir,        \* mount point -> its directory under /Volumes
  session,    \* the file at the session path
  op          \* process -> the operation it runs, with its local variables

machine == <<attached, volume, device, fuse, unlocking>>
vars == <<attached, volume, device, fuse, unlocking, stageDir, dir, session, op>>

-----------------------------------------------------------------------------
(* Types *)

MountLabels == {"staleMounts", "staleImages", "clearStale", "dropStale",
  "prepare", "allocate", "startFuse", "waitFuse", "attach", "mountVolume",
  "save", "cleanVolume", "cleanImage", "cleanFuse", "cleanRecord"}
UnmountLabels == {"snapshot", "unmountVolume", "unmountVolumeForce", "detach",
  "detachForce", "unmountFuse", "removeDirs", "clearRecord"}

\* valid: load_session returns it.  distrusted: not owned by root.
\* legacy: root's, but of a schema load_session answers None for.
SessionFile == [kind : {"none", "valid", "distrusted", "legacy"},
                stage : Stages \cup {None}, point : Points \cup {0}]

Operation == [pc : {"idle"} \cup MountLabels \cup UnmountLabels,
              stage : Stages \cup {None}, point : Points \cup {0},
              disk : Disks \cup {None}, found : Disks \cup {None, Unknown},
              errors : BOOLEAN]

TypeOK ==
  /\ attached \in [Disks -> Stages \cup {Foreign, None}]
  /\ volume \in [Points -> Stages \cup {Foreign, None}]
  /\ device \in [Points -> Disks \cup {NonDev, None}]
  /\ fuse \in SUBSET Stages
  /\ unlocking \in SUBSET Stages
  /\ stageDir \in SUBSET Stages
  /\ dir \in [Points -> {"absent", "empty", "full"}]
  /\ session \in SessionFile
  /\ op \in [Procs -> Operation]

-----------------------------------------------------------------------------
(* Shared vocabulary *)

NoSession == [kind |-> "none", stage |-> None, point |-> 0]
NoOperation == [pc |-> "idle", stage |-> None, point |-> 0, disk |-> None,
                found |-> None, errors |-> FALSE]

HasImage(s) == \E d \in Disks : attached[d] = s
HasVolume(s) == \E q \in Points : volume[q] = s
Live(s) == s \in fuse \/ HasImage(s) \/ HasVolume(s)

At(p, label) == op[p].pc = label
Goto(p, label) == op' = [op EXCEPT ![p].pc = label]
Finish(p) == op' = [op EXCEPT ![p] = NoOperation]

\* An operation that has just loaded the session.
OnSession(label) == [NoOperation EXCEPT !.pc = label, !.stage = session.stage,
                                        !.point = session.point]

\* A name mkdtemp can return: no directory has it, and (the names are long
\* and random) nothing still speaks of an earlier directory of that name.
Fresh(s) ==
  /\ s \notin stageDir \cup unlocking
  /\ ~ Live(s)
  /\ session.stage # s
  /\ \A p \in Procs : op[p].stage # s

Unmounted(q) ==
  /\ volume' = [volume EXCEPT ![q] = None]
  /\ device' = [device EXCEPT ![q] = None]

\* Detaching a disk takes its /dev mounts along; a file system ntfs-3g serves
\* through FUSE stays in the mount table.
Detached(d) ==
  /\ attached[d] # None
  /\ attached' = [attached EXCEPT ![d] = None]
  /\ volume' = [q \in Points |-> IF device[q] = d THEN None ELSE volume[q]]
  /\ device' = [q \in Points |-> IF device[q] = d THEN None ELSE device[q]]

\* clear_session swallows OSError: the file may survive it.
Cleared == session' \in {NoSession, session}

\* Faulty: any disk of the list, whatever image it carries.
SessionImageAny(p) == {d \in Disks : attached[d] # None}

\* Where _find_session_image sees the image: in the list read earlier, or,
\* when that one could not be read, in one read now.
SessionImage(p) ==
  IF op[p].found = Unknown THEN {d \in Disks : attached[d] = op[p].stage}
                           ELSE {op[p].found} \ {None}

-----------------------------------------------------------------------------
(* Mount: _validate_mount_request *)

\* A distrusted file refuses the mount.  A legacy one loads as None, and so does
\* one that any OSError keeps from being opened or read; being root's, neither
\* is an owner mismatch, and the mount goes on as if there were none.
LoadForMount(p) ==
  /\ At(p, "idle")
  /\ \/ session.kind \in {"none", "legacy"} /\ Goto(p, "prepare")
     \/ session.kind = "valid" /\ LoadMayFail /\ Goto(p, "prepare")
     \/ /\ session.kind = "valid"
        /\ op' = [op EXCEPT ![p] = OnSession("staleMounts")]
  /\ UNCHANGED <<machine, stageDir, dir, session>>

\* Faulty: a failed read of the mount table taken for "not mounted".
CheckMountsBlind(p) ==
  /\ At(p, "staleMounts")
  /\ Goto(p, "staleImages")
  /\ UNCHANGED <<machine, stageDir, dir, session>>

\* Faulty: the directory, not the mount table, decides what is mounted.
CheckMountsByStat(p) ==
  /\ At(p, "staleMounts")
  /\ \/ /\ dir[op[p].point] = "absent"
        /\ op[p].stage \notin fuse
        /\ Goto(p, "staleImages")
     \/ Finish(p)
  /\ UNCHANGED <<machine, stageDir, dir, session>>

\* session_targets_gone: no mount may be left, then no image.  An unreadable
\* listing, like a live target, means "already active".
CheckMounts(p) ==
  /\ At(p, "staleMounts")
  /\ \/ /\ volume[op[p].point] = None
        /\ op[p].stage \notin fuse
        /\ Goto(p, "staleImages")
     \/ Finish(p)
  /\ UNCHANGED <<machine, stageDir, dir, session>>

CheckImages(p) ==
  /\ At(p, "staleImages")
  /\ \/ ~ HasImage(op[p].stage) /\ Goto(p, "clearStale")
     \/ Finish(p)
  /\ UNCHANGED <<machine, stageDir, dir, session>>

ClearStale(p) ==
  /\ At(p, "clearStale")
  /\ Cleared
  /\ Goto(p, "dropStale")
  /\ UNCHANGED <<machine, stageDir, dir>>

\* Both removals are best effort here.
DropStale(p) ==
  LET q == op[p].point IN
  /\ At(p, "dropStale")
  /\ \/ UNCHANGED dir
     \/ /\ dir[q] = "empty" /\ volume[q] = None
        /\ dir' = [dir EXCEPT ![q] = "absent"]
  /\ \/ UNCHANGED stageDir
     \/ op[p].stage \notin fuse /\ stageDir' = stageDir \ {op[p].stage}
  /\ op' = [op EXCEPT ![p] = [NoOperation EXCEPT !.pc = "prepare"]]
  /\ UNCHANGED <<machine, session>>

-----------------------------------------------------------------------------
(* Mount: the pipeline of _mount_in_process *)

PrepareFuseMount(p) ==
  /\ At(p, "prepare")
  /\ \/ \E s \in Stages :
          /\ Fresh(s)
          /\ stageDir' = stageDir \cup {s}
          /\ op' = [op EXCEPT ![p].stage = s, ![p].pc = "allocate"]
     \/ Finish(p) /\ UNCHANGED stageDir
  /\ UNCHANGED <<machine, dir, session>>

\* Faulty: the suffix is one ahead of the directory made.
AllocatePointOffByOne(p) ==
  /\ At(p, "allocate")
  /\ \E q \in Points :
       /\ dir[q] = "absent"
       /\ dir' = [dir EXCEPT ![q] = "empty"]
       /\ op' = [op EXCEPT ![p].point = q + 1, ![p].pc = "startFuse"]
  /\ UNCHANGED <<machine, stageDir, session>>

\* The first candidate mkdir can make.  Running out raises outside the try,
\* so nothing undoes the staging directory.
AllocatePoint(p) ==
  /\ At(p, "allocate")
  /\ \/ \E q \in Points :
          /\ dir[q] = "absent"
          /\ \A r \in Points : r < q => dir[r] # "absent"
          /\ dir' = [dir EXCEPT ![q] = "empty"]
          /\ op' = [op EXCEPT ![p].point = q, ![p].pc = "startFuse"]
     \/ /\ \A q \in Points : dir[q] # "absent"
        /\ Finish(p)
        /\ UNCHANGED dir
  /\ UNCHANGED <<machine, stageDir, session>>

StartFuse(p) ==
  /\ At(p, "startFuse")
  /\ \/ unlocking' = unlocking \cup {op[p].stage} /\ Goto(p, "waitFuse")
     \/ UNCHANGED unlocking /\ Goto(p, "cleanVolume")
  /\ UNCHANGED <<attached, volume, device, fuse, stageDir, dir, session>>

\* dislocker-fuse forks into the background once it has mounted.
FuseComesUp(s) ==
  /\ s \in unlocking /\ s \in stageDir
  /\ fuse' = fuse \cup {s}
  /\ unlocking' = unlocking \ {s}
  /\ UNCHANGED <<attached, volume, device, stageDir, dir, session, op>>

FuseGivesUp(s) ==
  /\ s \in unlocking
  /\ unlocking' = unlocking \ {s}
  /\ UNCHANGED <<attached, volume, device, fuse, stageDir, dir, session, op>>

\* One turn of _wait_for_file that ends the loop: the file is there, the
\* process has exited (which a successful fork also looks like, between the
\* look for the file and the poll), or the 45 seconds are over.
WaitForFile(p) ==
  /\ At(p, "waitFuse")
  /\ \/ op[p].stage \in fuse /\ Goto(p, "attach")
     \/ Goto(p, "cleanVolume")
  /\ UNCHANGED <<machine, stageDir, dir, session>>

\* hdiutil may also attach and then print nothing _hdiutil_attach can parse.
Attach(p) ==
  /\ At(p, "attach")
  /\ \/ /\ op[p].stage \in fuse
        /\ \E d \in Disks :
             /\ attached[d] = None
             /\ attached' = [attached EXCEPT ![d] = op[p].stage]
             /\ \/ op' = [op EXCEPT ![p].disk = d, ![p].pc = "mountVolume"]
                \/ Goto(p, "cleanVolume")
     \/ UNCHANGED attached /\ Goto(p, "cleanVolume")
  /\ UNCHANGED <<volume, device, fuse, unlocking, stageDir, dir, session>>

\* FAT and ExFAT show their /dev node in the mount table, ntfs-3g may not.
\* The helpers make the directory again should it be gone, and fail before,
\* or (a timeout) after, the file system came up.
MountDecryptedVolume(p) ==
  LET q == op[p].point  d == op[p].disk
      made == [dir EXCEPT ![q] = IF dir[q] = "absent" THEN "empty" ELSE dir[q]] IN
  /\ At(p, "mountVolume")
  /\ \/ /\ attached[d] # None /\ volume[q] = None
        /\ dir' = made
        /\ volume' = [volume EXCEPT ![q] = attached[d]]
        /\ \E node \in {d, NonDev} : device' = [device EXCEPT ![q] = node]
        /\ Goto(p, "save") \/ Goto(p, "cleanVolume")
     \/ dir' \in {dir, made} /\ UNCHANGED <<volume, device>> /\ Goto(p, "cleanVolume")
  /\ UNCHANGED <<attached, fuse, unlocking, stageDir, session>>

\* _assert_mount_owner, then save_session, whose os.replace is atomic.
SaveSession(p) ==
  /\ At(p, "save")
  /\ \/ UNCHANGED session /\ Goto(p, "cleanVolume")
     \/ /\ session' = [kind |-> "valid", stage |-> op[p].stage,
                       point |-> op[p].point]
        /\ \/ Finish(p)
           \/ LogMayFail /\ Goto(p, "cleanVolume")
  /\ UNCHANGED <<machine, stageDir, dir>>

-----------------------------------------------------------------------------
(* Mount: _best_effort_cleanup after a failure *)

\* umount of the mount point, whatever is there; the result is ignored.
CleanVolume(p) ==
  /\ At(p, "cleanVolume")
  /\ \/ dir[op[p].point] # "absent" /\ Unmounted(op[p].point)
     \/ UNCHANGED <<volume, device>>
  /\ Goto(p, "cleanImage")
  /\ UNCHANGED <<attached, fuse, unlocking, stageDir, dir, session>>

\* detach -force, only of a disk the list just read shows as this image.
CleanImage(p) ==
  LET d == op[p].disk IN
  /\ At(p, "cleanImage")
  /\ \/ d # None /\ attached[d] = op[p].stage /\ Detached(d)
     \/ UNCHANGED <<attached, volume, device>>
  /\ Goto(p, "cleanFuse")
  /\ UNCHANGED <<fuse, unlocking, stageDir, dir, session>>

\* umount fails while an image is attached from inside; rmtree ignores errors.
CleanFuse(p) ==
  LET s == op[p].stage IN
  /\ At(p, "cleanFuse")
  /\ \/ s \in stageDir /\ ~ HasImage(s) /\ fuse' = fuse \ {s}
     \/ UNCHANGED fuse
  /\ \/ s \notin fuse' /\ stageDir' = stageDir \ {s}
     \/ UNCHANGED stageDir
  /\ Goto(p, "cleanRecord")
  /\ UNCHANGED <<attached, volume, device, unlocking, dir, session>>

\* clear_session, then terminate() of a dislocker-fuse still unlocking.
CleanRecord(p) ==
  /\ At(p, "cleanRecord")
  /\ Cleared
  /\ unlocking' = unlocking \ {op[p].stage}
  /\ Finish(p)
  /\ UNCHANGED <<attached, volume, device, fuse, stageDir, dir>>

-----------------------------------------------------------------------------
(* Unmount: unmount_volume and the steps of unmount_steps.py *)

\* A load that fails, or finds nothing valid, refuses and changes nothing.
LoadForUnmount(p) ==
  /\ At(p, "idle")
  /\ session.kind = "valid"
  /\ op' = [op EXCEPT ![p] = OnSession("snapshot")]
  /\ UNCHANGED <<machine, stageDir, dir, session>>

\* The image list every later step of this unmount goes by.
SnapshotImages(p) ==
  /\ At(p, "snapshot")
  /\ \E d \in Disks \cup {None, Unknown} :
       /\ d \in Disks => attached[d] = op[p].stage
       /\ d = None => ~ HasImage(op[p].stage)
       /\ op' = [op EXCEPT ![p].found = d, ![p].pc = "unmountVolume"]
  /\ UNCHANGED <<machine, stageDir, dir, session>>

\* Faulty: the mount point's name is proof enough.
MayUnmountByName(p) == volume[op[p].point] # None

\* A /dev mount must sit on our image; a mount with no /dev node is not
\* checked.
MayUnmount(p) ==
  LET q == op[p].point IN
  /\ volume[q] # None
  /\ device[q] = NonDev \/ device[q] \in SessionImage(p)

\* _unmount_ntfs up to the umount command.  The bare Finish is the refusal:
\* an unreadable mount table or image list, or a device that is not ours.
UnmountVolume(p) ==
  LET q == op[p].point IN
  /\ At(p, "unmountVolume")
  /\ \/ volume[q] = None /\ Goto(p, "detach") /\ UNCHANGED <<volume, device>>
     \/ /\ MayUnmount(p)
        /\ \/ Unmounted(q) /\ (Goto(p, "detach") \/ Goto(p, "unmountVolumeForce"))
           \/ UNCHANGED <<volume, device>> /\ Goto(p, "unmountVolumeForce")
     \/ Finish(p) /\ UNCHANGED <<volume, device>>
  /\ UNCHANGED <<attached, fuse, unlocking, stageDir, dir, session>>

\* Faulty: carries on with the layers below when the volume stays mounted.
UnmountVolumeForceGoesOn(p) ==
  /\ At(p, "unmountVolumeForce")
  /\ Goto(p, "detach")
  /\ UNCHANGED <<machine, stageDir, dir, session>>

\* diskutil unmount force, on the mount point as it is by now.
UnmountVolumeForce(p) ==
  LET q == op[p].point IN
  /\ At(p, "unmountVolumeForce")
  /\ \/ volume[q] # None /\ Unmounted(q) /\ (Goto(p, "detach") \/ Finish(p))
     \/ UNCHANGED <<volume, device>> /\ Finish(p)
  /\ UNCHANGED <<attached, fuse, unlocking, stageDir, dir, session>>

DetachRawDisk(p) ==
  /\ At(p, "detach")
  /\ \/ /\ SessionImage(p) = {}
        /\ Goto(p, "unmountFuse")
        /\ UNCHANGED <<attached, volume, device>>
     \/ /\ op[p].found = Unknown
        /\ op' = [op EXCEPT ![p].errors = TRUE, ![p].pc = "unmountFuse"]
        /\ UNCHANGED <<attached, volume, device>>
     \/ \E d \in SessionImage(p) :
          \/ Detached(d) /\ Goto(p, "unmountFuse")
          \/ /\ Detached(d) \/ UNCHANGED <<attached, volume, device>>
             /\ op' = [op EXCEPT ![p].found = d, ![p].pc = "detachForce"]
  /\ UNCHANGED <<fuse, unlocking, stageDir, dir, session>>

DetachForce(p) ==
  /\ At(p, "detachForce")
  /\ \/ Detached(op[p].found) /\ Goto(p, "unmountFuse")
     \/ /\ Detached(op[p].found) \/ UNCHANGED <<attached, volume, device>>
        /\ op' = [op EXCEPT ![p].errors = TRUE, ![p].pc = "unmountFuse"]
  /\ UNCHANGED <<fuse, unlocking, stageDir, dir, session>>

\* Runs even when the detach failed; then umount finds the mount busy.  Any
\* error so far ends the unmount with the session retained.
UnmountFuse(p) ==
  LET s == op[p].stage IN
  /\ At(p, "unmountFuse")
  /\ \/ /\ s \notin fuse \/ ~ HasImage(s)
        /\ fuse' = fuse \ {s}
        /\ \/ ~ op[p].errors /\ Goto(p, "removeDirs")
           \/ Finish(p)
     \/ UNCHANGED fuse /\ Finish(p)
  /\ UNCHANGED <<attached, volume, device, unlocking, stageDir, dir, session>>

\* Faulty: files left in the mount point's directory fail the unmount.
RemoveDirsAllOrNothing(p) ==
  LET s == op[p].stage  q == op[p].point IN
  /\ At(p, "removeDirs")
  /\ \/ UNCHANGED <<stageDir, dir>> /\ Finish(p)
     \/ /\ stageDir' = stageDir \ {s}
        /\ dir[q] # "full"
        /\ dir' = [dir EXCEPT ![q] = "absent"]
        /\ Goto(p, "clearRecord")
  /\ UNCHANGED <<machine, session>>

\* _remove_fuse_dir and _remove_empty_ntfs_dir both run; an error of either
\* retains the session.  A non-empty directory that is not mounted is left.
RemoveDirs(p) ==
  LET s == op[p].stage  q == op[p].point IN
  /\ At(p, "removeDirs")
  /\ \/ UNCHANGED <<stageDir, dir>> /\ Finish(p)
     \/ stageDir' = stageDir \ {s} /\ UNCHANGED dir /\ Finish(p)
     \/ /\ UNCHANGED stageDir
        /\ dir[q] = "empty" /\ volume[q] = None
        /\ dir' = [dir EXCEPT ![q] = "absent"]
        /\ Finish(p)
     \/ /\ stageDir' = stageDir \ {s}
        /\ volume[q] = None \/ dir[q] = "absent"
        /\ dir' = [dir EXCEPT ![q] = IF dir[q] = "full" THEN "full" ELSE "absent"]
        /\ Goto(p, "clearRecord")
  /\ UNCHANGED <<machine, session>>

ClearRecord(p) ==
  /\ At(p, "clearRecord")
  /\ Cleared
  /\ Finish(p)
  /\ UNCHANGED <<machine, stageDir, dir>>

-----------------------------------------------------------------------------
(* What happens around the program *)

\* The process dies, or an exception leaves the cleanup handler itself.
Crash(p) ==
  /\ ~ At(p, "idle")
  /\ Finish(p)
  /\ UNCHANGED <<machine, stageDir, dir, session>>

\* Mounts, images and processes are gone; files survive, except that the
\* temporary directory may be emptied, and mount points other volumes had
\* under /Volumes go with them.  Disks come back in any order.
Reboot ==
  /\ attached' \in [Disks -> {Foreign, None}]
  /\ volume' = [q \in Points |-> None]
  /\ device' = [q \in Points |-> None]
  /\ fuse' = {} /\ unlocking' = {}
  /\ stageDir' \in {stageDir, {}}
  /\ dir' = [q \in Points |-> IF volume[q] = Foreign THEN "absent" ELSE dir[q]]
  /\ op' = [p \in Procs |-> NoOperation]
  /\ UNCHANGED session

Undisturbed == Interference \/ \A p \in Procs : At(p, "idle")

ForeignAttach(d) ==
  /\ Undisturbed /\ attached[d] = None
  /\ attached' = [attached EXCEPT ![d] = Foreign]
  /\ UNCHANGED <<volume, device, fuse, unlocking, stageDir, dir, session, op>>

ForeignDetach(d) ==
  /\ Undisturbed /\ attached[d] = Foreign
  /\ Detached(d)
  /\ dir' = [q \in Points |-> IF device[q] = d THEN "absent" ELSE dir[q]]
  /\ UNCHANGED <<fuse, unlocking, stageDir, session, op>>

\* Another volume of that name, local or (NonDev) from the network.
ForeignMount(q) ==
  /\ Undisturbed /\ volume[q] = None
  /\ volume' = [volume EXCEPT ![q] = Foreign]
  /\ \E node \in {d \in Disks : attached[d] = Foreign} \cup {NonDev} :
       device' = [device EXCEPT ![q] = node]
  /\ dir' = [dir EXCEPT ![q] = IF dir[q] = "absent" THEN "empty" ELSE dir[q]]
  /\ UNCHANGED <<attached, fuse, unlocking, stageDir, session, op>>

\* The Finder's eject, of any volume.  The system removes the mount points it
\* made for other volumes, and may or may not remove the program's.
Eject(q) ==
  /\ Undisturbed /\ volume[q] # None
  /\ Unmounted(q)
  /\ \/ dir' = [dir EXCEPT ![q] = "absent"]
     \/ volume[q] # Foreign /\ UNCHANGED dir
  /\ UNCHANGED <<attached, fuse, unlocking, stageDir, session, op>>

HandDetach(d) ==
  /\ Undisturbed /\ attached[d] \in Stages
  /\ \A q \in Points : volume[q] # attached[d]
  /\ Detached(d)
  /\ UNCHANGED <<fuse, unlocking, stageDir, dir, session, op>>

HandUnmountFuse(s) ==
  /\ Undisturbed /\ s \in fuse /\ ~ HasImage(s)
  /\ fuse' = fuse \ {s}
  /\ UNCHANGED <<attached, volume, device, unlocking, stageDir, dir, session, op>>

\* Sleep and wake, or a reattach, gives our image another number.
Renumber(d, e) ==
  /\ Undisturbed /\ attached[d] \in Stages /\ attached[e] = None
  /\ \A q \in Points : volume[q] # attached[d]
  /\ attached' = [attached EXCEPT ![e] = attached[d], ![d] = None]
  /\ UNCHANGED <<volume, device, fuse, unlocking, stageDir, dir, session, op>>

\* Someone writes into, or tidies up, a directory nothing is mounted on.
TouchDir(q) ==
  /\ Undisturbed /\ volume[q] = None /\ dir[q] # "absent"
  /\ \E c \in {"full", "absent"} : dir' = [dir EXCEPT ![q] = c]
  /\ UNCHANGED <<machine, stageDir, session, op>>

\* The recovery the messages ask for: all layers down, then remove the file.
RemoveUntrusted ==
  /\ Undisturbed /\ session.kind \in {"distrusted", "legacy"}
  /\ ~ Live(session.stage)
  /\ session' = NoSession
  /\ UNCHANGED <<machine, stageDir, dir, op>>

-----------------------------------------------------------------------------
(* The specification *)

\* A clean machine, or one where an untrusted record and its stack are left.
Init ==
  /\ unlocking = {}
  /\ op = [p \in Procs |-> NoOperation]
  /\ \/ /\ session = NoSession
        /\ attached = [d \in Disks |-> None]
        /\ volume = [q \in Points |-> None]
        /\ device = [q \in Points |-> None]
        /\ fuse = {} /\ stageDir = {}
        /\ dir = [q \in Points |-> "absent"]
     \/ \E s \in Stages, d \in Disks, k \in {"distrusted", "legacy"} :
        /\ session = [kind |-> k, stage |-> s, point |-> 1]
        /\ attached = [e \in Disks |-> IF e = d THEN s ELSE None]
        /\ volume = [q \in Points |-> IF q = 1 THEN s ELSE None]
        /\ device = [q \in Points |-> IF q = 1 THEN NonDev ELSE None]
        /\ fuse = {s} /\ stageDir = {s}
        /\ dir = [q \in Points |-> IF q = 1 THEN "empty" ELSE "absent"]

Validate(p) == LoadForMount(p) \/ CheckMounts(p) \/ CheckImages(p)
                 \/ ClearStale(p) \/ DropStale(p)

MountPipeline(p) == PrepareFuseMount(p) \/ AllocatePoint(p) \/ StartFuse(p)
                      \/ WaitForFile(p) \/ Attach(p)
                      \/ MountDecryptedVolume(p) \/ SaveSession(p)

BestEffortCleanup(p) == CleanVolume(p) \/ CleanImage(p) \/ CleanFuse(p)
                          \/ CleanRecord(p)

Unmount(p) == LoadForUnmount(p) \/ SnapshotImages(p) \/ UnmountVolume(p)
                \/ UnmountVolumeForce(p) \/ DetachRawDisk(p) \/ DetachForce(p)
                \/ UnmountFuse(p) \/ RemoveDirs(p) \/ ClearRecord(p)

Program(p) == Validate(p) \/ MountPipeline(p) \/ BestEffortCleanup(p) \/ Unmount(p)

Outside ==
  \/ \E p \in Procs : Crash(p)
  \/ Reboot
  \/ \E s \in Stages : FuseComesUp(s) \/ FuseGivesUp(s) \/ HandUnmountFuse(s)
  \/ \E d \in Disks : ForeignAttach(d) \/ ForeignDetach(d) \/ HandDetach(d)
  \/ \E d, e \in Disks : Renumber(d, e)
  \/ \E q \in Points : ForeignMount(q) \/ Eject(q) \/ TouchDir(q)
  \/ RemoveUntrusted

Next == (\E p \in Procs : Program(p)) \/ Outside

Spec == Init /\ [][Next]_vars

-----------------------------------------------------------------------------
(* Properties *)

ProgramStep == \E p \in Procs : Program(p)

\* No process is in the middle of an operation while another one is.  The
\* pipelines take no lock themselves: elevation_transaction has to see to it.
OperationsSerialized == \A p, r \in Procs : ~ At(p, "idle") /\ ~ At(r, "idle") => p = r

\* No step of the program takes a disk away from anyone else: what
\* _detach_raw_disk promises of a device number recorded, or read, earlier.
ForeignDisksKept ==
  [][ProgramStep => \A d \in Disks :
       attached[d] = Foreign => attached'[d] = Foreign]_vars

\* No step of the program unmounts another disk's volume, also when it sits
\* on the recorded mount point (the check in _unmount_ntfs).
ForeignVolumesKept ==
  [][ProgramStep => \A q \in Points :
       volume[q] = Foreign /\ device[q] \in Disks => volume'[q] = Foreign]_vars

\* The record of a stack is neither removed nor overwritten while a layer of
\* the stack is left: a failed unmount keeps what a retry needs.  True only of
\* operations that do not overlap, read the record when they look for it, and
\* log without an error (~ LoadMayFail, ~ LogMayFail).
RecordOutlivesLayers ==
  [][session.kind = "valid" /\ session' # session => ~ Live(session.stage)]_vars

\* The stacks move as LayerStack says: up one layer at a time, recorded when
\* complete, down from the top once recorded, forgotten when nothing is left.
\* True under the same conditions.
Images == {s \in Stages : HasImage(s)}
Volumes == {s \in Stages : HasVolume(s)}
OnRecord == IF session.kind = "valid" THEN session.stage ELSE None

Stack == INSTANCE LayerStack WITH
  fuse <- fuse,
  image <- Images,
  mounted <- Volumes,
  recorded <- OnRecord

LayeredMoves == Stack!Spec

\* Fairness of a persistent user.  Whoever keeps clicking Unmount sees every
\* step of it succeed sooner or later; a volume that blocks the mount point is
\* ejected in the end, and not replaced by another one for ever.  Commands end,
\* also those that run without a time-out: an assumption about the tools.
Advance(p, label) ==
  /\ At(p, label) /\ Unmount(p)
  /\ op'[p].pc # "idle" /\ ~ op'[p].errors
EjectForeign(q) == volume[q] = Foreign /\ Eject(q)
ForeignMountsEnd == <>[][\A q \in Points : ~ ForeignMount(q)]_vars

PersistentUnmount ==
  /\ ForeignMountsEnd
  /\ \A p \in Procs :
       /\ \A label \in UnmountLabels \cup {"idle"} : SF_vars(Advance(p, label))
       /\ SF_vars(ClearRecord(p) /\ session' = NoSession)
       /\ WF_vars(Program(p) /\ ~ At(p, "idle"))
  /\ \A q \in Points : SF_vars(EjectForeign(q))

\* No sequence of partial failures, crashes and reboots wedges a session: the
\* retained record stays good enough for some later unmount to finish.
UnmountFinishes ==
  PersistentUnmount => (session.kind = "valid" ~> session.kind = "none")

\* Fairness of a user who only clicks Mount, as root (sudo ./run.sh): now
\* and then the record and the listings can be read, and the record removed.
Heal(p, label) == At(p, label) /\ Validate(p) /\ op'[p].pc # "idle"
                    /\ (label = "idle" => op'[p].pc = "staleMounts")
                    /\ (label = "clearStale" => session' = NoSession)

PersistentMount ==
  /\ ForeignMountsEnd
  /\ \A p \in Procs :
       /\ \A label \in {"idle", "staleMounts", "staleImages", "clearStale"} :
            SF_vars(Heal(p, label))
       /\ WF_vars(Program(p) /\ ~ At(p, "idle"))
  /\ \A q \in Points : SF_vars(EjectForeign(q))

\* Run as root, a mount clears a record that outlived its stack (after a
\* reboot, say): nobody has to unmount first or remove it by hand.  It is the
\* pipeline's check that does it.  Behind the administrator prompt the same
\* record stops Mount in the window, before the pipeline (ElevatedRunner's
\* LooksStale), and takes one click on Unmount.
StaleRecordHeals ==
  PersistentMount =>
    (session.kind = "valid" /\ ~ Live(session.stage) ~> session.kind = "none")

=============================================================================
