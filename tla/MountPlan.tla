------------------------------ MODULE MountPlan ------------------------------
(***************************************************************************)
(* What becomes of one mount request, as functions without state: the      *)
(* request file its window writes (elevate.py), the checks of the helper   *)
(* (privileged.py), and the commands the pipeline builds from it           *)
(* (runner.py, fs_probe.py, ntfs_mount.py, fat_mount.py).                  *)
(*                                                                         *)
(* What is abstracted.  A volume is a physical disk or anything else.  Of  *)
(* a secret only matters whether it is empty and, read as a path, where it *)
(* starts and whether a "~" occurs further on; paths stand for themselves  *)
(* with links followed, and neither home nor working directories have a    *)
(* "~" in their names.  The label is the window's fixed one, a safe name.  *)
(***************************************************************************)
EXTENDS Integers, Sequences, SequencesExt

Methods == {"user_password", "recovery_password", "bek_file"}

\* Typed texts: nothing, a plain word, /..., ~/..., and ~stranger/...
TypedStarts == {"empty", "word", "slash", "home", "stranger"}

Secrets == [start : TypedStarts, tilde : BOOLEAN]
Empty == [start |-> "empty", tilde |-> FALSE]

Requests ==
  [volume : {"disk", "other"}, method : Methods, secret : Secrets, readonly : BOOLEAN]

\* A device of the attached image: the file system diskutil names, and what the
\* type of its partition says.  Neither follows from the other: Windows_NTFS is
\* also the type of an ExFAT partition on an MBR disk.
Devices ==
  [fs : {"ntfs", "exfat", "msdos", "none"}, type : {"other", "Windows_NTFS", "Windows_FAT_32"}]

\* What a user's request meets: is the key file there, what do the devices of
\* the attached image say of themselves, whose ids does the process get.
Worlds(maxDevices) ==
  [keyFile : BOOLEAN, ntfs3g : BOOLEAN,
   devices : SeqOf(Devices, maxDevices),
   launch : {"helper", "sudo", "root"}]

-----------------------------------------------------------------------------
(* Paths *)

IsAbsolute(path) == path.start \notin {"empty", "word", "home", "stranger"}

HasTilde(path) == path.tilde \/ path.start \in {"home", "stranger"}

\* Where the typed texts that are not absolute lead in a process run by who:
\* its working directory, a file there, and its home.
Places ==
  [user |-> [empty |-> "userDir", word |-> "userFile", home |-> "userHome"],
   root |-> [empty |-> "rootDir", word |-> "rootFile", home |-> "rootHome"]]

\* expanduser().resolve() of a process run by who, or an exception.
ExpandFails(path) == path.start = "stranger"
Expand(path, who) ==
  IF path.start \in {"empty", "word", "home"}
  THEN [path EXCEPT !.start = Places[who][@]]
  ELSE path

-----------------------------------------------------------------------------
(* The window's half *)

ValidateVolumePath(req) == req.volume = "disk"

\* Faulty: the path goes into the request as it was typed.
WriteRequestAsTyped(req) == req

\* The request file; the window reports an exception if the path fails to expand.
WriteFails(req) == req.method = "bek_file" /\ ExpandFails(req.secret)
WriteRequest(req) ==
  IF req.method = "bek_file"
  THEN [req EXCEPT !.secret = Expand(@, "user")]
  ELSE req

-----------------------------------------------------------------------------
(* The helper's half *)

\* _validate_request and _validate_mount_fields.
ValidateRequest(payload) ==
  /\ payload.volume = "disk"
  /\ payload.secret.start # "empty"
  /\ payload.method = "bek_file" => IsAbsolute(payload.secret) /\ ~ HasTilde(payload.secret)

\* Absolute paths are used as they are.
Canonicalize(req, who) ==
  IF req.method = "bek_file" /\ ~ IsAbsolute(req.secret)
  THEN [req EXCEPT !.secret = Expand(@, who)]
  ELSE req

\* The checks of _validate_mount_request that concern the request itself.
ValidateMountRequest(req, world) ==
  IF req.method = "bek_file"
  THEN world.keyFile /\ req.secret.start \notin {"userDir", "rootDir"}
  ELSE req.secret.start # "empty"

DislockerCmd(req) ==
  [helper |-> "dislocker", readonly |-> req.readonly, method |-> req.method, secret |-> req.secret]

\* hdiutil attach of dislocker-fuse's file; it is given no read-only option.
HdiutilAttach == [helper |-> "hdiutil", readonly |-> FALSE]

-----------------------------------------------------------------------------
(* File systems *)

\* Which of the words looked for occur in what diskutil says of a device: its
\* file system's names and the content of its partition, joined in lower case.
Reported(device) ==
  {word \in {"ntfs", "exfat", "msdos", "fat"} :
     CASE word = "ntfs" -> device.fs = "ntfs" \/ device.type = "Windows_NTFS"
       [] word = "fat" -> device.fs \in {"exfat", "msdos"} \/ device.type = "Windows_FAT_32"
       [] OTHER -> device.fs = word}

\* Faulty: the generic "fat" is looked for first.
ClassifyFatFirst(words) ==
  CASE "ntfs" \in words -> "ntfs"
    [] words \cap {"msdos", "fat"} # {} -> "msdos"
    [] "exfat" \in words -> "exfat"
    [] OTHER -> "none"

Classify(words) ==
  CASE "ntfs" \in words -> "ntfs"
    [] "ntfs" \notin words /\ "exfat" \in words -> "exfat"
    [] words \cap {"ntfs", "exfat"} = {} /\ words \cap {"msdos", "fat"} # {} -> "msdos"
    [] OTHER -> "none"

\* The whole disk first, then its slices: the first of a known kind, or 0.
MountedDevice(devices) == SelectInSeq(devices, LAMBDA d : Classify(Reported(d)) # "none")

\* Faulty: the ids of the environment are preferred to those of the request.
OwnerFromEnvironment(world) == IF world.launch = "sudo" THEN "user" ELSE "root"

\* The helper passes the window's ids; sudo leaves them in the environment.
ResolveMountOwner(world) == IF world.launch \in {"helper", "sudo"} THEN "user" ELSE "root"

\* ntfs-3g with the option "ro"; like the others with the owner's ids and no
\* rights for anyone else.
MountNtfs(req, world) ==
  [helper |-> "ntfs", readonly |-> req.readonly, owner |-> ResolveMountOwner(world)]

\* Faulty: the option of ntfs-3g alone is thought of.
MountFatWritable(kind, req, world) ==
  [helper |-> kind, readonly |-> FALSE, owner |-> ResolveMountOwner(world)]

\* mount_exfat or mount_msdos, with "rdonly".
MountFat(kind, req, world) ==
  [helper |-> kind, readonly |-> req.readonly, owner |-> ResolveMountOwner(world)]

MountCommand(req, world) ==
  LET kind == Classify(Reported(world.devices[MountedDevice(world.devices)])) IN
  IF kind = "ntfs" THEN MountNtfs(req, world) ELSE MountFat(kind, req, world)

\* No recognisable file system, or NTFS without ntfs-3g.
MountRefused(world) ==
  LET i == MountedDevice(world.devices) IN
  i = 0 \/ (Classify(Reported(world.devices[i])) = "ntfs" /\ ~ world.ntfs3g)

-----------------------------------------------------------------------------
(* One request from the click to the commands *)

\* The request as the pipeline runs it, or a refusal before that.
Delivered(req, world) ==
  IF world.launch = "helper"
  THEN IF ~ ValidateVolumePath(req) \/ WriteFails(req) \/ ~ ValidateRequest(WriteRequest(req))
       THEN <<>>
       ELSE <<Canonicalize(WriteRequest(req), "root")>>
  ELSE IF WriteFails(req) THEN <<>> ELSE <<Canonicalize(req, "root")>>

\* The commands run for it that get at the volume, in order.
Commands(req, world) ==
  IF Delivered(req, world) = <<>> THEN <<>>
  ELSE LET run == Delivered(req, world)[1] IN
       IF ~ ValidateMountRequest(run, world) THEN <<>>
       ELSE <<DislockerCmd(run), HdiutilAttach>>
              \o (IF MountRefused(world) THEN <<>> ELSE <<MountCommand(run, world)>>)

=============================================================================
