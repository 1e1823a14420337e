# dislocker-ui: a verification development in TLA+

dislocker-ui mounts BitLocker volumes on macOS. One volume is three layers:
a FUSE mount that `dislocker-fuse` puts on a fresh staging directory, a disk
image that `hdiutil` attaches from the `dislocker-file` inside it, and a file
system mounted from that image under `/Volumes`. One JSON record, the
*session*, tells a later process (or a later click) what to take down. Nothing
supervises the layers: every operation is a sequence of external commands, any
of which fails, times out, or takes effect and then fails, in a process that
may die between two of them.

Paths below are relative to `src/src/dislocker_ui/` unless they start with
another directory of the repository.

## 1. Inventory

| Component | State it keeps | Operations | Talks to |
|---|---|---|---|
| `runner.py`, `unmount_steps.py`: the pipelines | locals of a running operation (staging directory, mount point, raw disk, image list, errors so far) | `mount_volume` / `_mount_in_process`, `unmount_volume`, `_best_effort_cleanup`, `session_targets_gone`, `_clear_stale_session` | the machine (mount table, image list, directories) through commands; the session file |
| `session.py`: the record | one file per user or for root | `load_session`, `save_session`, `clear_session`, `legacy_session_present`, `ensure_root_state_dir` | read by the GUI, the elevation parent and the pipelines; written by the pipelines |
| `mount_policy.py` | staging directories | `allocate_privileged_fuse_path`, path predicates, removal of empty parents | called by the pipelines |
| `elevate.py`: unprivileged parent | the per-user lock, request files, the `osascript` child | `elevation_transaction`, `prepare_elevation_paths`, `run_elevated_mount`, `run_elevated_unmount`, failure classification | starts the helper; waits for its exit code; reads the session |
| `privileged.py`: the helper, as root | request being served, log | load, verify and unlink the request, validate it, run a pipeline, exit 0/2/3/4 | the pipelines |
| `gui.py` | busy flag, worker threads, posted callbacks, status line; the form: unlock method, secret field and its timer, read-only box | `_on_mount`, `_on_unmount`, their workers and callbacks, `_on_method_change`, `_toggle_password_visibility`, `_auto_hide_password`, `_recheck_deps` | `mount_volume`, `unmount_volume`, `load_session` |
| `fs_probe.py`, `ntfs_mount.py`, `fat_mount.py` | none | classify the decrypted volume, mount it, find the owner to mount it for | called by the pipelines |
| `deps.py`, `disks.py` | none | tool and disk discovery | GUI, helper |
| `hooks/`, `scripts/`, `run.sh`, help texts | none | not part of the running program | |

What makes them hard, and what makes them correct:

* **Pipelines.** Partial failure at every command, commands that time out
  after taking effect, crashes, reboots with a surviving record, listings
  that are stale when used, device numbers that change hands, two root
  processes. Correct when: the record of a stack outlives its layers; layers
  come down from the top; nothing that is not the program's is detached or
  unmounted; no sequence of failures wedges a session for good; a dead record
  blocks nobody for good: as root the next mount clears it, behind the
  administrator prompt one unmount does.
* **Session file.** Crash or reader between the temporary file and the rename;
  distrusted and legacy records; a load that fails, which its callers cannot tell
  from no record. Correct when a reader sees no record or a whole one.
* **Elevation.** Two windows, a sweep of request files, a password prompt that
  may be answered late, cancelled, or time out while the helper runs. Correct
  when no window loses its request to another, helpers run one at a time, a
  reported success has a record, secrets do not stay on disk, every click is
  answered.
* **Source scan** (part of the elevation parent). The tree goes on changing
  between the listing and the look at each entry. Correct when what is unsafe
  throughout is refused and a file that merely vanishes refuses nothing.
* **GUI.** Worker results that arrive after the window moved on, a status line
  computed from a record that changes meanwhile, callbacks served by the event
  loop of a message box. Correct when one operation runs at a time, the line
  follows the last result, and the buttons come back.
* **Form and request.** A timer of an earlier reveal, a secret left from another
  method, a box whose tool went away; then three processes and four argument
  lists through which one choice has to pass. Correct when clear text is always
  on a countdown and a request means to root what it meant to the user.

The list of hazards, line by line, is in `PROJECT.json`.

## 2. Modules and how they correspond to the code

| Module | Models |
|---|---|
| `Runner` | the mount and unmount pipelines over the machine and the session, for any number of root processes |
| `LayerStack` | abstract: what the pipelines promise about stacks and their record |
| `RunnerInvariant` | the invariants behind the proofs about `Runner` |
| `RunnerProofs` | TLAPS proofs about `Runner`: types, and what is not the program's |
| `RecordProofs` | TLAPS proofs about the record and the layers of `Runner`, with its refinement of `LayerStack` |
| `Elevation` | windows, the user's lock, request files, osascript and the helper's life |
| `ElevationProofs` | TLAPS proofs about `Elevation` |
| `ElevatedRunner` | composition: `Elevation` with the pipelines of `Runner` inside its helpers |
| `ElevatedProofs` | TLAPS proofs about the composition: its refinement of `Elevation`, and the theorems on the record carried over |
| `SessionFile` | `session.py`: saving, clearing and loading the record, call by call, with crashes and power losses |
| `RecordRegister` | abstract: the session file is one register |
| `SessionFileProofs` | TLAPS proofs about `SessionFile`, the refinement included |
| `Gui` | the window's operations: clicks, worker threads, posted callbacks, message boxes, the status line |
| `GuiProofs` | TLAPS proofs about `Gui` |
| `MountPlan` | one request, as functions: request file, validation, and the commands of `fs_probe.py`, `ntfs_mount.py` and `fat_mount.py` |
| `Form` | the form the request is made of, on top of `MountPlan` |
| `FormProofs` | TLAPS proofs about `Form` and `MountPlan` |
| `SourceScan` | the scan of the source tree before an elevation, over a tree that changes |
| `ScanProofs` | TLAPS proofs about `SourceScan` |
| `MC...` | symmetry sets and the small tree for TLC |

Every modelling definition is listed in `PROJECT.json` under `map` with the
lines it translates. Definitions whose comment begins with *Faulty* are mistakes
one could make in the code next to which they stand; no specification uses them.
They are there to show that each property notices such a mistake.

### Runner

A *stage* is the name of a staging directory. Because `_expected_image_path`
derives the image path from it, the stage identifies a whole stack. The
machine is `attached` (what each `/dev/diskN` carries), `volume` and `device`
(the mount table under `/Volumes`), `fuse` (FUSE mounts) and `unlocking`
(`dislocker-fuse` processes that have not mounted yet). Files are `stageDir`,
`dir` (mount point directories) and `session`. `op[p]` holds where process
`p` is and its local variables; one action stands for the code between two
external effects:

* `LoadForMount`, `CheckMounts`, `CheckImages`, `ClearStale`, `DropStale`:
  `_validate_mount_request` with `session_targets_gone` and
  `_clear_stale_session`;
* `PrepareFuseMount` to `SaveSession`: `_mount_in_process`; its handler is
  `CleanVolume` to `CleanRecord` (`_best_effort_cleanup`);
* `LoadForUnmount` to `ClearRecord`: `unmount_volume` and the steps of
  `unmount_steps.py`, including each `_run_with_fallback` retry.

Every command has three outcomes: success, failure, and failure reported after
the effect (a time-out, or output that cannot be parsed). Two failures of the
process itself have a constant each, because they void what the record promises:
`LoadMayFail` (an `OSError` makes `load_session` answer None over a record that
is there, and the mount goes on as if there were none) and `LogMayFail` (the log
call after `save_session` raises). `Crash(p)` is
possible between any two actions, `Reboot` at any time. Around the program, a
user ejects, detaches and unmounts by hand, images get renumbered, and other
disks and volumes come and go (`Foreign...`); the constant `Interference` says
whether that also happens while an operation runs.

### Elevation

`window[w]` is an unprivileged process inside `mount_volume` or
`unmount_volume`: waiting for the lock, preparing (path checks and the sweep),
writing the request, launching osascript, waiting, answering. `script[s]` is one
osascript process, first a password prompt, then the helper it started.
`requests` are the `dislocker-ui-req-*.json` files on disk. `recorded` says
whether `load_session` finds a record at the root path. Of a pipeline
`Elevation` keeps when the record changes: a mount clears a stale one
(`ClearsStale`), saves its own (`Records`), and then returns, or fails in the
log call after it; an unmount clears it as it returns. `Classify` is
`classify_osascript_failure`: a status and a wording go in, a kind of error
comes out. `Leave` is every way out of `elevation_transaction`: the request is
unlinked, the lock released. The constant `Abandon` says whether a window may
stop waiting for a helper that already runs, as it does when the 600 s of
`with timeout` or the 630 s of `subprocess.run` expire, or when it is quit.

### ElevatedRunner

Process `p` of `Runner` is the helper that osascript `p` of `Elevation` starts.
`HelperStep` is one step of a pipeline and, with the last one, the helper's
`done` or exit 3; `HelperStops` is a kill or an exception no handler expects.
`recorded` becomes "the session is valid". `ImplementsElevation` states that
this is still `Elevation`: a pipeline's failed exit clears the record or leaves
it, its success leaves the record its action is about, and a step in between
changes it only by clearing a stale one.

### SessionFile

A directory with one name and a set of files. `entry` is the file that
`active_session.json` names, `temps` those with a temporary name, `onDisk` what
the name may be after a power loss: each change of the name that the system has
not written back yet. A file has a text (empty, torn, a record, or something
`load_session` declines), whether it is `stamped` (`root`, the user's group,
0640) and whether it is `synced`. `MakeTemp`, `Stamp`, `WritePart`, `WriteRest`,
`Sync` and `Replace` are the calls of `save_session`, `SaveFails` and `Cleanup`
its handler, `Clear` and `Unlink` `clear_session`. `Verify` and `Report` are the
helper's `_verify_session_readable`, which looks at owner, group and mode and
never at the text; it may also fail over a whole record (an `lstat` that fails, an
unexpected group), which leaves that record where it is. `Open` and
`Read` are `load_session`: what is read is the file that was opened, whatever the
name leads to by then, and either call may fail, which is answered None.

The refinement mapping to `RecordRegister`: the register is the record under the
name, if it is whole; a writer wishes for its record until `Replace`, for none
until `Unlink`; a reader's answer is settled when it opens the file, or is None
if the load fails. The register allows the same to its readers: an answer is what
it held, or None, and never another record or a part of one.

### Gui

`worker[k]` is a thread of `_mount_worker` or `_unmount_worker`: in the
pipeline, or with one or two callbacks left to post. `posted` is the queue of
`root.after(0, ...)`. `ShowMessage` opens a message box, whose event loop
goes on taking callbacks, so `dialogs` counts boxes inside one another; no click
reaches the window meanwhile. The thread of an operation that is over may still
be posting while the next one runs: this is why there can be two. `record` is
the session file, which other windows and late helpers change as well
(`OthersChange`); `Relaunch` is quitting and starting again.

### MountPlan and Form

`MountPlan` has no state. A *request* is a record of volume, method, secret and
read-only flag; a *world* is what it meets (is the key file there, what do the
devices of the image say of themselves, whose ids does the process have).
`WriteRequest` is the window's half, `ValidateRequest` and `Canonicalize` the
helper's, `Commands` the list of commands that come out of it: `dislocker-fuse`,
`hdiutil attach`, then one of the three mount programs if a file system is
recognised. A device of the image has a file system and a partition type, and
neither follows from the other: `Windows_NTFS` is the type of an ExFAT partition
on an MBR disk as well.

`Form` has the fields the request is made of. `hideTimer` is the identifier the
window keeps, `pending` the timers that will really fire; the code has to keep
the two together. Timers fire in the event loop of a dialog as well.
`enteredFor` is history: the method for which the field was filled.

### SourceScan

Entries of a small tree come, go and change (`Vanish`, `Appear`, `Chmod`)
between the calls of the scan: `List` (a link test and `os.walk`'s listing),
`CheckDirWritable`, `CheckModule` and `CheckUnclassified` for each name, and
`EntryVanished`, the second look at a name for which `stat` answered ENOENT.
`touched` and `excuse` are history: what changed, and whether there has been
any reason to refuse.

### What is abstracted

* One user and one root session path. Two users have two paths and share the
  mount points and disks only; `two_roots` covers that sharing.
* Volume names, argv, log texts and digests. Of a secret only matters whether it
  is empty and how it starts as a path; labels are taken to be safe names.
* In `Elevation` the checks of a request and the scan of the source tree are one
  verdict each: accepted or refused. `MountPlan` and `SourceScan` look inside.
* In `Runner` `save_session` is one step, and a load is one step, which may fail
  (`LoadMayFail`): `SessionFileProofs` shows that this is what a reader sees. What a power loss
  does to the file is part of `SessionFile` only; `Runner`'s `Reboot` keeps the
  record, as a restart does.
* In `Runner`, which of the mount programs mounts the volume. What the pipelines
  see of it is kept: the mount has a `/dev` node or none.
* In `Gui` an operation is its effect on the record: `Runner` and `Elevation`
  have the rest.
* Reading a listing and the command it justifies are one step when no other
  command runs between them. Where the code keeps a listing for later (the
  image list of an unmount), the model keeps it as well (`found`).

## 3. Runs

Passing runs:

| Run | Question | Bounds |
|---|---|---|
| `stack` | does the record outlive its layers, and do the pipelines implement `LayerStack`, with one process, failures, crashes, reboots and changes by hand | 1 process, 2 disks, 2 stages, 2 mount points |
| `two_roots` | do two root processes, whose commands, log calls and loads of the record fail, ever detach or unmount what is not the program's | 2 processes, 2 disks, 2 stages, 1 mount point |
| `wedge` | does whoever keeps clicking Unmount get rid of the session, and whoever, as root, keeps clicking Mount of a record that outlived its stack | 1 process, 2 disks, 1 stage, 1 mount point |
| `elev` | requests kept, no leftover secret, "cancelled" means not started, every click answered, with windows that die and give up | 2 windows, 2 scripts, 3 request names |
| `elevated` | with the real pipelines: one operation at a time, a reported mount has its record, the record outlives its layers, `Elevation` is implemented | 2 windows, 2 helpers, 2 disks, 2 stages, 1 mount point, 2 request names |
| `session_file` | is the session file one register, never half written, under failing calls, kills and power losses; does a helper that finds its session in order find one that loads | 2 helpers, 1 reader, 3 files, 2 records |
| `gui` | one operation at a time, a status line that is current, buttons that come back once the operation has ended, with callbacks served in message boxes too | 2 worker threads, 2 message boxes inside one another |
| `form` | is clear text always on its countdown, is the request consistent, and is what it asks for what the commands do | 2 timers, a countdown of 3 ticks, 2 dialogs, images of 2 devices |
| `scan` | what stays unsafe is refused; nothing is refused for no reason | a tree of 6 names (top, package, a module, a data directory, a stray module, a pruned directory), 2 changes during the scan |

The bounds let every hazard happen. Two stages are a recorded stack beside a
new or a leftover one. Two disks are the program's image beside another disk,
or a number that changes hands. Two mount points are a directory left behind
beside a fresh one. Two processes, windows or helpers are a race; three request
names are one leftover file, one that a script still holds, and a new one. Three
session files are the one that has the name, the one about to replace it, and
one that a reader still has open or a killed helper left. Two threads are one
that has yet to post and the one of the next click. Two timers are one that
fires late and one of a later reveal; three ticks tell a full countdown from a
shortened one. Two devices are the disk and a slice, or two slices of different
kinds. Two changes during a scan are one that goes and comes back. No counter is
unbounded, so no run needs a state constraint. Symmetry is used in runs without
liveness properties only. `stack`, `two_roots`, `elevated` and `session_file`
check safety under symmetric disks, stages, windows, helpers and files; the
mount points are tried in order, hence not symmetric.

`LoadMayFail` and `LogMayFail` are TRUE in `two_roots` and `wedge`. In `wedge`,
whose one stage has one name, a mount over a record it could not read is refused
for want of a fresh name; `unreadable` shows what such a mount does. Both are
FALSE in `stack`, `elevated`, `late_stack` and `reassigned`, `LogMayFail` in
`unreadable` also: each violation run has one cause.

Deadlock is checked in every run but `scan`, which ends with its verdict.

Violation runs, each for a promise that the repository makes and the code does
not keep (quotations in `PROJECT.json`, `findings`):

| Run | What happens |
|---|---|
| `reassigned` | A disk attached during a slow unmount takes over the image's number; the retry, or a step going by the list read before, detaches it by force. |
| `unreadable` | A load of the record fails, and the mount takes that for "no session": it goes ahead beside the live stack, and its save replaces, or its failure's cleanup deletes, the record of that stack. |
| `late_stack` | A mount times out with its helper unlocking; the lock is free, the user tries again as told, and two helpers mount over each other's record. |

`reassigned` is why `two_roots` sets `Interference` to FALSE, `late_stack` why
`elevated` sets `Abandon` to FALSE, and `unreadable` why `stack` and `elevated`
set `LoadMayFail` to FALSE: each passing run says what holds outside the defect,
and the violation run what the defect does.

Three more ways to break the same promise, that "canonical state remains until
all owned resources are confirmed cleaned up"
(`plans/archive/2026-10-04-privileged-helper-hardening.md:25`, SA-05), which have
no run of their own:

* The log call after `save_session` (`runner.py:215`) is inside the `try`: if it
  raises, the mount is undone, and where the cleanup's own commands fail the
  record goes all the same (`CleanRecord`) and the stack stays. This is why
  `stack` and `elevated` set `LogMayFail` to FALSE.
* Two processes started with `sudo ./run.sh` take no lock at all: both pass the
  session check before either saves.
* Only the elevated branch asks for a pre-0.3.0 record (`runner.py:138`). Run as
  root, a mount starts over one that root owns, by the step of `unreadable`.

One disagreement that is modelled but has no run: README.md:223 sends ExFAT to
`mount_exfat`, but `_classify_info` joins all that `diskutil` says into one text and
looks for "ntfs" first (`fs_probe.py:129-141`). An ExFAT or FAT partition typed
`Windows_NTFS`, the usual type of ExFAT on an MBR disk, is handed to `ntfs-3g`,
whatever file system `diskutil` names. `FileSystemServed` says for which devices
the right program is chosen, and that these are the only exception.

Observations, which contradict no promise of the repository and have no run:

* `hdiutil attach` (`runner.py:506`), the commands of the cleanup
  (`runner.py:559-573`), those of the probe (`fs_probe.py:90-94`) and the read of
  what a failed `dislocker-fuse` printed (`runner.py:493`) have no time-out. One
  that hangs keeps the operation running and the buttons off.
* Directories that failed mounts leave under `/Volumes` are never removed by the
  program; after 48 of them a mount finds no name (`AllocatePoint`).
  README.md:258 tells the user to remove them by hand.
* `classify_osascript_failure` goes by wording where the status is 1
  (`elevate.py:515`), so a helper whose own error says "timed out" is
  reported as an authorization that timed out.

## 4. Fairness

Safety properties assume none. The liveness properties assume what the code or
its user provides:

* `wedge`: `PersistentUnmount` says that somebody keeps clicking Unmount; each
  of its commands, tried again and again, succeeds sooner or later; a foreign
  volume in the way is ejected and not replaced for ever. Strong fairness of the
  *successful* outcome of each step, as crashes and failures may come between.
  What is shown is that no combination of partial results leaves a state from
  which a later unmount cannot finish. That a command ends is assumed of the
  tools, as the code does not enforce it for all of them. `PersistentMount` is the
  same for the steps of the stale check, and for a user who is root
  (`sudo ./run.sh`). Behind the administrator prompt the window cannot look into
  the staging directory, takes the record for a live one and asks for a click on
  Unmount (`runner.py:124-129`, CHANGELOG.md:57-61; `LooksStale` in
  `ElevatedRunner`): there `UnmountFinishes` is what clears the record. The two
  properties are implications, one from each, because different users are patient
  in different ways.
* `elev` (`FairElevation`): a running window executes its next statement; a
  `flock` that is free again and again is granted in the end, though in no
  order (strong fairness); `subprocess.run` returns (its time-out is finite).
  Nothing is assumed of the user at the prompt, nor of the helper.
* `gui` (`FairGui`): nothing is assumed of an operation, which may hang in a
  command without a time-out; a thread whose operation has ended runs on and
  posts its callbacks; message boxes are answered; the Tk thread serves callbacks
  when no box is open (strong fairness, as boxes come between). It need not
  serve any while one is. `BusyEnds` accordingly starts where no thread is inside
  an operation.
* `form` (`FairForm`): time passes; dialogs end, so the window is clickable
  again and again (an assumption about the user, stated as such); the event loop
  then gets to a timer that is due.

## 5. Proofs

Every safety property of the passing runs, invariant, action property or
refinement, is a theorem.

| Theorem | Module | For all | Assuming |
|---|---|---|---|
| `TypeCorrect` | `RunnerProofs` | processes, disks, stages, mount points | `ConstantsOK` |
| `AlwaysAccounted`, `DisksAlwaysAccounted`, `PointsAlwaysAccounted` | `RunnerProofs` | the same | nobody interferes with a running operation |
| `NeverDetachesForeign`, `NeverUnmountsForeign` | `RunnerProofs` | the same | the same |
| `RecordOutlives` | `RecordProofs` | the same; with every failing command, crash and reboot, and whatever others do to disks and mounts meanwhile | operations do not overlap, loads of the record and the log after `save_session` do not fail |
| `RecordAlwaysAccurate` | `RecordProofs` | the same; with every failing command, crash and reboot | the same, and nobody interferes with a running operation |
| `StacksMoveInOrder` (`Runner` implements `LayerStack`) | `RecordProofs` | the same | the same |
| `RequestsAlwaysSafe`, `ElevationTypeCorrect`, `OnlyOwnRequestAlways`, `CancelledAlwaysBeforeHelper` | `ElevationProofs` | windows, scripts, request names; with windows that die and give up | `ElevationConstants` |
| `PatientWindowsSerialize` | `ElevationProofs` | windows, scripts, request names | windows wait for the helpers they started (`~ Abandon`) |
| `PipelinesImplementElevation` (`ElevatedRunner` implements `Elevation`) | `ElevatedProofs` | windows, helpers, request names, disks, stages, mount points | `ConstantsOK`, `TransportConstants` |
| `HelpersAlwaysSerialized`, `OperationsAlwaysSerialized`, `SuccessAlwaysHasRecord` | `ElevatedProofs` | the same | `~ Abandon` |
| `ElevatedRecordOutlives` | `ElevatedProofs` | the same | `~ Abandon`, loads of the record and the log after `save_session` do not fail |
| `ElevatedStacksMoveInOrder` | `ElevatedProofs` | the same | the same, and nobody interferes with a running operation |
| `ScanTypeCorrect`, `StableUnsafeAlwaysRefused`, `RefusedAlwaysForReason` | `ScanProofs` | source trees, kinds of names, number of changes during the scan | `ScanConstants` |
| `SessionFilesSafe`, `RecordAlwaysWhole`, `VerifiedAlwaysReadable` | `SessionFileProofs` | writers, readers, files, records | `SessionFileConstants` |
| `SessionFileIsRegister` (`SessionFile` implements `RecordRegister`) | `SessionFileProofs` | the same | the same |
| `GuiTypeCorrect`, `OneOperationAlways`, `StatusAlwaysCurrent` | `GuiProofs` | threads, depth of message boxes | `GuiConstants` |
| `FormSafe`, `ClearTextAlwaysTimed`, `RevealsLastTheirTime`, `RequestsAlwaysConsistent` | `FormProofs` | timers, length of the countdown, depth of dialogs | `FormConstants` |
| `ReadOnlyAlwaysHonoured`, `SecretsAlwaysDelivered`, `FileSystemsAlwaysServed` | `FormProofs` | the same, and the number of devices in the image | `FormConstants` |

The assumptions on constants are only that the sets are what the code takes
them for (`None` is in none of them, there is at least one mount point, the
source tree is a tree). "Operations do not overlap" is a hypothesis on the
behaviour, `[]OperationsSerialized`: it is what `ElevatedProofs` discharges.

*Type correctness* needs `Assigned`: the code assigns each local variable
before the step that uses it (`op[p].disk` at `mountVolume`, `op[p].found` at
`detachForce`), and a valid record names a stage and a mount point.

*Foreign disks and volumes.* The properties speak of one step, so the argument
is about what the step's local variables still mean. `DisksAccounted`: a disk
number that a running operation holds is not another's, which nothing but
interference can change, since numbers are handed out only while free, and the
program hands them to its own images only. `PointsAccounted`: once an unmount
has looked at the mount table, or a mount has made its mount point, no `/dev`
volume of another disk is there. The two are inductive together with the types.
`reassigned` shows that without the assumption the theorem is false.

*The record outlives its layers.* Where others may change disks and mounts
between two steps, what an operation has read is soon out of date, so the
invariant (`Sound`, `Safe`) keeps only what nobody but the program can undo:
layers come up by its own steps alone, and everything else takes layers away
(`Descent`), which spoils no knowledge that a layer is down. Two facts about the
machine do the work of all the rest. `RecordAccurate`: a recorded stack has its
volume at the recorded point only, so one look there speaks for the stack, and
its `dislocker-fuse` no longer runs, so no layer can come up behind the
operation's back. `ImagesOnFuse`: a FUSE mount cannot go while an image is
attached from inside, so a stack that has lost its FUSE mount has no image
either, whatever number its disk has by now. An unmount that detached the wrong
disk is thus stopped by the FUSE layer, which stays busy, and retains the
record. A failed mount's cleanup may remove whatever record there is because of
`MountOverDeadRecord`. The theorem speaks of any number of processes whose
operations do not overlap: lemma `OthersWait` says that while one is inside an
operation all others are idle, so their knowledge is nothing to spoil.
Overlapping operations, failing loads and a failing log are left out because they
break the property (`late_stack`, `unreadable`, and the list of section 3).

*Stacks.* That they move as `LayerStack` says does depend on the disks read:
with interference a mount can record a stack whose volume was ejected a step
earlier. The stronger `RecordInvariant` follows the code: `StaleChecked`,
`UnmountProgress` and `MountBuilds` say for each label which layers are known to
be down or up, `ImagesUnique` that one detach ends an image, `DevicesAccurate`
that a detach takes only its own volumes along. The refinement proof has one
lemma per kind of step (a mount table entry goes, a disk is detached, a FUSE
mount goes, a record goes); that a cleanup tears only an unrecorded stack is
`MountBuilds` again.

*Requests.* `RequestsSafe` is inductive: the lock is with the one window inside
the transaction (`Held`); a window hands its request to a script nobody else has
(`WindowFiles`, `ScriptFiles`); the file stays until its helper reads it
(`Kept`); and between a sweep and the way out it is the only one on disk. The
sweep is safe because whoever sweeps holds the lock, hence nobody else waits,
and scripts whose windows died have no window to disappoint.

*Serialization.* `Served` adds that each script has its window waiting for it,
which is what `Abandon` breaks. With `Held`, at most one script exists at all
(lemma `OneScript`), so one helper runs at a time and nobody holds an answer
while it changes the record (`Recording`).

*Cancelled.* `CancelledBeforeHelper` is about one step: the answer "cancelled"
comes from the classification of a status that only a prompt produces. Every
other end of a script is classified otherwise (`EndsTold`), and a window has no
answer while it waits (`Unanswered`), so none is left from before.

*The lock and the pipelines.* `ElevatedProofs` puts the two halves together.
Each step of the composition is a step of `Runner` or none (`RunnerSteps`), so
everything proved of `Runner` holds of it. Each is also a step of `Elevation` or
none (`ElevationSteps`): `PipelineRecord` says when a pipeline changes the record,
and `HelperMaps` that this is `ClearsStale`, `Records`, `Returns` or `Fails`;
what is proved of `Elevation` holds as well, read through `INSTANCE ... WITH`. An
operation is under way only inside a helper (`OperationsInHelpers`), and
helpers run one at a time, so operations do not overlap: the hypothesis of the
theorems on the record. Thus the lock of `elevate.py`, which knows nothing of
disks, is what makes the record of `runner.py` outlive its layers, and giving up
a helper that runs (`late_stack`) is exactly what undoes it.

*Source scan.* `CulpritsAhead`: whatever is unsafe, within reach, and unchanged
since the scan began, is still ahead of it, because a directory on its path is to
be listed, or is among the files as one that was not recognised, or because it is the
directory just listed and about to be checked. Listing a directory moves the
witness one name down the path (`PathGoesOn`), and a name is passed only if it is
on no such path (`PassedAhead`). When the scan accepts, nothing is ahead. The
other direction, `Innocent`: without a reason to refuse, the tree is clean at
every moment, and each name the scan holds is what it was taken for or a file
that has gone. `Path` is the least set closed under `Parent`, which makes both
arguments possible without induction.

*Session file.* `FileInvariant` has three parts. `TempsApart`: a temporary file
belongs to one writer, has no other name, and nobody has it open. `Progress`: at
each point of `save_session` the file is as far as the calls before it (stamped,
written, synced). `NamedWhole`: what the name leads to, now or after a power
loss, is stamped, whole and synced, or was there before. Each needs the others:
only a file that is apart can be written without a reader noticing, and only one
that has progressed may be named. `VerifiedAlwaysReadable` adds
`OursOnceReplaced`: while a helper verifies what it saved, the name leads to
nothing or to a record, never back to something older that nobody can read; so
owner, group and mode are enough to know that what is there loads. In the
refinement proof `Replace`, `Unlink` and `Open` are the steps that take effect;
every other step maps to a stutter, to a wish, or, where a load fails, to the
register's `Forget`; and that a read answers what was opened follows from
`TempsApart` (a file somebody has open is never reused).

*Window.* `OneOperation` needs `ReleaseExpected`: a release in the queue finds
the buttons off, so it can only be the last operation's own. `StatusCurrent`
needs `RefreshComing`: while the line differs from the record, a refresh is
queued or a thread has yet to post one, and the record is read when the callback
runs.

*Form.* `OneCountdown`: the timer the window holds is the only one pending, and
ticks shown and ticks left add up to the whole countdown, which gives both
`ClearTextTimed` and `NeverHiddenEarly`. `FieldOfMethod`: a file dialog is open
only under the method it was opened for, so that what it returns belongs there.

*Requests to commands.* `ReadOnlyHonoured` and `FileSystemServed` follow from
the functions of `MountPlan`: whatever their number, the device chosen is the
least index of one that is recognised (`LeastNatural`, from the well-foundedness
of the naturals), and what a file system and a partition type are recognised as
(`KindsRecognised`) does not depend on the rest. Of the three commands
`hdiutil attach` takes no read-only flag: what it attaches is the file of
`dislocker-fuse`, which is read-only if the request is.
`SecretDelivered` needs the form as well: a field that starts as empty is empty,
and a path that can be expanded comes out absolute (`ExpandResolves`), so that
root's own resolution leaves it alone.

Only model-checked: liveness (`UnmountFinishes`, `StaleRecordHeals`,
`ClickAnswered`, `BusyEnds`, `ClearTextEnds`), which with its fairness is beyond
the prover; and, of course, that the properties of the violation runs fail.

## 6. Not modelled

* `disks.py`, `__main__.py`, `help_text.py`, the commit hooks and the shell
  scripts: no state of the running program, or text only. Of `deps.py` only what
  the tools found decide; the lookup along `PATH` and the trust in a tool's
  directories are path tests without state.
* Menus, help windows, the log pane and the disk list of the window.
* A thread that cannot be started (`threading.Thread.start` raising after
  `_set_busy(True)`) would leave the buttons off for good; `Gui` takes a start
  to succeed.
* `ensure_root_state_dir`, the quoting of the helper's command line, the state
  directory and log checks of the helper beyond their verdict.
* In the scan, a directory named like a module, and a change between the link
  test and the listing of one directory.
* `assert_mount_owner` is a failing mount in `Runner`.

## 7. Plan

Done: `Runner`, `LayerStack` and their proofs; `Elevation`, `ElevatedRunner` and
theirs, with the theorems on the record carried over to the composition;
`SessionFile` with `RecordRegister`; `Gui`; `MountPlan` and `Form`;
`SourceScan`; all with the proofs of section 5. Left: the safety halves of the
liveness properties (that in every state some step towards the end is possible),
stated as invariants, and what two overlapping operations still keep.
