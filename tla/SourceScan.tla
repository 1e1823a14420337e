----------------------------- MODULE SourceScan -----------------------------
(***************************************************************************)
(* The scan of the source tree before every elevation (elevate.py): root   *)
(* will import modules from there, so nothing in it may be writable for    *)
(* others.  os.walk lists directories and files names; each is looked at   *)
(* afterwards, one system call at a time, while the tree goes on changing  *)
(* (caches are purged, an editor saves, a checkout runs).                  *)
(*                                                                         *)
(* What is abstracted.  Names are fixed entries of a tree that come and    *)
(* go.  Modes are clean, writable (for group or world) or sealed (cannot   *)
(* be listed).  A link to a file is that file, as stat sees it.  A link    *)
(* test and the listing that follows are one step.                         *)
(***************************************************************************)
EXTENDS Integers, FiniteSets

CONSTANTS
  Entries,    \* names in the tree
  Top,        \* src_root
  Package,    \* package_dir
  Parent,     \* entry other than Top -> the directory it is in
  Modules,    \* names that end in .py, .pyc or .so
  Pruned,     \* _NON_CODE_DIRS and *.egg-info
  MaxChanges, \* changes during one scan (a bound)
  None

\* Everything above e, e included: the least set with e that has the parent of
\* each of its members.
ParentClosed(S) == \A e \in S \ {Top} : Parent[e] \in S
Path == [e \in Entries |->
  {d \in Entries : \A S \in SUBSET Entries : e \in S /\ ParentClosed(S) => d \in S}]

\* Directories are not named like modules: nothing imports from inside one.
ASSUME ScanConstants ==
  /\ Parent \in [Entries \ {Top} -> Entries \ Modules]
  /\ Top \in Entries \ (Modules \cup Pruned)
  /\ Package \in Entries \ (Modules \cup Pruned) /\ Package # Top /\ Parent[Package] = Top
  /\ Modules \cap Pruned = {}
  /\ MaxChanges \in Nat
  /\ None \notin Entries
  /\ \A e \in Entries : Top \in Path[e]

VARIABLES
  kind,    \* entry -> what it is
  mode,    \* entry -> its mode, or that of the link's target
  managed, \* is src_root a root-owned site-packages?
  pc,      \* where the scan is, or its verdict
  todo,    \* directories found and not yet listed
  current, \* the directory listed last
  files,   \* its names still to be looked at
  probe,   \* the name for which stat answered ENOENT
  touched, \* entries changed during the scan
  changes, \* how many changes there were
  excuse   \* has there been a reason to refuse?

tree == <<kind, mode, managed>>
history == <<touched, changes, excuse>>
scanVars == <<kind, mode, managed, pc, todo, current, files, probe, touched, changes, excuse>>

-----------------------------------------------------------------------------
(* Types and vocabulary *)

Kinds == {"gone", "file", "dangling", "dir", "dirlink"}
Modes == {"clean", "writable", "sealed"}
KindsOf(e) == IF e \in Modules THEN {"gone", "file", "dangling"} ELSE Kinds
ModesOf(k) ==
  CASE k \in {"gone", "dangling"} -> {"clean"}
    [] k \in {"file", "dirlink"} -> {"clean", "writable"}
    [] k = "dir" -> {"clean", "writable", "sealed"}

Children(d) == {e \in Entries \ {Top} : Parent[e] = d}
Verdicts == {"accepted", "refused"}

ScanTypeOK ==
  /\ kind \in [Entries -> Kinds] /\ mode \in [Entries -> Modes]
  /\ \A e \in Entries : kind[e] \in KindsOf(e) /\ mode[e] \in ModesOf(kind[e])
  /\ managed \in BOOLEAN /\ excuse \in BOOLEAN
  /\ pc \in {"top", "package", "descend", "dir", "files"} \cup Verdicts
  /\ todo \subseteq Entries \ (Modules \cup Pruned)
  /\ current \in Entries \cup {None}
  /\ pc \in {"dir", "files"} => current # None /\ files \subseteq Children(current)
  /\ pc \notin {"dir", "files"} \cup Verdicts => files = {} /\ probe = None
  /\ probe # None => probe \in files
  /\ touched \subseteq Entries /\ changes \in 0..MaxChanges

\* Does an import get to e without leaving the tree or entering a pruned part?
InScope(e) ==
  /\ kind[e] # "gone"
  /\ \A d \in Path[e] \ {e} : kind[d] = "dir"
  /\ \A d \in Path[e] : ~ (d \in Pruned /\ kind[d] = "dir")

\* What the scan is there to find: writable modules and directories, and what
\* cannot be looked into.
Unsafe(e) ==
  \/ e \in Modules /\ (mode[e] = "writable" \/ kind[e] = "dangling")
  \/ kind[e] = "dir" /\ mode[e] # "clean"
  \/ e \in {Top, Package} /\ kind[e] # "dir"

CleanTree ==
  /\ \A e \in Entries : InScope(e) => ~ Unsafe(e)
  /\ kind[Top] = "dir" /\ kind[Package] = "dir"

-----------------------------------------------------------------------------
(* Before the walk *)

Refuse == pc' = "refused" /\ UNCHANGED <<todo, current, files, probe>>

\* assert_safe_path_for_elevation: neither a link nor gone nor writable.
SafePath(e) == kind[e] \in {"dir", "file"} /\ mode[e] # "writable"

AssertSafeTop ==
  /\ pc = "top"
  /\ IF SafePath(Top)
     THEN pc' = "package" /\ UNCHANGED <<todo, current, files, probe>>
     ELSE Refuse
  /\ UNCHANGED <<tree, history>>

\* Then the scan begins, except for a root-owned site-packages.
AssertSafePackage ==
  /\ pc = "package"
  /\ \/ ~ SafePath(Package) /\ Refuse
     \/ SafePath(Package) /\ managed
          /\ pc' = "accepted" /\ UNCHANGED <<todo, current, files, probe>>
     \/ SafePath(Package) /\ ~ managed
          /\ pc' = "descend" /\ todo' = {Top} /\ UNCHANGED <<current, files, probe>>
  /\ UNCHANGED <<tree, history>>

-----------------------------------------------------------------------------
(* The walk *)

\* A directory that cannot be listed ends the scan (onerror).  The names in it
\* become directories to visit, pruned at once, and files; one that cannot be
\* classified passes for a file.
List(d) ==
  /\ d \in todo /\ pc = "descend"
  /\ kind[d] # "dirlink" \/ d = Top
  /\ IF kind[d] = "dir" /\ mode[d] # "sealed"
     THEN LET names == {e \in Children(d) : kind[e] # "gone"}
              dirs == {e \in names : kind[e] \in {"dir", "dirlink"}} IN
          \E misfiled \in SUBSET dirs :
            /\ pc' = IF d = Top THEN "files" ELSE "dir"
            /\ todo' = (todo \ {d}) \cup (dirs \ (misfiled \cup Pruned))
            /\ current' = d
            /\ files' = (names \ dirs) \cup misfiled
            /\ excuse' = (excuse \/ \E e \in misfiled : kind[e] = "dir")
            /\ UNCHANGED probe
     ELSE Refuse /\ UNCHANGED excuse
  /\ UNCHANGED <<tree, touched, changes>>

\* followlinks=False.
SkipLink(d) ==
  /\ d \in todo \ {Top} /\ pc = "descend"
  /\ kind[d] = "dirlink"
  /\ todo' = todo \ {d}
  /\ UNCHANGED <<pc, current, files, probe, tree, history>>

\* _check_dir_writable; src_root itself was checked before.
CheckDirWritable ==
  /\ pc = "dir"
  /\ IF kind[current] \in {"dir", "dirlink", "file"} /\ mode[current] # "writable"
     THEN pc' = "files" /\ UNCHANGED <<todo, current, files, probe>>
     ELSE Refuse
  /\ UNCHANGED <<tree, history>>

Passes(f) == files' = files \ {f} /\ probe' = None /\ UNCHANGED <<pc, todo, current>>
Probes(f) == probe' = f /\ UNCHANGED <<pc, todo, current, files>>

\* One module of _check_files_writable.
CheckModule(f) ==
  /\ pc = "files" /\ probe = None /\ f \in files \cap Modules
  /\ \/ kind[f] \in {"gone", "dangling"} /\ Probes(f)
     \/ kind[f] = "file" /\ mode[f] = "clean" /\ Passes(f)
     \/ kind[f] = "file" /\ mode[f] = "writable" /\ Refuse
  /\ UNCHANGED <<tree, history>>

\* Faulty: a name that is not a module's is of no interest.
CheckUnclassifiedNot(f) ==
  /\ pc = "files" /\ probe = None /\ f \in files \ Modules
  /\ Passes(f)
  /\ UNCHANGED <<tree, history>>

\* _check_unclassified_entry: lstat, for directories that passed for files.
CheckUnclassified(f) ==
  /\ pc = "files" /\ probe = None /\ f \in files \ Modules
  /\ \/ kind[f] = "gone" /\ Probes(f)
     \/ kind[f] = "dir" /\ Refuse
     \/ kind[f] \in {"file", "dangling", "dirlink"} /\ Passes(f)
  /\ UNCHANGED <<tree, history>>

\* Faulty: ENOENT refuses like any other error.
EntryVanishedRefuses ==
  /\ pc = "files" /\ probe # None
  /\ Refuse
  /\ UNCHANGED <<tree, history>>

\* _entry_vanished: lstat tells an entry that is gone from a dangling link.
EntryVanished ==
  /\ pc = "files" /\ probe # None
  /\ IF kind[probe] = "gone" THEN Passes(probe) ELSE Refuse
  /\ UNCHANGED <<tree, history>>

\* Faulty: the loop over the files is left at the first one.
NextDirectoryEarly ==
  /\ pc = "files" /\ probe = None
  /\ pc' = "descend"
  /\ UNCHANGED <<todo, current, files, probe, tree, history>>

NextDirectory ==
  /\ pc = "files" /\ files = {}
  /\ pc' = "descend"
  /\ UNCHANGED <<todo, current, files, probe, tree, history>>

Accept ==
  /\ pc = "descend" /\ todo = {}
  /\ pc' = "accepted"
  /\ UNCHANGED <<todo, current, files, probe, tree, history>>

\* Any other error of a call: no permission, an input/output error.
CallFails ==
  /\ pc \notin Verdicts
  /\ Refuse
  /\ excuse' = TRUE
  /\ UNCHANGED <<tree, touched, changes>>

-----------------------------------------------------------------------------
(* Changes meanwhile *)

Changes(e, k, m) ==
  /\ pc \notin Verdicts /\ changes < MaxChanges
  /\ kind' = [kind EXCEPT ![e] = k] /\ mode' = [mode EXCEPT ![e] = m]
  /\ touched' = touched \cup {e} /\ changes' = changes + 1
  /\ UNCHANGED <<managed, pc, todo, current, files, probe>>

Vanish(e) ==
  /\ e # Top /\ kind[e] # "gone"
  /\ \A c \in Children(e) : kind[c] = "gone"
  /\ Changes(e, "gone", "clean")
  /\ excuse' = (excuse \/ kind[e] \in {"dir", "dirlink"})

Appear(e) ==
  /\ e # Top /\ kind[e] = "gone" /\ kind[Parent[e]] = "dir"
  /\ \E k \in KindsOf(e) \ {"gone"} : \E m \in ModesOf(k) : Changes(e, k, m)
  /\ excuse' = TRUE

Chmod(e) ==
  /\ kind[e] # "gone"
  /\ \E m \in ModesOf(kind[e]) \ {mode[e]} : Changes(e, kind[e], m)
  /\ excuse' = TRUE

-----------------------------------------------------------------------------
(* The specification *)

ScanInit ==
  /\ kind \in {k \in [Entries -> Kinds] :
                 /\ \A e \in Entries : k[e] \in KindsOf(e)
                 /\ \A e \in Entries \ {Top} : k[e] # "gone" => k[Parent[e]] = "dir"
                 /\ k[Top] = "dir" /\ k[Package] = "dir"
                 /\ \A e \in Pruned : k[e] \in {"gone", "dir"}}
  /\ mode \in [Entries -> Modes]
  /\ \A e \in Entries : mode[e] \in ModesOf(kind[e])
  /\ managed \in BOOLEAN
  /\ pc = "top" /\ todo = {} /\ current = None /\ files = {} /\ probe = None
  /\ touched = {} /\ changes = 0
  /\ excuse = ~ CleanTree

Walk ==
  \/ \E d \in todo : List(d) \/ SkipLink(d)
  \/ CheckDirWritable
  \/ \E f \in files : CheckModule(f) \/ CheckUnclassified(f)
  \/ EntryVanished
  \/ NextDirectory
  \/ Accept

ScanNext ==
  \/ AssertSafeTop \/ AssertSafePackage
  \/ Walk
  \/ CallFails
  \/ \E e \in Entries : Vanish(e) \/ Appear(e) \/ Chmod(e)

ScanSpec == ScanInit /\ [][ScanNext]_scanVars

-----------------------------------------------------------------------------
(* Properties *)

\* What was unsafe before the scan and stayed so until its end is never
\* accepted, whatever came, went or was misread around it meanwhile.
StableUnsafeRefused ==
  pc = "accepted" /\ ~ managed =>
    \A e \in Entries : InScope(e) /\ Unsafe(e) => Path[e] \cap touched # {}

\* A clean tree is accepted although files vanish from it during the scan:
\* nothing is refused but for something unsafe, an entry that came or changed,
\* a directory that went or was misread, or a call that failed.
RefusedForReason == pc = "refused" => excuse

=============================================================================
