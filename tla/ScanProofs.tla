----------------------------- MODULE ScanProofs -----------------------------
(***************************************************************************)
(* For any source tree and any number of changes during the scan: what is  *)
(* unsafe and stays so is still ahead of the scan until it is found, and   *)
(* nothing is refused without a reason.                                    *)
(***************************************************************************)
EXTENDS SourceScan, TLAPS

\* Unsafe, within reach of an import, and unchanged since the scan began.
Culprit(e) == InScope(e) /\ Unsafe(e) /\ Path[e] \cap touched = {}

\* The scan has yet to come to e: a directory above it is to be listed, or
\* waits among the files as one that was not recognised, or e itself does.
Ahead(e) ==
  \/ \E d \in Path[e] : d \in todo \/ d \in files
  \/ pc = "dir" /\ current = e /\ mode[e] = "writable"

CulpritsAhead ==
  pc \in {"descend", "dir", "files"} => \A e \in Entries : Culprit(e) => Ahead(e)

\* src_root stays; package_dir was there; src_root was checked first.
RootsKept ==
  /\ kind[Top] = "dir"
  /\ kind[Package] = "dir" \/ Package \in touched
  /\ pc \notin {"top", "refused"} => mode[Top] # "writable" \/ Top \in touched

\* Without a reason to refuse the tree is clean, and every name the scan holds
\* is what it was taken for, unless it is a file that is gone.
Innocent ==
  ~ excuse =>
    /\ pc # "refused" /\ CleanTree
    /\ \A d \in todo : InScope(d) /\ kind[d] \in {"dir", "dirlink"}
    /\ pc \in {"dir", "files"} =>
         InScope(current) /\ kind[current] = "dir" /\ \A f \in files : kind[f] # "dir"
    /\ probe # None => kind[probe] = "gone"

-----------------------------------------------------------------------------
(* Paths *)

LEMMA OnPath ==
  ASSUME NEW e \in Entries
  PROVE  Path[e] \subseteq Entries /\ e \in Path[e]
BY DEF Path

LEMMA WithinClosed ==
  ASSUME NEW e \in Entries, NEW S \in SUBSET Entries, e \in S, ParentClosed(S)
  PROVE  Path[e] \subseteq S
BY DEF Path

LEMMA PathClosed ==
  ASSUME NEW e \in Entries
  PROVE  ParentClosed(Path[e])
<1> SUFFICES ASSUME NEW d \in Path[e] \ {Top}
             PROVE  Parent[d] \in Path[e]
  BY DEF ParentClosed
<1>1. d \in Entries /\ Parent[d] \in Entries
  BY OnPath, ScanConstants DEF ScanConstants
<1>2. ASSUME NEW S \in SUBSET Entries, e \in S, ParentClosed(S) PROVE Parent[d] \in S
  BY <1>2, WithinClosed DEF ParentClosed
<1> QED
  BY <1>1, <1>2 DEF Path

LEMMA PathOfTop == Path[Top] = {Top}
<1>1. Top \in Entries
  BY ScanConstants DEF ScanConstants
<1> QED
  BY <1>1, OnPath, WithinClosed DEF ParentClosed

\* The path of a name is the name and its directory's path.
LEMMA PathThrough ==
  ASSUME NEW e \in Entries \ {Top}
  PROVE  Parent[e] \in Entries /\ Path[e] \subseteq {e} \cup Path[Parent[e]]
<1> DEFINE d == Parent[e]
<1>1. d \in Entries
  BY ScanConstants DEF ScanConstants
<1>2. Path[d] \subseteq Entries /\ d \in Path[d] /\ ParentClosed(Path[d])
  BY <1>1, OnPath, PathClosed
<1>3. ParentClosed({e} \cup Path[d])
  BY <1>2 DEF ParentClosed
<1> QED
  BY <1>1, <1>2, <1>3, WithinClosed

\* Below every directory of a path, but the last, the path goes on.
LEMMA PathGoesOn ==
  ASSUME NEW e \in Entries, NEW d \in Path[e], d # e
  PROVE  \E c \in Path[e] : c \in Children(d)
<1> SUFFICES ASSUME \A c \in Path[e] \ {Top} : Parent[c] # d
             PROVE  FALSE
  BY OnPath DEF Children
<1> DEFINE S == Path[e] \ {d}
<1>1. S \in SUBSET Entries /\ e \in S
  BY OnPath
<1>2. ParentClosed(S)
  BY PathClosed DEF ParentClosed
<1>3. Path[e] \subseteq S
  BY <1>1, <1>2, WithinClosed
<1> QED
  BY <1>3

LEMMA DirectoriesAbove ==
  ASSUME NEW e \in Entries, NEW d \in Path[e], d # e
  PROVE  d \in Entries \ Modules
<1>1. PICK c \in Path[e] : c \in Children(d)
  BY PathGoesOn
<1> QED
  BY <1>1, ScanConstants DEF Children, ScanConstants

LEMMA Roots ==
  /\ Top \in Entries /\ Package \in Entries /\ Package # Top
  /\ Top \notin Modules \cup Pruned /\ Package \notin Modules \cup Pruned
  /\ \A e \in Entries : Top \in Path[e]
  /\ None \notin Entries
BY ScanConstants DEF ScanConstants

-----------------------------------------------------------------------------
(* Changes *)

\* What changing an entry of the tree amounts to.
Changed(e) ==
  /\ \E k \in KindsOf(e) : \E m \in ModesOf(k) :
       /\ kind' = [kind EXCEPT ![e] = k] /\ mode' = [mode EXCEPT ![e] = m]
       /\ e = Top => k = kind[Top]
       /\ excuse' \/ (k = "gone" /\ kind[e] \in {"file", "dangling"} /\ ~ excuse)
  /\ touched' = touched \cup {e} /\ changes' \in 0..MaxChanges
  /\ excuse => excuse'
  /\ excuse' \in BOOLEAN
  /\ pc \notin Verdicts
  /\ UNCHANGED <<managed, pc, todo, current, files, probe>>

LEMMA ChangedBy ==
  ASSUME ScanTypeOK, NEW e \in Entries, NEW k \in KindsOf(e), NEW m \in ModesOf(k),
         Changes(e, k, m), e = Top => k = kind[Top],
         excuse' \/ (k = "gone" /\ kind[e] \in {"file", "dangling"} /\ ~ excuse),
         excuse => excuse', excuse' \in BOOLEAN
  PROVE  Changed(e)
<1>1. changes' \in 0..MaxChanges
  BY ScanConstants DEF ScanTypeOK, Changes, ScanConstants
<1> QED
  BY <1>1 DEF Changes, Changed

LEMMA ChangeStep ==
  ASSUME ScanTypeOK, NEW e \in Entries, Vanish(e) \/ Appear(e) \/ Chmod(e)
  PROVE  Changed(e)
<1>1. kind[e] \in KindsOf(e) /\ kind[e] \in Kinds /\ excuse \in BOOLEAN
  BY DEF ScanTypeOK
<1>2. CASE Vanish(e)
  <2>1. "gone" \in KindsOf(e) /\ "clean" \in ModesOf("gone")
    BY DEF KindsOf, Kinds, ModesOf
  <2>2. /\ excuse' \in BOOLEAN /\ (excuse => excuse')
        /\ excuse' \/ (kind[e] \in {"file", "dangling"} /\ ~ excuse)
    BY <1>1, <1>2 DEF Vanish, Kinds
  <2>3. Changes(e, "gone", "clean") /\ e # Top
    BY <1>2 DEF Vanish
  <2> QED
    BY <2>1, <2>2, <2>3, ChangedBy
<1>3. CASE Appear(e)
  <2>1. PICK k \in KindsOf(e) : \E m \in ModesOf(k) : Changes(e, k, m)
    BY <1>3 DEF Appear
  <2>2. PICK m \in ModesOf(k) : Changes(e, k, m)
    BY <2>1
  <2>3. e # Top /\ excuse' = TRUE
    BY <1>3 DEF Appear
  <2> QED
    BY <2>2, <2>3, ChangedBy
<1>4. CASE Chmod(e)
  <2>1. PICK m \in ModesOf(kind[e]) : Changes(e, kind[e], m)
    BY <1>4 DEF Chmod
  <2>2. excuse' = TRUE
    BY <1>4 DEF Chmod
  <2> QED
    BY <1>1, <2>1, <2>2, ChangedBy
<1> QED
  BY <1>2, <1>3, <1>4

-----------------------------------------------------------------------------
(* Types *)

LEMMA ChangedType ==
  ASSUME ScanTypeOK, NEW e \in Entries, Changed(e)
  PROVE  ScanTypeOK'
<1>0. PICK k \in KindsOf(e) : \E m \in ModesOf(k) :
        kind' = [kind EXCEPT ![e] = k] /\ mode' = [mode EXCEPT ![e] = m]
  BY DEF Changed
<1>1. PICK m \in ModesOf(k) :
        kind' = [kind EXCEPT ![e] = k] /\ mode' = [mode EXCEPT ![e] = m]
  BY <1>0
<1>2. k \in Kinds /\ m \in Modes
  BY <1>1 DEF KindsOf, Kinds, ModesOf, Modes
<1>3. kind' \in [Entries -> Kinds] /\ mode' \in [Entries -> Modes]
  BY <1>1, <1>2 DEF ScanTypeOK
<1>4. \A x \in Entries : kind'[x] \in KindsOf(x) /\ mode'[x] \in ModesOf(kind'[x])
  BY <1>1 DEF ScanTypeOK
<1>5. touched' \subseteq Entries /\ changes' \in 0..MaxChanges /\ excuse' \in BOOLEAN
  BY DEF Changed, ScanTypeOK
<1> QED
  BY <1>3, <1>4, <1>5 DEF Changed, ScanTypeOK

\* The names in a directory, as they are sorted when it is listed.
LEMMA ListedType ==
  ASSUME ScanTypeOK, NEW d \in todo, List(d)
  PROVE  ScanTypeOK'
<1>1. d \in Entries /\ d # None
  BY ScanConstants DEF ScanTypeOK, ScanConstants
<1>2. \A e \in Entries : kind[e] \in {"dir", "dirlink"} => e \notin Modules
  BY DEF ScanTypeOK, KindsOf
<1>3. CASE kind[d] = "dir" /\ mode[d] # "sealed"
  <2> DEFINE names == {e \in Children(d) : kind[e] # "gone"}
             dirs == {e \in names : kind[e] \in {"dir", "dirlink"}}
  <2>1. PICK misfiled \in SUBSET dirs :
          /\ pc' = IF d = Top THEN "files" ELSE "dir"
          /\ todo' = (todo \ {d}) \cup (dirs \ (misfiled \cup Pruned))
          /\ current' = d
          /\ files' = (names \ dirs) \cup misfiled
          /\ excuse' = (excuse \/ \E e \in misfiled : kind[e] = "dir")
          /\ UNCHANGED probe
    BY <1>3 DEF List
  <2>2. dirs \subseteq Entries \ Modules
    BY <1>2 DEF Children
  <2>3. todo' \subseteq Entries \ (Modules \cup Pruned)
    BY <2>1, <2>2 DEF ScanTypeOK
  <2>4. files' \subseteq Children(d)
    BY <2>1
  <2>5. probe' = None /\ pc' \in {"dir", "files"} /\ excuse' \in BOOLEAN
    BY <2>1 DEF ScanTypeOK, List, Verdicts
  <2> QED
    BY <1>1, <2>1, <2>3, <2>4, <2>5 DEF List, ScanTypeOK, tree, Children
<1>4. CASE ~ (kind[d] = "dir" /\ mode[d] # "sealed")
  BY <1>4 DEF List, Refuse, ScanTypeOK, tree, Verdicts
<1> QED
  BY <1>3, <1>4

LEMMA ScanTypeStep ==
  ASSUME ScanTypeOK, [ScanNext]_scanVars
  PROVE  ScanTypeOK'
<1>1. CASE UNCHANGED scanVars
  BY <1>1 DEF scanVars, ScanTypeOK
<1>2. CASE AssertSafeTop
  BY <1>2 DEF AssertSafeTop, Refuse, tree, history, ScanTypeOK, Verdicts
<1>3. CASE AssertSafePackage
  BY <1>3, Roots DEF AssertSafePackage, Refuse, tree, history, ScanTypeOK, Verdicts
<1>4. ASSUME NEW d \in todo, SkipLink(d) PROVE ScanTypeOK'
  BY <1>4 DEF SkipLink, tree, history, ScanTypeOK
<1>5. CASE CheckDirWritable
  BY <1>5 DEF CheckDirWritable, Refuse, tree, history, ScanTypeOK, Verdicts
<1>6. ASSUME NEW f \in files, CheckModule(f) \/ CheckUnclassified(f) \/ (EntryVanished /\ f = probe)
      PROVE  ScanTypeOK'
  <2>1. pc = "files" /\ UNCHANGED <<tree, history>> /\ (Passes(f) \/ Probes(f) \/ Refuse)
    BY <1>6 DEF CheckModule, CheckUnclassified, EntryVanished
  <2> QED
    BY <1>6, <2>1 DEF Passes, Probes, Refuse, tree, history, ScanTypeOK, Verdicts
<1>7. CASE EntryVanished
  BY <1>6, <1>7 DEF EntryVanished, ScanTypeOK
<1>8. CASE NextDirectory
  BY <1>8 DEF NextDirectory, tree, history, ScanTypeOK, Verdicts
<1>9. CASE Accept
  BY <1>9 DEF Accept, tree, history, ScanTypeOK, Verdicts
<1>10. CASE CallFails
  BY <1>10 DEF CallFails, Refuse, tree, ScanTypeOK, Verdicts
<1> QED
  BY <1>1, <1>2, <1>3, <1>4, <1>5, <1>6, <1>7, <1>8, <1>9, <1>10, ListedType, ChangedType, ChangeStep
     DEF ScanNext, Walk

\* Whatever the tree: the scan holds directories to list, names of the
\* directory listed last, and one name that answered ENOENT at most.
THEOREM ScanTypeCorrect == ScanSpec => []ScanTypeOK
<1>1. ScanInit => ScanTypeOK
  BY ScanConstants DEF ScanInit, ScanTypeOK, ScanConstants, Verdicts
<1> QED
  BY <1>1, ScanTypeStep, PTL DEF ScanSpec

-----------------------------------------------------------------------------
(* The roots *)

LEMMA RootsStay ==
  ASSUME ScanTypeOK, RootsKept, [ScanNext]_scanVars
  PROVE  RootsKept'
<1>1. CASE UNCHANGED <<tree, touched>> /\ (pc \notin {"top", "refused"} \/ UNCHANGED pc \/ pc' = "refused")
  BY <1>1 DEF RootsKept, tree, ScanTypeOK
<1>2. CASE AssertSafeTop
  BY <1>2 DEF AssertSafeTop, SafePath, Refuse, tree, history, RootsKept
<1>3. CASE AssertSafePackage \/ Walk \/ CallFails \/ UNCHANGED scanVars
  <2>1. UNCHANGED <<tree, touched>> /\ (pc \notin {"top", "refused"} \/ UNCHANGED pc \/ pc' = "refused")
    BY <1>3 DEF AssertSafePackage, Walk, List, SkipLink, CheckDirWritable, CheckModule,
       CheckUnclassified, EntryVanished, NextDirectory, Accept, CallFails, Refuse, tree, history,
       scanVars
  <2> QED
    BY <1>1, <2>1
<1>4. ASSUME NEW e \in Entries, Changed(e) PROVE RootsKept'
  BY <1>4, Roots DEF Changed, RootsKept, ScanTypeOK
<1> QED
  BY <1>2, <1>3, <1>4, ChangeStep DEF ScanNext

-----------------------------------------------------------------------------
(* Nothing unsafe is passed by *)

\* What is a culprit after a step was one before.
LEMMA OldCulprits ==
  ASSUME ScanTypeOK, NEW x \in Entries, Changed(x), NEW e \in Entries, Culprit(e)'
  PROVE  Culprit(e) /\ mode'[e] = mode[e]
<1>1. \A d \in Path[e] : kind'[d] = kind[d] /\ mode'[d] = mode[d]
  BY OnPath DEF Changed, Culprit, ScanTypeOK
<1>2. e \in Path[e]
  BY OnPath
<1>3. Path[e] \cap touched = {}
  BY DEF Culprit, Changed
<1> QED
  BY <1>1, <1>2, <1>3 DEF Culprit, InScope, Unsafe

LEMMA SameCulprits ==
  ASSUME UNCHANGED <<tree, touched>>
  PROVE  \A e \in Entries : Culprit(e)' <=> Culprit(e)
BY DEF tree, Culprit, InScope, Unsafe

\* Directories above a culprit are there, those it is reached through; it is
\* a module that is writable or dangling, or a directory that is not clean.
LEMMA WhatCulpritsAre ==
  ASSUME ScanTypeOK, RootsKept, NEW e \in Entries, Culprit(e)
  PROVE  /\ \A d \in Path[e] \ {e} : kind[d] = "dir" /\ d \notin Modules \cup Pruned
         /\ \/ e \in Modules /\ (kind[e] = "dangling" \/ (kind[e] = "file" /\ mode[e] = "writable"))
            \/ kind[e] = "dir" /\ mode[e] # "clean" /\ e \notin Modules \cup Pruned
<1>1. ASSUME NEW d \in Path[e] \ {e} PROVE kind[d] = "dir" /\ d \notin Modules \cup Pruned
  BY DirectoriesAbove DEF Culprit, InScope
<1>2. e \in Path[e] /\ (e \in Pruned => kind[e] # "dir")
  BY OnPath DEF Culprit, InScope
<1>3. e \in {Top, Package} => kind[e] = "dir"
  BY <1>2, Roots DEF RootsKept, Culprit
<1>4. kind[e] \in KindsOf(e) /\ mode[e] \in ModesOf(kind[e]) /\ kind[e] # "gone"
  BY DEF ScanTypeOK, Culprit, InScope
<1>5. CASE e \in Modules
  BY <1>1, <1>3, <1>4, <1>5 DEF Culprit, Unsafe, KindsOf, ModesOf
<1>6. CASE e \notin Modules
  BY <1>1, <1>2, <1>3, <1>4, <1>6 DEF Culprit, Unsafe
<1> QED
  BY <1>5, <1>6

\* Listing a directory above a culprit, or the culprit, leaves it ahead.
LEMMA ListedAhead ==
  ASSUME ScanTypeOK, RootsKept, CulpritsAhead, NEW d \in todo, List(d), pc' # "refused",
         NEW e \in Entries, Culprit(e)
  PROVE  Ahead(e)'
<1> DEFINE names == {x \in Children(d) : kind[x] # "gone"}
           dirs == {x \in names : kind[x] \in {"dir", "dirlink"}}
<1>1. kind[d] = "dir" /\ mode[d] # "sealed"
  BY DEF List, Refuse
<1>2. PICK misfiled \in SUBSET dirs :
        /\ pc' = IF d = Top THEN "files" ELSE "dir"
        /\ todo' = (todo \ {d}) \cup (dirs \ (misfiled \cup Pruned))
        /\ current' = d
        /\ files' = (names \ dirs) \cup misfiled
  BY <1>1 DEF List
<1>3. PICK a \in Path[e] : a \in todo
  BY DEF CulpritsAhead, Ahead, List, ScanTypeOK, Verdicts
<1>4. CASE a # d
  BY <1>2, <1>3, <1>4 DEF Ahead
<1>5. CASE a = d /\ d # e
  <2>1. PICK c \in Path[e] : c \in Children(d)
    BY <1>5, PathGoesOn
  <2>2. kind[c] # "gone" /\ ~ (c \in Pruned /\ kind[c] = "dir")
    BY <2>1, WhatCulpritsAre DEF Culprit, InScope
  <2>3. kind[c] = "dirlink" => c \notin Path[e]
    BY WhatCulpritsAre
  <2>4. c \in files' \cup todo'
    BY <1>2, <2>1, <2>2, <2>3
  <2> QED
    BY <2>1, <2>4 DEF Ahead
<1>6. CASE d = e
  <2>1. mode[e] = "writable"
    BY <1>1, <1>6, WhatCulpritsAre DEF ScanTypeOK, Modes
  <2>2. e # Top
    BY <2>1, OnPath DEF RootsKept, Culprit, List
  <2>3. pc' = "dir" /\ current' = e /\ mode' = mode
    BY <1>2, <1>6, <2>2 DEF List, tree
  <2> QED
    BY <2>1, <2>3 DEF Ahead
<1> QED
  BY <1>4, <1>5, <1>6, <1>3

\* A name is passed only if it is not, and leads to, no culprit.
LEMMA PassedAhead ==
  ASSUME ScanTypeOK, RootsKept, NEW f \in files, Passes(f), UNCHANGED <<tree, touched>>,
         CheckModule(f) \/ CheckUnclassified(f) \/ (EntryVanished /\ f = probe),
         NEW e \in Entries, Culprit(e)
  PROVE  f \notin Path[e]
<1> SUFFICES ASSUME f \in Path[e]
             PROVE  FALSE
  OBVIOUS
<1>1. kind[f] # "gone" /\ (f # e => kind[f] = "dir" /\ f \notin Modules)
  BY WhatCulpritsAre DEF Culprit, InScope
<1>2. f = e => \/ f \in Modules /\ (kind[f] = "dangling" \/ mode[f] = "writable")
               \/ kind[f] = "dir" /\ f \notin Modules
  BY WhatCulpritsAre
<1>3. f \in files /\ f \notin files' /\ pc' = "files"
  BY DEF Passes, CheckModule, CheckUnclassified, EntryVanished
<1>4. CASE CheckModule(f)
  BY <1>1, <1>2, <1>3, <1>4 DEF CheckModule, Probes, Refuse
<1>5. CASE CheckUnclassified(f)
  BY <1>1, <1>2, <1>3, <1>5 DEF CheckUnclassified, Probes, Refuse
<1>6. CASE EntryVanished /\ f = probe
  BY <1>1, <1>3, <1>6 DEF EntryVanished, Refuse
<1> QED
  BY <1>4, <1>5, <1>6

LEMMA CulpritsStay ==
  ASSUME ScanTypeOK, RootsKept, RootsKept', CulpritsAhead, [ScanNext]_scanVars
  PROVE  CulpritsAhead'
<1> SUFFICES ASSUME pc' \in {"descend", "dir", "files"}, NEW e \in Entries, Culprit(e)'
             PROVE  Ahead(e)'
  BY DEF CulpritsAhead
<1>1. CASE UNCHANGED scanVars
  BY <1>1, SameCulprits DEF scanVars, tree, CulpritsAhead, Ahead
<1>2. CASE AssertSafeTop
  BY <1>2 DEF AssertSafeTop, Refuse
<1>3. CASE AssertSafePackage
  BY <1>3, Roots DEF AssertSafePackage, Refuse, Ahead
<1>4. ASSUME NEW d \in todo, List(d) PROVE Ahead(e)'
  <2>1. Culprit(e)
    BY <1>4, SameCulprits DEF List
  <2> QED
    BY <1>4, <2>1, ListedAhead
<1>5. ASSUME NEW d \in todo, SkipLink(d) PROVE Ahead(e)'
  <2>1. Culprit(e)
    BY <1>5, SameCulprits DEF SkipLink, history
  <2>2. d \notin Path[e]
    BY <1>5, <2>1, WhatCulpritsAre DEF SkipLink, ScanTypeOK
  <2> QED
    BY <1>5, <2>1, <2>2 DEF SkipLink, CulpritsAhead, Ahead
<1>6. CASE CheckDirWritable
  <2>1. Culprit(e) /\ pc = "dir" /\ pc' = "files" /\ mode[current] # "writable"
    BY <1>6, SameCulprits DEF CheckDirWritable, history, Refuse
  <2>2. UNCHANGED <<todo, files>>
    BY <1>6 DEF CheckDirWritable, Refuse
  <2> QED
    BY <2>1, <2>2 DEF CulpritsAhead, Ahead
<1>7. ASSUME NEW f \in files, CheckModule(f) \/ CheckUnclassified(f) \/ (EntryVanished /\ f = probe)
      PROVE  Ahead(e)'
  <2>1. /\ pc = "files" /\ UNCHANGED <<tree, touched>>
        /\ Passes(f) \/ Probes(f) \/ Refuse
    BY <1>7 DEF CheckModule, CheckUnclassified, EntryVanished, history
  <2>2. Culprit(e)
    BY <2>1, SameCulprits
  <2>3. CASE Passes(f)
    <3>1. f \notin Path[e]
      BY <1>7, <2>1, <2>2, <2>3, PassedAhead
    <3> QED
      BY <2>1, <2>2, <2>3, <3>1 DEF Passes, CulpritsAhead, Ahead
  <2> QED
    BY <2>1, <2>2, <2>3 DEF Probes, Refuse, CulpritsAhead, Ahead
<1>8. CASE EntryVanished
  BY <1>7, <1>8 DEF EntryVanished, ScanTypeOK
<1>9. CASE NextDirectory
  <2>1. Culprit(e)
    BY <1>9, SameCulprits DEF NextDirectory, history
  <2> QED
    BY <1>9, <2>1 DEF NextDirectory, CulpritsAhead, Ahead
<1>10. CASE Accept \/ CallFails
  BY <1>10 DEF Accept, CallFails, Refuse
<1>11. ASSUME NEW x \in Entries, Changed(x) PROVE Ahead(e)'
  <2>1. Culprit(e) /\ mode'[e] = mode[e]
    BY <1>11, OldCulprits
  <2> QED
    BY <1>11, <2>1 DEF Changed, CulpritsAhead, Ahead
<1> QED
  BY <1>1, <1>2, <1>3, <1>4, <1>5, <1>6, <1>7, <1>8, <1>9, <1>10, <1>11, ChangeStep
     DEF ScanNext, Walk

LEMMA NothingLeft ==
  ASSUME ScanTypeOK, RootsKept, CulpritsAhead, StableUnsafeRefused, [ScanNext]_scanVars
  PROVE  StableUnsafeRefused'
<1> SUFFICES ASSUME pc' = "accepted", ~ managed', NEW e \in Entries, Culprit(e)'
             PROVE  FALSE
  BY DEF StableUnsafeRefused, Culprit
<1>1. CASE UNCHANGED scanVars
  BY <1>1, SameCulprits DEF scanVars, tree, StableUnsafeRefused, Culprit
<1>2. CASE Accept
  <2>1. Culprit(e)
    BY <1>2, SameCulprits DEF Accept, history
  <2>2. todo = {} /\ files = {} /\ pc = "descend"
    BY <1>2 DEF Accept, ScanTypeOK, Verdicts
  <2> QED
    BY <2>1, <2>2 DEF CulpritsAhead, Ahead
<1>3. CASE AssertSafeTop \/ AssertSafePackage \/ CallFails
  BY <1>3 DEF AssertSafeTop, AssertSafePackage, CallFails, Refuse, tree
<1>4. CASE Walk /\ ~ Accept
  BY <1>4 DEF Walk, List, SkipLink, CheckDirWritable, CheckModule, CheckUnclassified,
     EntryVanished, NextDirectory, Passes, Probes, Refuse
<1>5. ASSUME NEW x \in Entries, Changed(x) PROVE FALSE
  BY <1>5 DEF Changed, Verdicts
<1> QED
  BY <1>1, <1>2, <1>3, <1>4, <1>5, ChangeStep DEF ScanNext

\* Whatever comes, goes or is misread anywhere in a tree of any shape: the scan
\* of elevate.py never accepts what was unsafe throughout.
THEOREM StableUnsafeAlwaysRefused == ScanSpec => []StableUnsafeRefused
<1>1. ScanInit => RootsKept /\ CulpritsAhead /\ StableUnsafeRefused
  BY DEF ScanInit, RootsKept, CulpritsAhead, StableUnsafeRefused
<1>2. ScanTypeOK /\ RootsKept /\ CulpritsAhead /\ StableUnsafeRefused /\ [ScanNext]_scanVars
        => RootsKept' /\ CulpritsAhead' /\ StableUnsafeRefused'
  BY RootsStay, CulpritsStay, NothingLeft
<1> QED
  BY <1>1, <1>2, ScanTypeCorrect, PTL DEF ScanSpec

-----------------------------------------------------------------------------
(* Nothing is refused without a reason *)

\* From a directory in scope an import gets to what is in it.
LEMMA ScopeGoesOn ==
  ASSUME NEW d \in Entries, InScope(d), kind[d] = "dir", NEW c \in Children(d),
         kind[c] # "gone", c \in Pruned => kind[c] # "dir"
  PROVE  InScope(c)
<1>1. c \in Entries \ {Top} /\ Parent[c] = d
  BY DEF Children
<1>2. Path[c] \subseteq {c} \cup Path[d]
  BY <1>1, PathThrough
<1> QED
  BY <1>2 DEF InScope

\* In a clean tree a module that is not gone is clean.
LEMMA CleanModules ==
  ASSUME ScanTypeOK, Innocent, ~ excuse, pc = "files", NEW f \in files, f \in Modules
  PROVE  kind[f] = "gone" \/ (kind[f] = "file" /\ mode[f] # "writable")
<1> SUFFICES ASSUME kind[f] # "gone"
             PROVE  kind[f] = "file" /\ mode[f] # "writable"
  OBVIOUS
<1>1. InScope(current) /\ kind[current] = "dir" /\ current \in Entries /\ f \in Children(current)
  BY DEF Innocent, ScanTypeOK
<1>2. kind[f] \in {"file", "dangling"} /\ f \in Entries
  BY <1>1 DEF ScanTypeOK, KindsOf, Children
<1>3. InScope(f)
  BY <1>1, <1>2, ScopeGoesOn
<1> QED
  BY <1>2, <1>3 DEF Innocent, CleanTree, Unsafe

\* Without an excuse, a change is that a file goes, which spoils nothing.
LEMMA HarmlessChange ==
  ASSUME ScanTypeOK, Innocent, NEW x \in Entries, Changed(x), ~ excuse'
  PROVE  Innocent'
<1>1. /\ ~ excuse /\ kind[x] \in {"file", "dangling"}
      /\ \A e \in Entries : kind'[e] = IF e = x THEN "gone" ELSE kind[e]
      /\ \A e \in Entries : e # x => mode'[e] = mode[e]
  BY DEF Changed, ScanTypeOK
<1>2. /\ UNCHANGED <<pc, todo, current, files, probe>>
      /\ todo \subseteq Entries /\ current \in Entries \cup {None}
      /\ probe # None => probe \in Entries
  BY DEF Changed, ScanTypeOK, Children, Verdicts
<1>3. ASSUME NEW e \in Entries, InScope(e)' PROVE InScope(e) /\ e # x
  <2>1. \A d \in Path[e] : kind'[d] = IF d = x THEN "gone" ELSE kind[d]
    BY <1>1, OnPath
  <2>2. e \in Path[e]
    BY OnPath
  <2> QED
    BY <1>1, <1>3, <2>1, <2>2 DEF InScope
<1>4. ASSUME NEW e \in Entries, InScope(e), kind[e] \in {"dir", "dirlink"}
      PROVE  InScope(e)' /\ kind'[e] = kind[e]
  <2>1. \A d \in Path[e] : kind'[d] = kind[d]
    BY <1>1, <1>4, OnPath DEF InScope
  <2>2. e \in Path[e]
    BY OnPath
  <2> QED
    BY <1>4, <2>1, <2>2 DEF InScope
<1>5. CleanTree'
  <2>1. ASSUME NEW e \in Entries, InScope(e)' PROVE ~ Unsafe(e)'
    BY <1>1, <1>3, <2>1 DEF Innocent, CleanTree, Unsafe
  <2>2. kind'[Top] = "dir" /\ kind'[Package] = "dir"
    BY <1>1, Roots DEF Innocent, CleanTree
  <2> QED
    BY <2>1, <2>2 DEF CleanTree
<1>6. pc # "refused" /\ (probe # None => kind'[probe] = "gone")
  BY <1>1, <1>2 DEF Innocent
<1>7. \A d \in todo : InScope(d)' /\ kind'[d] \in {"dir", "dirlink"}
  BY <1>1, <1>2, <1>4 DEF Innocent
<1>8. pc \in {"dir", "files"} =>
        InScope(current)' /\ kind'[current] = "dir" /\ \A f \in files : kind'[f] # "dir"
  <2> SUFFICES ASSUME pc \in {"dir", "files"}
               PROVE  InScope(current)' /\ kind'[current] = "dir" /\ \A f \in files : kind'[f] # "dir"
    OBVIOUS
  <2>1. current \in Entries /\ files \subseteq Entries
    BY DEF ScanTypeOK, Children
  <2>2. PICK d \in Entries : d = current
    BY <2>1
  <2>3. InScope(d)' /\ kind'[d] = "dir"
    BY <1>1, <1>4, <2>2 DEF Innocent
  <2>4. InScope(current)' /\ kind'[current] = "dir"
    BY <1>2, <2>2, <2>3 DEF InScope
  <2>5. \A f \in files : kind'[f] # "dir"
    BY <1>1, <2>1 DEF Innocent
  <2> QED
    BY <2>4, <2>5
<1> QED
  BY <1>2, <1>5, <1>6, <1>7, <1>8 DEF Innocent

\* Listing a directory of a clean tree succeeds, and sorts its names rightly.
LEMMA ListedInnocent ==
  ASSUME ScanTypeOK, Innocent, NEW d \in todo, List(d), ~ excuse'
  PROVE  Innocent'
<1> DEFINE names == {x \in Children(d) : kind[x] # "gone"}
           dirs == {x \in names : kind[x] \in {"dir", "dirlink"}}
<1>1. ~ excuse
  BY DEF List
<1>2. d \in Entries /\ InScope(d) /\ kind[d] \in {"dir", "dirlink"} /\ kind[Top] = "dir"
  BY <1>1 DEF Innocent, CleanTree, ScanTypeOK
<1>3. kind[d] = "dir" /\ mode[d] = "clean"
  BY <1>1, <1>2 DEF List, Innocent, CleanTree, Unsafe
<1>4. PICK misfiled \in SUBSET dirs :
        /\ pc' = IF d = Top THEN "files" ELSE "dir"
        /\ todo' = (todo \ {d}) \cup (dirs \ (misfiled \cup Pruned))
        /\ current' = d
        /\ files' = (names \ dirs) \cup misfiled
        /\ excuse' = (excuse \/ \E e \in misfiled : kind[e] = "dir")
        /\ UNCHANGED probe
  BY <1>3 DEF List
<1>5. UNCHANGED <<kind, mode>>
  BY DEF List, tree
<1>6. \A e \in todo' : InScope(e) /\ kind[e] \in {"dir", "dirlink"}
  BY <1>1, <1>2, <1>3, <1>4, ScopeGoesOn DEF Innocent
<1>7. \A f \in files' : kind[f] # "dir"
  BY <1>4
<1>8. CleanTree /\ pc' # "refused" /\ probe' = None
  BY <1>1, <1>4 DEF Innocent, List, ScanTypeOK, Verdicts
<1> QED
  BY <1>2, <1>3, <1>4, <1>5, <1>6, <1>7, <1>8 DEF Innocent, CleanTree, InScope, Unsafe

LEMMA InnocentStays ==
  ASSUME ScanTypeOK, RootsKept, Innocent, [ScanNext]_scanVars
  PROVE  Innocent'
<1> SUFFICES ASSUME ~ excuse'
             PROVE  Innocent'
  BY DEF Innocent
<1> DEFINE Kept == /\ UNCHANGED <<tree, excuse>> /\ pc' # "refused"
                   /\ todo' \subseteq todo
                   /\ pc' \in {"dir", "files"} =>
                        pc \in {"dir", "files"} /\ current' = current /\ files' \subseteq files
                   /\ probe' # None => kind[probe'] = "gone"
<1>1. ASSUME Kept PROVE Innocent'
  <2>1. ~ excuse /\ UNCHANGED <<kind, mode>>
    BY <1>1 DEF tree
  <2> QED
    BY <1>1, <2>1 DEF Innocent, CleanTree, InScope, Unsafe
<1>2. CASE UNCHANGED scanVars
  BY <1>1, <1>2 DEF scanVars, tree, Innocent
<1>3. CASE AssertSafeTop
  <2>1. ~ excuse /\ kind[Top] = "dir" /\ mode[Top] # "writable"
    <3>1. InScope(Top)
      BY <1>3, PathOfTop, Roots DEF AssertSafeTop, history, InScope, RootsKept
    <3> QED
      BY <1>3, <3>1, Roots DEF AssertSafeTop, history, RootsKept, Innocent, CleanTree, Unsafe
  <2> QED
    BY <1>1, <1>3, <2>1 DEF AssertSafeTop, SafePath, tree, history, Innocent
<1>4. CASE AssertSafePackage
  <2>1. ~ excuse /\ kind[Package] = "dir" /\ kind[Top] = "dir" /\ InScope(Top)
    BY <1>4, PathOfTop, Roots DEF AssertSafePackage, history, Innocent, CleanTree, InScope
  <2>2. Package \in Children(Top)
    BY ScanConstants DEF ScanConstants, Children
  <2>3. mode[Package] # "writable"
    BY <2>1, <2>2, Roots, ScopeGoesOn DEF Innocent, CleanTree, Unsafe
  <2>4. SafePath(Package)
    BY <2>1, <2>3 DEF SafePath
  <2>5. CASE managed
    BY <1>1, <1>4, <2>1, <2>4, <2>5 DEF AssertSafePackage, tree, history, Innocent
  <2>6. CASE ~ managed
    <3>1. /\ pc' = "descend" /\ todo' = {Top} /\ UNCHANGED <<current, files, probe, excuse>>
          /\ UNCHANGED <<kind, mode>>
      BY <1>4, <2>4, <2>6 DEF AssertSafePackage, tree, history
    <3> QED
      BY <2>1, <3>1 DEF Innocent, CleanTree, InScope, Unsafe
  <2> QED
    BY <2>5, <2>6
<1>5. ASSUME NEW d \in todo, List(d) PROVE Innocent'
  BY <1>5, ListedInnocent
<1>6. ASSUME NEW d \in todo, SkipLink(d) PROVE Innocent'
  BY <1>1, <1>6 DEF SkipLink, tree, history, Innocent
<1>7. CASE CheckDirWritable
  <2>1. ~ excuse /\ InScope(current) /\ kind[current] = "dir" /\ current \in Entries
    BY <1>7 DEF CheckDirWritable, history, Innocent, ScanTypeOK
  <2>2. mode[current] # "writable"
    BY <2>1 DEF Innocent, CleanTree, Unsafe
  <2> QED
    BY <1>1, <1>7, <2>1, <2>2 DEF CheckDirWritable, tree, history, Innocent
<1>8. ASSUME NEW f \in files, CheckModule(f) PROVE Innocent'
  <2>1. ~ excuse /\ pc = "files" /\ f \in Modules
    BY <1>8 DEF CheckModule, history
  <2>2. kind[f] = "gone" \/ (kind[f] = "file" /\ mode[f] # "writable")
    BY <2>1, CleanModules
  <2>3. UNCHANGED <<tree, excuse>> /\ (Passes(f) \/ (Probes(f) /\ kind[f] = "gone"))
    BY <1>8, <2>2 DEF CheckModule, history
  <2> QED
    BY <1>1, <2>1, <2>3 DEF Passes, Probes
<1>9. ASSUME NEW f \in files, CheckUnclassified(f) PROVE Innocent'
  <2>1. ~ excuse /\ pc = "files" /\ kind[f] # "dir"
    BY <1>9 DEF CheckUnclassified, history, Innocent
  <2>2. UNCHANGED <<tree, excuse>> /\ (Passes(f) \/ (Probes(f) /\ kind[f] = "gone"))
    BY <1>9, <2>1 DEF CheckUnclassified, history
  <2> QED
    BY <1>1, <2>1, <2>2 DEF Passes, Probes
<1>10. CASE EntryVanished
  <2>1. ~ excuse /\ pc = "files" /\ kind[probe] = "gone"
    BY <1>10 DEF EntryVanished, history, Innocent
  <2>2. UNCHANGED <<tree, excuse>> /\ Passes(probe)
    BY <1>10, <2>1 DEF EntryVanished, history
  <2> QED
    BY <1>1, <2>1, <2>2 DEF Passes
<1>11. CASE NextDirectory \/ Accept
  BY <1>1, <1>11 DEF NextDirectory, Accept, tree, history, Innocent
<1>12. ~ CallFails
  BY DEF CallFails
<1>13. ASSUME NEW e \in Entries, Changed(e) PROVE Innocent'
  BY <1>13, HarmlessChange
<1> QED
  BY <1>2, <1>3, <1>4, <1>5, <1>6, <1>7, <1>8, <1>9, <1>10, <1>11, <1>12, <1>13, ChangeStep
     DEF ScanNext, Walk

\* Whatever files vanish under it, in a tree of any shape: the scan refuses
\* only for something unsafe, an entry that came or changed, a directory that
\* went or was misread, or a call that failed.
THEOREM RefusedAlwaysForReason == ScanSpec => []RefusedForReason
<1>1. ScanInit => RootsKept /\ Innocent
  BY DEF ScanInit, RootsKept, Innocent
<1>2. ScanTypeOK /\ RootsKept /\ Innocent /\ [ScanNext]_scanVars => RootsKept' /\ Innocent'
  BY RootsStay, InnocentStays
<1>3. ScanTypeOK /\ Innocent => RefusedForReason
  BY DEF Innocent, RefusedForReason
<1> QED
  BY <1>1, <1>2, <1>3, ScanTypeCorrect, PTL DEF ScanSpec

=============================================================================
