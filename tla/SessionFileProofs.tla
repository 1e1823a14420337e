-------------------------- MODULE SessionFileProofs --------------------------
(***************************************************************************)
(* For any number of writers, readers, files and records, whatever fails,  *)
(* dies or loses its power: no half-written record ever stands under the   *)
(* session file's name, and the file implements the register its readers   *)
(* rely on.                                                                *)
(***************************************************************************)
EXTENDS SessionFile, TLAPS

\* A file that save_session still works on.
HasTemp(w) == writer[w].pc \in Saving \cup {"cleanup"}

\* Temporary files are nobody else's: not the name's, now or after a power
\* loss, not a reader's, not another writer's.
TempsApart ==
  /\ entry \in onDisk
  /\ temps \cap onDisk = {}
  /\ \A r \in Readers : reader[r].pc = "opened" => reader[r].file \in Inodes \ temps
  /\ \A w \in Writers : HasTemp(w) => writer[w].file \in temps /\ writer[w].record \in Records
  /\ \A v, w \in Writers : HasTemp(v) /\ HasTemp(w) /\ writer[v].file = writer[w].file => v = w

\* What save_session has done to its file when it gets to a step.
Progress ==
  \A w \in Writers :
    LET f == inode[writer[w].file] IN
    /\ writer[w].pc \in {"stamped", "partial", "written", "synced"} => f.stamped
    /\ writer[w].pc \in {"written", "synced"} => f.text = writer[w].record
    /\ writer[w].pc = "synced" => f.synced

\* What the name leads to was finished and synced before it got the name.
NamedWhole ==
  \A i \in onDisk \ {None} :
    /\ inode[i].synced
    /\ inode[i].text = "foreign" \/ (inode[i].text \in Records /\ inode[i].stamped)

FileInvariant == TempsApart /\ Progress /\ NamedWhole

-----------------------------------------------------------------------------
(* Types *)

LEMMA LocalTypes ==
  ASSUME SessionTypeOK
  PROVE  /\ \A w \in Writers : writer[w] \in WriterState
         /\ \A r \in Readers : reader[r] \in ReaderState
         /\ \A i \in Inodes : inode[i] \in File
         /\ Blank \in File /\ IdleWriter \in WriterState /\ IdleReader \in ReaderState
BY DEF SessionTypeOK, Blank, File, Junk, IdleWriter, WriterState, IdleReader, ReaderState

LEMMA SessionTypeStep ==
  ASSUME SessionTypeOK, TempsApart, SessionNext
  PROVE  SessionTypeOK'
<1>1. ASSUME NEW w \in Writers, HasTemp(w)
      PROVE  writer[w].file \in Inodes /\ inode[writer[w].file] \in File
  BY <1>1, LocalTypes DEF SessionTypeOK, TempsApart
<1>2. ASSUME NEW w \in Writers, NEW pc \in {"idle", "stamped", "partial", "written", "synced",
               "cleanup", "clearing", "verify", "verified", "unverified"},
             Goes(w, pc)
      PROVE  writer' \in [Writers -> WriterState]
  <2>1. [writer[w] EXCEPT !.pc = pc] \in WriterState
    BY LocalTypes DEF WriterState
  <2> QED
    BY <1>2, <2>1 DEF Goes, SessionTypeOK
<1>3. ASSUME NEW w \in Writers, NEW i \in Inodes, NEW v \in Records, MakeTemp(w, i, v)
      PROVE  SessionTypeOK'
  <2>1. [pc |-> "made", file |-> i, record |-> v] \in WriterState
    BY DEF WriterState
  <2> QED
    BY <1>3, <2>1, LocalTypes DEF MakeTemp, SessionTypeOK
<1>4. ASSUME NEW w \in Writers, Stamp(w) PROVE SessionTypeOK'
  <2>1. HasTemp(w)
    BY <1>4 DEF Stamp, At, HasTemp, Saving
  <2>2. [inode[writer[w].file] EXCEPT !.stamped = TRUE] \in File
    BY <1>1, <2>1 DEF File
  <2> QED
    BY <1>2, <1>4, <2>2 DEF Stamp, SessionTypeOK
<1>5. ASSUME NEW w \in Writers, WritePart(w) PROVE SessionTypeOK'
  <2>1. HasTemp(w)
    BY <1>5 DEF WritePart, At, HasTemp, Saving
  <2>2. [inode[writer[w].file] EXCEPT !.text = "torn"] \in File
    BY <1>1, <2>1 DEF File, Junk
  <2> QED
    BY <1>2, <1>5, <2>2 DEF WritePart, SessionTypeOK
<1>6. ASSUME NEW w \in Writers, WriteRest(w) PROVE SessionTypeOK'
  <2>1. HasTemp(w)
    BY <1>6 DEF WriteRest, At, HasTemp, Saving
  <2>2. [inode[writer[w].file] EXCEPT !.text = writer[w].record] \in File
    BY <1>1, <2>1 DEF File, TempsApart
  <2> QED
    BY <1>2, <1>6, <2>2 DEF WriteRest, SessionTypeOK
<1>7. ASSUME NEW w \in Writers, Sync(w) PROVE SessionTypeOK'
  <2>1. HasTemp(w)
    BY <1>7 DEF Sync, At, HasTemp, Saving
  <2>2. [inode[writer[w].file] EXCEPT !.synced = TRUE] \in File
    BY <1>1, <2>1 DEF File
  <2> QED
    BY <1>2, <1>7, <2>2 DEF Sync, SessionTypeOK
<1>8. ASSUME NEW w \in Writers, Replace(w) PROVE SessionTypeOK'
  <2>1. writer[w].file \in Inodes
    BY <1>1, <1>8 DEF Replace, At, HasTemp, Saving
  <2>2. [IdleWriter EXCEPT !.pc = "verify"] \in WriterState
    BY LocalTypes DEF WriterState
  <2> QED
    BY <1>8, <2>1, <2>2 DEF Replace, SessionTypeOK
<1>9. ASSUME NEW w \in Writers, SaveFails(w) \/ Verify(w) \/ Report(w) \/ Clear(w) PROVE SessionTypeOK'
  <2>1. writer' \in [Writers -> WriterState]
    BY <1>2, <1>9 DEF SaveFails, Verify, Report, Clear
  <2> QED
    BY <1>9, <2>1 DEF SaveFails, Verify, Report, Clear, SessionTypeOK
<1>10. ASSUME NEW w \in Writers, Cleanup(w) \/ WriterDies(w) PROVE SessionTypeOK'
  BY <1>10, LocalTypes DEF Cleanup, WriterDies, SessionTypeOK
<1>11. ASSUME NEW w \in Writers, Unlink(w) PROVE SessionTypeOK'
  <2>1. writer' \in [Writers -> WriterState]
    BY <1>2, <1>11 DEF Unlink
  <2> QED
    BY <1>11, <2>1 DEF Unlink, SessionTypeOK
<1>12. ASSUME NEW r \in Readers, Open(r) PROVE SessionTypeOK'
  <2>1. [pc |-> "opened", file |-> entry, answer |-> None] \in ReaderState
    BY DEF ReaderState, SessionTypeOK
  <2> QED
    BY <1>12, <2>1, LocalTypes DEF Open, SessionTypeOK
<1>13. ASSUME NEW r \in Readers, Read(r) PROVE SessionTypeOK'
  <2>1. Content(reader[r].file) \in Records \cup {None}
    BY DEF Content
  <2>2. \A v \in {Content(reader[r].file), None} : [IdleReader EXCEPT !.answer = v] \in ReaderState
    BY <2>1, LocalTypes DEF ReaderState
  <2> QED
    BY <1>13, <2>2 DEF Read, SessionTypeOK
<1>14. ASSUME NEW r \in Readers, ReaderDies(r) PROVE SessionTypeOK'
  BY <1>14, LocalTypes DEF ReaderDies, SessionTypeOK
<1>15. ASSUME WriteBack PROVE SessionTypeOK'
  BY <1>15 DEF WriteBack, SessionTypeOK
<1>16. ASSUME PowerLoss PROVE SessionTypeOK'
  <2>1. inode' \in [Inodes -> File]
    BY <1>16, LocalTypes DEF PowerLoss, SessionTypeOK
  <2>2. writer' \in [Writers -> WriterState] /\ reader' \in [Readers -> ReaderState]
    BY <1>16, LocalTypes DEF PowerLoss
  <2> QED
    BY <1>16, <2>1, <2>2 DEF PowerLoss, SessionTypeOK
<1> QED
  BY <1>3, <1>4, <1>5, <1>6, <1>7, <1>8, <1>9, <1>10, <1>11, <1>12, <1>13, <1>14, <1>15, <1>16
     DEF SessionNext, Save

-----------------------------------------------------------------------------
(* Files *)

\* A writer that only moves on, its file and record kept.
LEMMA Moves ==
  ASSUME SessionTypeOK, NEW w \in Writers, NEW pc, Goes(w, pc)
  PROVE  /\ \A v \in Writers : v # w => writer'[v] = writer[v]
         /\ writer'[w].pc = pc
         /\ \A v \in Writers : writer'[v].file = writer[v].file
                               /\ writer'[v].record = writer[v].record
<1>1. \A v \in Writers : v # w => writer'[v] = writer[v]
  BY DEF Goes, SessionTypeOK
<1>2. writer'[w] = [writer[w] EXCEPT !.pc = pc]
  BY DEF Goes, SessionTypeOK
<1>3. writer'[w].pc = pc /\ writer'[w].file = writer[w].file /\ writer'[w].record = writer[w].record
  BY <1>2, LocalTypes DEF WriterState
<1> QED
  BY <1>1, <1>3

\* save_session changes no file but its own temporary one.
LEMMA WorkKeeps ==
  ASSUME SessionTypeOK, FileInvariant, NEW w \in Writers,
         Stamp(w) \/ WritePart(w) \/ WriteRest(w) \/ Sync(w)
  PROVE  /\ HasTemp(w) /\ writer[w].file \in temps
         /\ \A i \in Inodes : i # writer[w].file => inode'[i] = inode[i]
         /\ UNCHANGED <<entry, onDisk, temps, reader>>
         /\ \A v \in Writers : HasTemp(v)' <=> HasTemp(v)
<1>1. HasTemp(w)
  BY DEF Stamp, WritePart, WriteRest, Sync, At, HasTemp, Saving
<1>2. writer[w].file \in temps
  BY <1>1 DEF FileInvariant, TempsApart
<1>3. \A i \in Inodes : i # writer[w].file => inode'[i] = inode[i]
  BY DEF Stamp, WritePart, WriteRest, Sync, SessionTypeOK
<1>4. UNCHANGED <<entry, onDisk, temps, reader>>
  BY DEF Stamp, WritePart, WriteRest, Sync
<1>5. \A v \in Writers : v # w => writer'[v] = writer[v]
  BY Moves DEF Stamp, WritePart, WriteRest, Sync
<1>6. writer'[w].pc \in Saving
  BY Moves DEF Stamp, WritePart, WriteRest, Sync, Saving
<1>7. \A v \in Writers : HasTemp(v)' <=> HasTemp(v)
  BY <1>1, <1>5, <1>6 DEF HasTemp
<1> QED
  BY <1>1, <1>2, <1>3, <1>4, <1>7

LEMMA WorkSafe ==
  ASSUME SessionTypeOK, FileInvariant, NEW w \in Writers,
         Stamp(w) \/ WritePart(w) \/ WriteRest(w) \/ Sync(w)
  PROVE  FileInvariant'
<1> DEFINE f == writer[w].file
<1>0. f \in Inodes /\ f \in temps
  BY WorkKeeps DEF SessionTypeOK
<1>1. /\ \A v \in Writers : v # w => writer'[v] = writer[v]
      /\ \A v \in Writers : writer'[v].file = writer[v].file /\ writer'[v].record = writer[v].record
  BY Moves DEF Stamp, WritePart, WriteRest, Sync
<1>2. TempsApart'
  BY <1>1, WorkKeeps DEF FileInvariant, TempsApart
<1>3. NamedWhole'
  <2>1. ASSUME NEW i \in onDisk \ {None} PROVE i \in Inodes /\ inode'[i] = inode[i]
    BY <2>1, WorkKeeps DEF FileInvariant, TempsApart, SessionTypeOK
  <2> QED
    BY <2>1, WorkKeeps DEF FileInvariant, NamedWhole
<1>4. Progress'
  <2>1. ASSUME NEW v \in Writers, v # w,
               writer[v].pc \in {"stamped", "partial", "written", "synced"}
        PROVE  inode'[writer[v].file] = inode[writer[v].file]
    <3>1. HasTemp(v) /\ HasTemp(w)
      BY <2>1, WorkKeeps DEF HasTemp, Saving
    <3>2. writer[v].file \in Inodes /\ writer[v].file # f
      BY <2>1, <3>1 DEF FileInvariant, TempsApart, SessionTypeOK
    <3> QED
      BY <3>2, WorkKeeps
  <2>2. ASSUME NEW v \in Writers, v # w
        PROVE  LET g == inode'[writer'[v].file] IN
               /\ writer'[v].pc \in {"stamped", "partial", "written", "synced"} => g.stamped
               /\ writer'[v].pc \in {"written", "synced"} => g.text = writer'[v].record
               /\ writer'[v].pc = "synced" => g.synced
    BY <1>1, <2>1, <2>2 DEF FileInvariant, Progress
  <2>3. inode[f] \in File /\ writer[w].record \in Records
    BY <1>0, LocalTypes, WorkKeeps DEF FileInvariant, TempsApart
  <2>4. ASSUME Stamp(w)
        PROVE  writer'[w].pc = "stamped" /\ inode'[f].stamped
    BY <1>0, <2>3, <2>4, Moves DEF Stamp, SessionTypeOK, File
  <2>5. ASSUME WritePart(w)
        PROVE  writer'[w].pc = "partial" /\ inode'[f].stamped
    BY <1>0, <2>3, <2>5, Moves DEF WritePart, At, SessionTypeOK, File, FileInvariant, Progress
  <2>6. ASSUME WriteRest(w)
        PROVE  writer'[w].pc = "written" /\ inode'[f].stamped /\ inode'[f].text = writer[w].record
    BY <1>0, <2>3, <2>6, Moves DEF WriteRest, At, SessionTypeOK, File, FileInvariant, Progress
  <2>7. ASSUME Sync(w)
        PROVE  /\ writer'[w].pc = "synced" /\ inode'[f].stamped
               /\ inode'[f].text = writer[w].record /\ inode'[f].synced
    BY <1>0, <2>3, <2>7, Moves DEF Sync, At, SessionTypeOK, File, FileInvariant, Progress
  <2>8. LET g == inode'[writer'[w].file] IN
        /\ writer'[w].pc \in {"stamped", "partial", "written", "synced"} => g.stamped
        /\ writer'[w].pc \in {"written", "synced"} => g.text = writer'[w].record
        /\ writer'[w].pc = "synced" => g.synced
    BY <1>1, <2>4, <2>5, <2>6, <2>7
  <2> QED
    BY <2>2, <2>8 DEF Progress
<1> QED
  BY <1>2, <1>3, <1>4 DEF FileInvariant

\* Steps that change no file's contents, and let writers only lose their files.
LEMMA SameFiles ==
  ASSUME SessionTypeOK, FileInvariant, inode' = inode, temps' = temps,
         onDisk' \subseteq onDisk \cup {None}, entry' \in onDisk',
         \A w \in Writers : \/ writer'[w] = writer[w]
                            \/ writer'[w].pc \notin Saving \cup {"cleanup"}
                            \/ /\ writer'[w].pc = "cleanup" /\ HasTemp(w)
                               /\ writer'[w].file = writer[w].file
                               /\ writer'[w].record = writer[w].record,
         \A r \in Readers : reader'[r].pc = "opened" => reader'[r].file \in Inodes \ temps,
         None \notin temps
  PROVE  FileInvariant'
<1>1. \A w \in Writers : HasTemp(w)' =>
        HasTemp(w) /\ writer'[w].file = writer[w].file /\ writer'[w].record = writer[w].record
  BY DEF HasTemp
<1>2. TempsApart'
  BY <1>1 DEF FileInvariant, TempsApart
<1>3. Progress'
  BY DEF FileInvariant, Progress, Saving
<1>4. NamedWhole'
  BY DEF FileInvariant, NamedWhole
<1> QED
  BY <1>2, <1>3, <1>4 DEF FileInvariant

LEMMA MakeTempSafe ==
  ASSUME SessionTypeOK, FileInvariant,
         NEW w \in Writers, NEW i \in Inodes, NEW v \in Records, MakeTemp(w, i, v)
  PROVE  FileInvariant'
<1>1. /\ i \notin temps \cup onDisk /\ \A r \in Readers : reader[r].file # i
      /\ ~ HasTemp(w)
  BY DEF MakeTemp, Free, At, HasTemp, Saving
<1>2. /\ \A u \in Writers : u # w => writer'[u] = writer[u]
      /\ writer'[w].pc = "made" /\ writer'[w].file = i /\ writer'[w].record = v
  BY DEF MakeTemp, SessionTypeOK
<1>3. \A j \in Inodes : j # i => inode'[j] = inode[j]
  BY DEF MakeTemp, SessionTypeOK
<1>4. temps' = temps \cup {i} /\ UNCHANGED <<entry, onDisk, reader>>
  BY DEF MakeTemp
<1>5. TempsApart'
  BY <1>1, <1>2, <1>4 DEF FileInvariant, TempsApart, HasTemp
<1>6. Progress'
  <2>1. ASSUME NEW u \in Writers, u # w,
               writer[u].pc \in {"stamped", "partial", "written", "synced"}
        PROVE  inode'[writer[u].file] = inode[writer[u].file]
    BY <1>1, <1>3, <2>1 DEF FileInvariant, TempsApart, HasTemp, Saving, SessionTypeOK
  <2> QED
    BY <1>2, <2>1 DEF FileInvariant, Progress
<1>7. NamedWhole'
  <2>1. \A j \in onDisk \ {None} : inode'[j] = inode[j]
    BY <1>1, <1>3 DEF SessionTypeOK
  <2> QED
    BY <1>4, <2>1 DEF FileInvariant, NamedWhole
<1> QED
  BY <1>5, <1>6, <1>7 DEF FileInvariant

LEMMA ReplaceSafe ==
  ASSUME SessionTypeOK, FileInvariant, NEW w \in Writers, Replace(w)
  PROVE  FileInvariant'
<1> DEFINE f == writer[w].file
<1>1. HasTemp(w) /\ writer[w].pc = "synced"
  BY DEF Replace, At, HasTemp, Saving
<1>2. f \in temps /\ f \in Inodes /\ writer[w].record \in Records
  BY <1>1 DEF FileInvariant, TempsApart, SessionTypeOK
<1>3. inode[f].stamped /\ inode[f].text = writer[w].record /\ inode[f].synced
  BY <1>1 DEF FileInvariant, Progress
<1>4. /\ \A u \in Writers : u # w => writer'[u] = writer[u]
      /\ writer'[w].pc = "verify"
  BY DEF Replace, SessionTypeOK, IdleWriter
<1>5. /\ entry' = f /\ onDisk' = onDisk \cup {f} /\ temps' = temps \ {f}
      /\ UNCHANGED <<inode, reader>>
  BY DEF Replace
<1>6. \A u \in Writers : HasTemp(u)' => u # w /\ HasTemp(u) /\ writer'[u] = writer[u]
  BY <1>4 DEF HasTemp, Saving
<1>7. TempsApart'
  <2>1. \A u \in Writers : HasTemp(u)' => writer[u].file # f
    BY <1>1, <1>6 DEF FileInvariant, TempsApart
  <2> QED
    BY <1>2, <1>5, <1>6, <2>1 DEF FileInvariant, TempsApart
<1>8. Progress'
  BY <1>4, <1>5 DEF FileInvariant, Progress
<1>9. NamedWhole'
  BY <1>2, <1>3, <1>5 DEF FileInvariant, NamedWhole
<1> QED
  BY <1>7, <1>8, <1>9 DEF FileInvariant

LEMMA CleanupSafe ==
  ASSUME SessionTypeOK, FileInvariant, NEW w \in Writers, Cleanup(w)
  PROVE  FileInvariant'
<1>1. HasTemp(w)
  BY DEF Cleanup, At, HasTemp
<1>2. /\ \A u \in Writers : u # w => writer'[u] = writer[u]
      /\ writer'[w].pc = "idle"
  BY DEF Cleanup, SessionTypeOK, IdleWriter
<1>3. temps' \subseteq temps /\ temps \subseteq temps' \cup {writer[w].file}
      /\ UNCHANGED <<inode, entry, onDisk, reader>>
  BY DEF Cleanup
<1>4. \A u \in Writers : HasTemp(u)' => u # w /\ HasTemp(u) /\ writer'[u] = writer[u]
  BY <1>2 DEF HasTemp, Saving
<1>5. TempsApart'
  <2>1. \A u \in Writers : HasTemp(u)' => writer[u].file \in temps'
    BY <1>1, <1>3, <1>4 DEF FileInvariant, TempsApart
  <2> QED
    BY <1>3, <1>4, <2>1 DEF FileInvariant, TempsApart
<1>6. Progress' /\ NamedWhole'
  BY <1>2, <1>3 DEF FileInvariant, Progress, NamedWhole
<1> QED
  BY <1>5, <1>6 DEF FileInvariant

LEMMA PowerLossSafe ==
  ASSUME SessionTypeOK, FileInvariant, PowerLoss
  PROVE  FileInvariant'
<1>1. /\ entry' \in onDisk /\ onDisk' = {entry'} /\ temps' \subseteq temps
      /\ \A w \in Writers : writer'[w].pc = "idle"
      /\ \A r \in Readers : reader'[r].pc = "idle"
  BY DEF PowerLoss, IdleWriter, IdleReader
<1>2. \A i \in onDisk \ {None} : inode'[i] = inode[i]
  <2>1. \A i \in onDisk \ {None} : i \in Inodes /\ inode[i].synced
    BY DEF FileInvariant, NamedWhole, SessionTypeOK
  <2> QED
    BY <2>1 DEF PowerLoss
<1>3. TempsApart'
  BY <1>1 DEF FileInvariant, TempsApart, HasTemp, Saving
<1>4. Progress'
  BY <1>1 DEF Progress
<1>5. NamedWhole'
  BY <1>1, <1>2 DEF FileInvariant, NamedWhole
<1> QED
  BY <1>3, <1>4, <1>5 DEF FileInvariant

LEMMA FileInvariantStep ==
  ASSUME SessionTypeOK, FileInvariant, SessionNext
  PROVE  FileInvariant'
<1>0. None \notin temps
  BY SessionFileConstants DEF SessionFileConstants, SessionTypeOK
<1>1. ASSUME NEW w \in Writers, SaveFails(w) PROVE FileInvariant'
  <2>1. HasTemp(w)
    BY <1>1 DEF SaveFails, HasTemp
  <2>2. \A r \in Readers : reader'[r].pc = "opened" => reader'[r].file \in Inodes \ temps
    BY <1>1 DEF SaveFails, FileInvariant, TempsApart
  <2>3. \A v \in Writers : v # w => writer'[v] = writer[v]
    BY <1>1, Moves DEF SaveFails
  <2>4. writer'[w].pc = "cleanup" /\ writer'[w].file = writer[w].file
        /\ writer'[w].record = writer[w].record
    BY <1>1, Moves DEF SaveFails
  <2>5. UNCHANGED <<inode, temps, onDisk, entry>> /\ entry \in onDisk
    BY <1>1 DEF SaveFails, FileInvariant, TempsApart
  <2> QED
    BY <1>0, <2>1, <2>2, <2>3, <2>4, <2>5, SameFiles
<1>2. ASSUME NEW w \in Writers, Verify(w) \/ Report(w) \/ Clear(w) \/ Unlink(w) PROVE FileInvariant'
  <2>1. /\ \A v \in Writers : v # w => writer'[v] = writer[v]
        /\ writer'[w].pc \notin Saving \cup {"cleanup"}
    BY <1>2, Moves DEF Verify, Report, Clear, Unlink, Saving
  <2>2. UNCHANGED <<inode, temps, reader>>
    BY <1>2 DEF Verify, Report, Clear, Unlink
  <2>3. onDisk' \subseteq onDisk \cup {None} /\ entry' \in onDisk'
    BY <1>2 DEF Verify, Report, Clear, Unlink, FileInvariant, TempsApart
  <2>4. \A r \in Readers : reader'[r].pc = "opened" => reader'[r].file \in Inodes \ temps
    BY <2>2 DEF FileInvariant, TempsApart
  <2> QED
    BY <1>0, <2>1, <2>2, <2>3, <2>4, SameFiles
<1>3. ASSUME NEW w \in Writers, WriterDies(w) PROVE FileInvariant'
  <2>1. /\ \A v \in Writers : v # w => writer'[v] = writer[v]
        /\ writer'[w].pc \notin Saving \cup {"cleanup"}
    BY <1>3 DEF WriterDies, SessionTypeOK, IdleWriter, Saving
  <2>2. UNCHANGED <<inode, entry, onDisk, temps, reader>> /\ entry \in onDisk
    BY <1>3 DEF WriterDies, FileInvariant, TempsApart
  <2>3. \A r \in Readers : reader'[r].pc = "opened" => reader'[r].file \in Inodes \ temps
    BY <2>2 DEF FileInvariant, TempsApart
  <2> QED
    BY <1>0, <2>1, <2>2, <2>3, SameFiles
<1>4. ASSUME NEW r \in Readers, Open(r) \/ Read(r) \/ ReaderDies(r) PROVE FileInvariant'
  <2>1. UNCHANGED <<inode, entry, onDisk, temps, writer>> /\ entry \in onDisk
    BY <1>4 DEF Open, Read, ReaderDies, FileInvariant, TempsApart
  <2>2. \A s \in Readers : s # r => reader'[s] = reader[s]
    BY <1>4 DEF Open, Read, ReaderDies, SessionTypeOK
  <2>3. reader'[r].pc = "opened" => reader'[r].file = entry /\ entry # None
    BY <1>4 DEF Open, Read, ReaderDies, SessionTypeOK, IdleReader
  <2>4. entry # None => entry \in Inodes \ temps
    BY DEF FileInvariant, TempsApart, SessionTypeOK
  <2>5. \A s \in Readers : reader'[s].pc = "opened" => reader'[s].file \in Inodes \ temps
    BY <2>2, <2>3, <2>4 DEF FileInvariant, TempsApart
  <2> QED
    BY <1>0, <2>1, <2>5, SameFiles
<1>5. ASSUME WriteBack PROVE FileInvariant'
  <2>1. UNCHANGED <<inode, entry, temps, writer, reader>> /\ onDisk' = {entry} /\ entry \in onDisk
    BY <1>5 DEF WriteBack, FileInvariant, TempsApart
  <2>2. \A s \in Readers : reader'[s].pc = "opened" => reader'[s].file \in Inodes \ temps
    BY <2>1 DEF FileInvariant, TempsApart
  <2> QED
    BY <1>0, <2>1, <2>2, SameFiles
<1> QED
  BY <1>1, <1>2, <1>3, <1>4, <1>5, MakeTempSafe, WorkSafe, ReplaceSafe, CleanupSafe, PowerLossSafe
     DEF SessionNext, Save

LEMMA SessionInitSafe == SessionInit => SessionTypeOK /\ FileInvariant
<1> SUFFICES ASSUME SessionInit PROVE SessionTypeOK /\ FileInvariant
  OBVIOUS
<1>1. IdleWriter \in WriterState /\ IdleReader \in ReaderState /\ Blank \in File
  BY DEF IdleWriter, WriterState, IdleReader, ReaderState, Blank, File, Junk
<1>2. inode \in [Inodes -> File]
  <2>1. PICK text \in Records \cup {"foreign"}, stamped \in BOOLEAN :
          inode = [i \in Inodes |->
            IF i = entry THEN [text |-> text, stamped |-> stamped, synced |-> TRUE] ELSE Blank]
    BY DEF SessionInit
  <2>2. [text |-> text, stamped |-> stamped, synced |-> TRUE] \in File
    BY DEF File, Junk
  <2> QED
    BY <1>1, <2>1, <2>2
<1>3. SessionTypeOK
  BY <1>1, <1>2 DEF SessionInit, SessionTypeOK
<1>4. \A w \in Writers : writer[w].pc = "idle"
  BY DEF SessionInit, IdleWriter
<1>5. \A r \in Readers : reader[r].pc = "idle"
  BY DEF SessionInit, IdleReader
<1>6. TempsApart
  BY <1>4, <1>5 DEF SessionInit, TempsApart, HasTemp, Saving
<1>7. Progress
  BY <1>4 DEF Progress
<1>8. NamedWhole
  BY DEF SessionInit, NamedWhole
<1> QED
  BY <1>3, <1>6, <1>7, <1>8 DEF FileInvariant

\* Every variable of the session file's processes keeps its type, and the
\* invariant that the two theorems below rest on holds.
THEOREM SessionFilesSafe == SessionSpec => [](SessionTypeOK /\ FileInvariant)
<1>1. SessionTypeOK /\ FileInvariant /\ [SessionNext]_sessionVars => (SessionTypeOK /\ FileInvariant)'
  <2> SUFFICES ASSUME SessionTypeOK, FileInvariant, [SessionNext]_sessionVars
               PROVE  SessionTypeOK' /\ FileInvariant'
    OBVIOUS
  <2>1. ASSUME SessionNext PROVE SessionTypeOK' /\ FileInvariant'
    BY <2>1, SessionTypeStep, FileInvariantStep DEF FileInvariant
  <2>2. ASSUME UNCHANGED sessionVars PROVE SessionTypeOK' /\ FileInvariant'
    BY <2>2 DEF sessionVars, SessionTypeOK, FileInvariant, TempsApart, Progress, NamedWhole, HasTemp
  <2> QED
    BY <2>1, <2>2
<1> QED
  BY <1>1, SessionInitSafe, PTL DEF SessionSpec

\* save_session's order (stamp, write, fsync, rename) is enough: whatever the
\* writers, readers and crashes, what the name leads to, now or after a power
\* loss, is a whole record that its readers may open, or what was there before.
THEOREM RecordAlwaysWhole == SessionSpec => []RecordWhole
<1>1. SessionTypeOK /\ FileInvariant => RecordWhole
  BY SessionFileConstants
     DEF SessionFileConstants, FileInvariant, TempsApart, NamedWhole, RecordWhole, Content
<1> QED
  BY <1>1, SessionFilesSafe, PTL

-----------------------------------------------------------------------------
(* The verification of a mount that succeeded *)

\* Once a save has taken the name, what it found there before is gone for good.
OursOnceReplaced ==
  (\E w \in Writers : At(w, "verify")) => entry = None \/ inode[entry].text \in Records

\* A named file's contents are fixed, but for a power loss.
LEMMA NamedKept ==
  ASSUME SessionTypeOK, FileInvariant, SessionNext, ~ PowerLoss \/ inode' = inode,
         NEW i \in Inodes, \/ i \in onDisk
                           \/ \E r \in Readers : reader[r].pc = "opened" /\ reader[r].file = i
  PROVE  inode'[i] = inode[i]
<1>1. i \notin temps
  BY DEF FileInvariant, TempsApart
<1>2. ASSUME NEW w \in Writers, NEW j \in Inodes, NEW v \in Records, MakeTemp(w, j, v)
      PROVE  inode'[i] = inode[i]
  BY <1>2 DEF MakeTemp, Free, SessionTypeOK
<1>3. ASSUME NEW w \in Writers, Stamp(w) \/ WritePart(w) \/ WriteRest(w) \/ Sync(w)
      PROVE  inode'[i] = inode[i]
  BY <1>1, <1>3, WorkKeeps
<1>4. ASSUME inode' = inode PROVE inode'[i] = inode[i]
  BY <1>4
<1>5. ASSUME NEW w \in Writers,
             Replace(w) \/ SaveFails(w) \/ Cleanup(w) \/ Verify(w) \/ Report(w) \/ Clear(w)
               \/ Unlink(w) \/ WriterDies(w)
      PROVE  inode' = inode
  BY <1>5 DEF Replace, SaveFails, Cleanup, Verify, Report, Clear, Unlink, WriterDies
<1>6. ASSUME NEW r \in Readers, Open(r) \/ Read(r) \/ ReaderDies(r) PROVE inode' = inode
  BY <1>6 DEF Open, Read, ReaderDies
<1>7. WriteBack => inode' = inode
  BY DEF WriteBack
<1> QED
  BY <1>2, <1>3, <1>4, <1>5, <1>6, <1>7 DEF SessionNext, Save

LEMMA OursStep ==
  ASSUME SessionTypeOK, FileInvariant, OursOnceReplaced, SessionNext
  PROVE  OursOnceReplaced'
<1>1. ASSUME NEW w \in Writers, Replace(w) PROVE OursOnceReplaced'
  <2>1. writer[w].record \in Records /\ inode[writer[w].file].text = writer[w].record
    BY <1>1 DEF Replace, At, FileInvariant, TempsApart, HasTemp, Saving, Progress
  <2> QED
    BY <1>1, <2>1 DEF Replace, OursOnceReplaced
<1>2. ASSUME PowerLoss PROVE OursOnceReplaced'
  BY <1>2 DEF PowerLoss, OursOnceReplaced, At, IdleWriter
<1>3. ASSUME ~ PowerLoss, entry' = entry \/ entry' = None,
             \A w \in Writers : At(w, "verify")' => At(w, "verify")
      PROVE  OursOnceReplaced'
  <2>1. entry # None => entry \in Inodes /\ entry \in onDisk
    BY DEF SessionTypeOK, FileInvariant, TempsApart
  <2>2. entry # None => inode'[entry] = inode[entry]
    BY <1>3, <2>1, NamedKept
  <2> QED
    BY <1>3, <2>2 DEF OursOnceReplaced
<1>4. ASSUME NEW w \in Writers,
             Stamp(w) \/ WritePart(w) \/ WriteRest(w) \/ Sync(w) \/ SaveFails(w) \/ Verify(w)
               \/ Report(w) \/ Clear(w) \/ Unlink(w)
      PROVE  /\ entry' = entry \/ entry' = None
             /\ \A v \in Writers : At(v, "verify")' => At(v, "verify")
  <2>1. entry' = entry \/ entry' = None
    BY <1>4 DEF Stamp, WritePart, WriteRest, Sync, SaveFails, Verify, Report, Clear, Unlink
  <2>2. /\ \A v \in Writers : v # w => writer'[v] = writer[v]
        /\ writer'[w].pc # "verify"
    BY <1>4, Moves DEF Stamp, WritePart, WriteRest, Sync, SaveFails, Verify, Report, Clear, Unlink
  <2> QED
    BY <2>1, <2>2 DEF At
<1>5. ASSUME NEW w \in Writers, NEW i \in Inodes, NEW v \in Records,
             MakeTemp(w, i, v)
      PROVE  entry' = entry /\ \A u \in Writers : At(u, "verify")' => At(u, "verify")
  BY <1>5 DEF MakeTemp, At, SessionTypeOK
<1>6. ASSUME NEW w \in Writers, Cleanup(w) \/ WriterDies(w)
      PROVE  entry' = entry /\ \A u \in Writers : At(u, "verify")' => At(u, "verify")
  BY <1>6 DEF Cleanup, WriterDies, At, SessionTypeOK, IdleWriter
<1>7. ASSUME NEW r \in Readers, Open(r) \/ Read(r) \/ ReaderDies(r)
      PROVE  entry' = entry /\ \A u \in Writers : At(u, "verify")' => At(u, "verify")
  BY <1>7 DEF Open, Read, ReaderDies, At
<1>8. WriteBack => entry' = entry /\ \A u \in Writers : At(u, "verify")' => At(u, "verify")
  BY DEF WriteBack, At
<1> QED
  BY <1>1, <1>2, <1>3, <1>4, <1>5, <1>6, <1>7, <1>8 DEF SessionNext, Save

\* A helper that reports its mount ok has found a record that loads: the mode it
\* looks at is worth as much as the text it does not, whoever else saved or
\* cleared one and whatever an older version had left there.
THEOREM VerifiedAlwaysReadable == SessionSpec => VerifiedMeansReadable
<1>1. SessionInit => OursOnceReplaced
  BY DEF SessionInit, OursOnceReplaced, At, IdleWriter
<1>2. SessionTypeOK /\ FileInvariant /\ OursOnceReplaced /\ [SessionNext]_sessionVars
        => OursOnceReplaced'
  <2>1. ASSUME OursOnceReplaced, UNCHANGED sessionVars PROVE OursOnceReplaced'
    BY <2>1 DEF sessionVars, OursOnceReplaced, At
  <2> QED
    BY <2>1, OursStep
<1>3. SessionTypeOK /\ FileInvariant /\ OursOnceReplaced /\ [SessionNext]_sessionVars
        => [\A w \in Writers :
              At(w, "verify") /\ At(w, "verified")' => Content(entry) # None]_sessionVars
  <2> SUFFICES ASSUME SessionTypeOK, FileInvariant, OursOnceReplaced, SessionNext,
                      NEW w \in Writers, At(w, "verify"), At(w, "verified")'
               PROVE  Content(entry) # None
    OBVIOUS
  <2>1. ASSUME Verify(w) PROVE Content(entry) # None
    <3>1. entry # None /\ inode[entry].stamped
      <4>1. ~ Goes(w, "unverified")
        BY Moves DEF At
      <4> QED
        BY <2>1, <4>1 DEF Verify
    <3>2. inode[entry].text \in Records
      BY <3>1 DEF OursOnceReplaced
    <3> QED
      BY <3>1, <3>2, SessionFileConstants DEF SessionFileConstants, Content
  <2>2. ASSUME NEW v \in Writers,
               Stamp(v) \/ WritePart(v) \/ WriteRest(v) \/ Sync(v) \/ SaveFails(v)
                 \/ Report(v) \/ Clear(v) \/ Unlink(v) \/ (Verify(v) /\ v # w)
        PROVE  FALSE
    <3>1. v # w
      BY <2>2 DEF Stamp, WritePart, WriteRest, Sync, SaveFails, Report, Clear, Unlink, At, Saving
    <3>2. writer'[w] = writer[w]
      BY <2>2, <3>1, Moves
         DEF Stamp, WritePart, WriteRest, Sync, SaveFails, Verify, Report, Clear, Unlink
    <3> QED
      BY <3>2 DEF At
  <2>3. ASSUME NEW v \in Writers, NEW i \in Inodes, NEW r \in Records,
               MakeTemp(v, i, r)
        PROVE  FALSE
    BY <2>3 DEF MakeTemp, At, SessionTypeOK
  <2>4. ASSUME NEW v \in Writers, Cleanup(v) \/ WriterDies(v) \/ Replace(v) PROVE FALSE
    BY <2>4 DEF Cleanup, WriterDies, Replace, At, SessionTypeOK, IdleWriter
  <2>5. ASSUME NEW r \in Readers, Open(r) \/ Read(r) \/ ReaderDies(r) PROVE FALSE
    BY <2>5 DEF Open, Read, ReaderDies, At
  <2>6. ~ WriteBack /\ ~ PowerLoss
    BY DEF WriteBack, PowerLoss, At, IdleWriter
  <2> QED
    BY <2>1, <2>2, <2>3, <2>4, <2>5, <2>6 DEF SessionNext, Save
<1> QED
  BY <1>1, <1>2, <1>3, SessionFilesSafe, PTL DEF SessionSpec, VerifiedMeansReadable

-----------------------------------------------------------------------------
(* The register *)

\* What a named or opened file is worth to a reader is fixed, but for a power
\* loss, which takes nothing that was synced.
LEMMA ContentKept ==
  ASSUME SessionTypeOK, FileInvariant, SessionNext
  PROVE  /\ \A i \in onDisk : Content(i)' = Content(i)
         /\ ~ PowerLoss \/ inode' = inode => \A r \in Readers : reader[r].pc = "opened" =>
              \A i \in Inodes : i = reader[r].file => Content(i)' = Content(i)
<1>0. \A i \in Inodes : inode'[i] = inode[i] => Content(i)' = Content(i)
  BY DEF Content
<1>1. ASSUME NEW i \in onDisk PROVE Content(i)' = Content(i)
  <2>1. ASSUME i # None PROVE i \in Inodes /\ inode'[i] = inode[i]
    <3>1. i \in Inodes /\ inode[i].synced
      BY <1>1, <2>1 DEF SessionTypeOK, FileInvariant, NamedWhole
    <3>2. PowerLoss => inode'[i] = inode[i]
      BY <3>1 DEF PowerLoss
    <3> QED
      BY <1>1, <3>1, <3>2, NamedKept
  <2>2. Content(None)' = Content(None)
    BY DEF Content
  <2> QED
    BY <1>0, <2>1, <2>2
<1>2. ASSUME ~ PowerLoss \/ inode' = inode, NEW r \in Readers, reader[r].pc = "opened",
             NEW i \in Inodes, i = reader[r].file
      PROVE  Content(i)' = Content(i)
  BY <1>0, <1>2, NamedKept
<1> QED
  BY <1>1, <1>2

WishMap == [w \in Writers |-> Wish(w)]
AnswerMap == [r \in Readers |-> Answer(r)]

\* A step of one writer changes only its own wish.
LEMMA OneWish ==
  ASSUME NEW w \in Writers, \A v \in Writers : v # w => writer'[v] = writer[v]
  PROVE  /\ WishMap' = [WishMap EXCEPT ![w] = Wish(w)']
         /\ WishMap[w] = Wish(w)
<1>1. ASSUME NEW v \in Writers, v # w PROVE Wish(v)' = Wish(v)
  BY <1>1 DEF Wish, At
<1> QED
  BY <1>1 DEF WishMap

\* What a step that leaves names and readers alone means for the register.
LEMMA RegisterKept ==
  ASSUME SessionTypeOK, FileInvariant, SessionNext, ~ PowerLoss \/ inode' = inode,
         UNCHANGED <<entry, onDisk, reader>>
  PROVE  UNCHANGED <<Content(entry), Recent, AnswerMap>>
<1>1. Content(entry)' = Content(entry)
  <2>1. entry \in onDisk /\ entry' = entry
    BY DEF FileInvariant, TempsApart
  <2>2. \A i \in onDisk : Content(i)' = Content(i)
    BY ContentKept
  <2>3. PICK e \in onDisk : e = entry /\ e = entry'
    BY <2>1
  <2> QED
    BY <2>2, <2>3
<1>2. Recent' = Recent
  BY ContentKept DEF Recent
<1>3. ASSUME NEW r \in Readers PROVE Answer(r)' = Answer(r)
  BY ContentKept DEF Answer, FileInvariant, TempsApart
<1> QED
  BY <1>1, <1>2, <1>3 DEF AnswerMap

\* A writer's step between the rename and the unlink: a save or removal begins,
\* goes on, or is given up.
LEMMA WriterRefines ==
  ASSUME SessionTypeOK, FileInvariant, SessionNext, NEW w \in Writers,
         \/ \E i \in Inodes, v \in Records : MakeTemp(w, i, v)
         \/ Stamp(w) \/ WritePart(w) \/ WriteRest(w) \/ Sync(w) \/ SaveFails(w) \/ Cleanup(w)
         \/ Verify(w) \/ Report(w) \/ Clear(w) \/ WriterDies(w)
  PROVE  Register!Next \/ UNCHANGED Register!registerVars
<1>1. UNCHANGED <<entry, onDisk, reader>>
  BY DEF MakeTemp, Stamp, WritePart, WriteRest, Sync, SaveFails, Cleanup, Verify, Report, Clear,
         WriterDies
<1>2. ~ PowerLoss \/ inode' = inode
  <2>1. inode' # inode => writer'[w].pc # "idle"
    BY Moves DEF MakeTemp, Stamp, WritePart, WriteRest, Sync, SaveFails, Cleanup, Verify, Report,
         Clear, WriterDies, SessionTypeOK
  <2> QED
    BY <2>1 DEF PowerLoss, IdleWriter
<1>3. UNCHANGED <<Content(entry), Recent, AnswerMap>>
  BY <1>1, <1>2, RegisterKept
<1>4. \A v \in Writers : v # w => writer'[v] = writer[v]
  BY Moves DEF MakeTemp, Stamp, WritePart, WriteRest, Sync, SaveFails, Cleanup, Verify, Report,
         Clear, WriterDies, SessionTypeOK
<1>5. WishMap' = [WishMap EXCEPT ![w] = Wish(w)'] /\ WishMap[w] = Wish(w)
  BY <1>4, OneWish
<1>6. \/ Wish(w)' = Wish(w)
      \/ Wish(w)' = "idle"
      \/ Wish(w) = "idle" /\ Wish(w)' \in Records \cup {None}
  <2>1. ASSUME NEW i \in Inodes, NEW v \in Records, MakeTemp(w, i, v)
        PROVE  Wish(w) = "idle" /\ Wish(w)' = v
    BY <2>1 DEF MakeTemp, Wish, At, Saving, SessionTypeOK
  <2>2. ASSUME Stamp(w) \/ WritePart(w) \/ WriteRest(w) \/ Sync(w)
        PROVE  Wish(w)' = Wish(w)
    BY <2>2, Moves DEF Stamp, WritePart, WriteRest, Sync, Wish, At, Saving
  <2>3. ASSUME SaveFails(w) \/ Verify(w) \/ Report(w)
        PROVE  Wish(w)' = "idle"
    BY <2>3, Moves DEF SaveFails, Verify, Report, Wish, At, Saving
  <2>4. ASSUME Cleanup(w) \/ WriterDies(w)
        PROVE  Wish(w)' = "idle"
    BY <2>4 DEF Cleanup, WriterDies, Wish, At, Saving, IdleWriter, SessionTypeOK
  <2>5. ASSUME Clear(w)
        PROVE  Wish(w) = "idle" /\ Wish(w)' = None
    BY <2>5, Moves DEF Clear, Wish, At, Saving
  <2> QED
    BY <2>1, <2>2, <2>3, <2>4, <2>5
<1>7. ASSUME Wish(w)' = Wish(w) PROVE UNCHANGED Register!registerVars
  <2>1. WishMap' = WishMap
    BY <1>5, <1>7 DEF WishMap
  <2> QED
    BY <1>3, <2>1 DEF Register!registerVars, WishMap, AnswerMap
<1>8. ASSUME Wish(w)' = "idle" PROVE Register!Abort(w)
  BY <1>3, <1>5, <1>8 DEF Register!Abort, Register!Idle, WishMap, AnswerMap
<1>9. ASSUME Wish(w) = "idle", NEW v \in Records \cup {None}, Wish(w)' = v PROVE Register!Begin(w, v)
  BY <1>3, <1>5, <1>9 DEF Register!Begin, Register!Idle, WishMap, AnswerMap
<1> QED
  BY <1>6, <1>7, <1>8, <1>9 DEF Register!Next, Register!Values

\* The rename commits the save, the unlink the removal, unless it fails.
LEMMA NameRefines ==
  ASSUME SessionTypeOK, FileInvariant, SessionNext, NEW w \in Writers, Replace(w) \/ Unlink(w)
  PROVE  Register!Next
<1>1. inode' = inode /\ reader' = reader
  BY DEF Replace, Unlink
<1>2. WishMap' = [WishMap EXCEPT ![w] = Wish(w)'] /\ WishMap[w] = Wish(w)
  <2>1. \A v \in Writers : v # w => writer'[v] = writer[v]
    BY Moves DEF Replace, Unlink, SessionTypeOK
  <2> QED
    BY <2>1, OneWish
<1>3. Wish(w)' = "idle"
  <2>1. writer'[w].pc \in {"verify", "idle"}
    BY Moves DEF Replace, Unlink, SessionTypeOK, IdleWriter
  <2> QED
    BY <2>1 DEF Wish, At, Saving
<1>4. AnswerMap' = AnswerMap
  BY <1>1 DEF AnswerMap, Answer, Content
<1>5. \A i : Content(i)' = Content(i)
  BY <1>1 DEF Content
<1>6. ASSUME Replace(w) PROVE Register!Commit(w)
  <2>1. writer[w].pc = "synced" /\ HasTemp(w)
    BY <1>6 DEF Replace, At, HasTemp, Saving
  <2>2. /\ writer[w].file \in Inodes /\ writer[w].record \in Records
        /\ inode[writer[w].file].stamped /\ inode[writer[w].file].text = writer[w].record
    BY <2>1 DEF FileInvariant, TempsApart, Progress, SessionTypeOK
  <2>3. Content(writer[w].file) = writer[w].record
    BY <2>2, SessionFileConstants DEF SessionFileConstants, Content
  <2>4. Wish(w) = writer[w].record /\ Wish(w) # "idle"
    BY <2>1, <2>2, SessionFileConstants DEF SessionFileConstants, Wish, Saving
  <2>5. Content(entry)' = Wish(w)
    <3>1. PICK f \in Inodes : f = writer[w].file /\ f = entry'
      BY <1>6, <2>2 DEF Replace
    <3> QED
      BY <1>1, <2>3, <2>4, <3>1 DEF Content
  <2>6. Recent' = Recent \cup {Content(entry)'}
    <3>1. onDisk' = onDisk \cup {entry'}
      BY <1>6 DEF Replace
    <3> QED
      BY <1>1, <3>1 DEF Recent, Content
  <2> QED
    BY <1>2, <1>3, <1>4, <2>4, <2>5, <2>6 DEF Register!Commit, Register!Idle, WishMap, AnswerMap
<1>7. ASSUME Unlink(w), entry' = None PROVE Register!Commit(w)
  <2>1. Wish(w) = None /\ Wish(w) # "idle"
    BY <1>7, SessionFileConstants DEF SessionFileConstants, Unlink, At, Wish, Saving
  <2>2. Content(entry)' = None
    BY <1>7 DEF Content
  <2>3. Recent' = Recent \cup {Content(entry)'}
    <3>1. onDisk' = onDisk \cup {entry'}
      BY <1>7 DEF Unlink
    <3> QED
      BY <1>1, <3>1 DEF Recent, Content
  <2> QED
    BY <1>2, <1>3, <1>4, <2>1, <2>2, <2>3 DEF Register!Commit, Register!Idle, WishMap, AnswerMap
<1>8. ASSUME Unlink(w), entry' = entry PROVE Register!Abort(w)
  <2>1. onDisk' = onDisk
    BY <1>8 DEF Unlink, FileInvariant, TempsApart
  <2>2. UNCHANGED <<Content(entry), Recent>>
    BY <1>1, <1>8, <2>1 DEF Content, Recent
  <2> QED
    BY <1>2, <1>3, <1>4, <2>2 DEF Register!Abort, Register!Idle, WishMap, AnswerMap
<1>9. Unlink(w) => entry' = None \/ entry' = entry
  BY DEF Unlink
<1> QED
  BY <1>6, <1>7, <1>8, <1>9 DEF Register!Next

\* A load takes effect when the file is opened; one that fails takes it back.
LEMMA ReaderRefines ==
  ASSUME SessionTypeOK, FileInvariant, SessionNext, NEW r \in Readers,
         Open(r) \/ Read(r) \/ ReaderDies(r)
  PROVE  Register!Next \/ UNCHANGED Register!registerVars
<1>1. UNCHANGED <<inode, entry, onDisk, writer>>
  BY DEF Open, Read, ReaderDies
<1>2. UNCHANGED <<Content(entry), Recent, WishMap>>
  BY <1>1 DEF Content, Recent, WishMap, Wish, At
<1>3. /\ AnswerMap' = [AnswerMap EXCEPT ![r] = Answer(r)']
      /\ AnswerMap[r] = Answer(r)
  <2>1. ASSUME NEW s \in Readers, s # r PROVE Answer(s)' = Answer(s)
    <3>1. reader'[s] = reader[s]
      BY <2>1 DEF Open, Read, ReaderDies, SessionTypeOK
    <3> QED
      BY <1>1, <3>1 DEF Answer, Content
  <2> QED
    BY <2>1 DEF AnswerMap
<1>4. ASSUME Open(r) PROVE Register!Read(r)
  <2>1. Answer(r)' \in {Content(entry), None}
    BY <1>1, <1>4 DEF Open, Answer, Content, SessionTypeOK, IdleReader
  <2> QED
    BY <1>2, <1>3, <2>1 DEF Register!Read, WishMap, AnswerMap
<1>5. ASSUME Read(r) PROVE UNCHANGED Register!registerVars \/ Register!Forget(r)
  <2>1. Answer(r)' \in {Answer(r), None}
    <3>1. PICK v \in {Content(reader[r].file), None} :
            reader' = [reader EXCEPT ![r] = [IdleReader EXCEPT !.answer = v]]
      BY <1>5 DEF Read
    <3>2. reader'[r].pc = "idle" /\ reader'[r].answer = v
      BY <3>1 DEF IdleReader, SessionTypeOK
    <3> QED
      BY <1>5, <3>1, <3>2 DEF Read, Answer
  <2>2. ASSUME Answer(r)' = Answer(r) PROVE UNCHANGED Register!registerVars
    <3>1. AnswerMap' = AnswerMap
      BY <1>3, <2>2 DEF AnswerMap
    <3> QED
      BY <1>2, <3>1 DEF Register!registerVars, WishMap, AnswerMap
  <2>3. ASSUME Answer(r)' = None PROVE Register!Forget(r)
    BY <1>2, <1>3, <2>3 DEF Register!Forget, WishMap, AnswerMap
  <2> QED
    BY <2>1, <2>2, <2>3
<1>6. ASSUME ReaderDies(r) PROVE Register!Forget(r)
  <2>1. Answer(r)' = None
    BY <1>6 DEF ReaderDies, Answer, SessionTypeOK, IdleReader
  <2> QED
    BY <1>2, <1>3, <2>1 DEF Register!Forget, WishMap, AnswerMap
<1> QED
  BY <1>4, <1>5, <1>6 DEF Register!Next

LEMMA DiskRefines ==
  ASSUME SessionTypeOK, FileInvariant, SessionNext, WriteBack \/ PowerLoss
  PROVE  Register!Next
<1>1. ASSUME WriteBack PROVE Register!Flush
  <2>1. Recent' = {Content(entry)}
    BY <1>1 DEF WriteBack, Recent, Content
  <2>2. UNCHANGED <<Content(entry), WishMap, AnswerMap>>
    BY <1>1 DEF WriteBack, Content, WishMap, Wish, At, AnswerMap, Answer
  <2> QED
    BY <2>1, <2>2 DEF Register!Flush, WishMap, AnswerMap
<1>2. ASSUME PowerLoss PROVE Register!PowerLoss
  <2>1. PICK e \in onDisk : entry' = e /\ onDisk' = {e}
    BY <1>2 DEF PowerLoss
  <2>2. Content(entry)' = Content(e) /\ Content(e)' = Content(e)
    <3>1. Content(e)' = Content(e)
      BY <2>1, ContentKept
    <3> QED
      BY <2>1, <3>1 DEF Content
  <2>3. Recent' = {Content(entry)'}
    BY <2>1 DEF Recent
  <2>4. Content(entry)' \in Recent
    BY <2>1, <2>2 DEF Recent
  <2>5. WishMap' = [w \in Writers |-> "idle"]
    BY <1>2 DEF PowerLoss, WishMap, Wish, At, IdleWriter, Saving
  <2>6. AnswerMap' = [r \in Readers |-> None]
    BY <1>2 DEF PowerLoss, AnswerMap, Answer, IdleReader
  <2> QED
    BY <2>3, <2>4, <2>5, <2>6 DEF Register!PowerLoss, Register!Idle, WishMap, AnswerMap
<1> QED
  BY <1>1, <1>2 DEF Register!Next

LEMMA InitRefines == SessionInit => Register!Init
<1> SUFFICES ASSUME SessionInit PROVE Register!Init
  OBVIOUS
<1>1. Content(entry) \in Records \cup {None}
  BY DEF Content
<1>2. Recent = {Content(entry)}
  BY DEF SessionInit, Recent
<1>3. WishMap = [w \in Writers |-> "idle"]
  BY DEF SessionInit, WishMap, Wish, At, IdleWriter, Saving
<1>4. AnswerMap = [r \in Readers |-> None]
  BY DEF SessionInit, AnswerMap, Answer, IdleReader
<1> QED
  BY <1>1, <1>2, <1>3, <1>4 DEF Register!Init, Register!Values, Register!Idle, WishMap, AnswerMap

\* The session file is one register: a load answers what the name held when it
\* was opened, or None when there was no record or the load failed, and nothing
\* else; a save or removal takes effect at once or not at all, and a power loss
\* brings back a value the file had since the last write-back.
THEOREM SessionFileIsRegister == SessionSpec => ImplementsRegister
<1>1. SessionTypeOK /\ FileInvariant /\ [SessionNext]_sessionVars
        => [Register!Next]_(Register!registerVars)
  <2> SUFFICES ASSUME SessionTypeOK, FileInvariant, [SessionNext]_sessionVars
               PROVE  Register!Next \/ UNCHANGED Register!registerVars
    OBVIOUS
  <2>1. ASSUME UNCHANGED sessionVars PROVE UNCHANGED Register!registerVars
    <3>1. UNCHANGED <<Content(entry), Recent, WishMap, AnswerMap>>
      BY <2>1 DEF sessionVars, Content, Recent, WishMap, Wish, At, AnswerMap, Answer
    <3> QED
      BY <3>1 DEF Register!registerVars, WishMap, AnswerMap
  <2>2. ASSUME SessionNext PROVE Register!Next \/ UNCHANGED Register!registerVars
    BY <2>2, WriterRefines, NameRefines, ReaderRefines, DiskRefines DEF SessionNext, Save
  <2> QED
    BY <2>1, <2>2
<1> QED
  BY <1>1, InitRefines, SessionFilesSafe, PTL DEF SessionSpec, ImplementsRegister, Register!Spec

=============================================================================
