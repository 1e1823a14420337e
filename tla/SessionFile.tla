----------------------------- MODULE SessionFile -----------------------------
(***************************************************************************)
(* The session file of one user below /var/db/dislocker-ui (session.py):   *)
(* root helpers save it through a temporary file and a rename, and remove  *)
(* it; windows and helpers load it at any moment.  Any call may fail, any  *)
(* process may be killed between two calls, and the power may go, which    *)
(* takes what no fsync and no later write-back has put on disk.            *)
(*                                                                         *)
(* What is abstracted.  A record is a value; of JSON only matters whether  *)
(* it is whole.  Owner, group and mode are one bit, stamped: root:gid 0640 *)
(* rather than mkstemp's 0600.  The directory is root's, so nobody but     *)
(* these processes makes entries in it; an older version or an             *)
(* administrator may have left one.  fsync is taken at its word.           *)
(***************************************************************************)
EXTENDS FiniteSets

CONSTANTS
  Writers,  \* root processes that save and clear
  Readers,  \* processes that load
  Inodes,   \* files the directory can hold, unlinked ones included
  Records,  \* what there is to save
  None      \* no file, no record

\* An empty file, a part of a record, and a whole file that load_session
\* declines: an older layout, or a symbolic link.
Junk == {"empty", "torn", "foreign"}

ASSUME SessionFileConstants ==
  /\ None \notin Inodes \cup Records \cup Junk
  /\ Records \cap Junk = {}
  /\ "idle" \notin Records \cup {None}

VARIABLES
  inode,   \* file -> text, stamped, synced
  entry,   \* the file active_session.json names, or None
  onDisk,  \* what the name may be after a power loss
  temps,   \* files that have a temporary name
  writer,  \* save_session and _verify_session_readable, with their locals
  reader   \* load_session, with its descriptor and its last answer

sessionVars == <<inode, entry, onDisk, temps, writer, reader>>

-----------------------------------------------------------------------------
(* Types and vocabulary *)

File == [text : Records \cup Junk, stamped : BOOLEAN, synced : BOOLEAN]
Blank == [text |-> "empty", stamped |-> FALSE, synced |-> FALSE]

WriterState ==
  [pc : {"idle", "made", "stamped", "partial", "written", "synced", "cleanup",
         "clearing", "verify", "verified", "unverified"},
   file : Inodes \cup {None}, record : Records \cup {None}]
IdleWriter == [pc |-> "idle", file |-> None, record |-> None]

ReaderState ==
  [pc : {"idle", "opened"}, file : Inodes \cup {None}, answer : Records \cup {None}]
IdleReader == [pc |-> "idle", file |-> None, answer |-> None]

SessionTypeOK ==
  /\ inode \in [Inodes -> File]
  /\ entry \in Inodes \cup {None}
  /\ onDisk \in SUBSET (Inodes \cup {None})
  /\ temps \in SUBSET Inodes
  /\ writer \in [Writers -> WriterState]
  /\ reader \in [Readers -> ReaderState]

\* A file without a name that nobody has open.
Free(i) ==
  /\ i \notin temps \cup onDisk \cup {entry}
  /\ \A r \in Readers : reader[r].file # i

\* Faulty: whatever JSON is there is taken for a record of this version.
ContentUnchecked(i) ==
  IF i # None /\ inode[i].stamped THEN inode[i].text ELSE None

\* What load_session makes of a file: a stamped one can be opened by the
\* user's group, and a record of the right shape and version is returned.
Content(i) ==
  IF i # None /\ inode[i].stamped /\ inode[i].text \in Records
  THEN inode[i].text ELSE None

-----------------------------------------------------------------------------
(* save_session *)

Saving == {"made", "stamped", "partial", "written", "synced"}
At(w, pc) == writer[w].pc = pc
Goes(w, pc) == writer' = [writer EXCEPT ![w].pc = pc]

MakeTemp(w, i, v) ==
  /\ At(w, "idle")
  /\ Free(i)
  /\ inode' = [inode EXCEPT ![i] = Blank]
  /\ temps' = temps \cup {i}
  /\ writer' = [writer EXCEPT ![w] = [pc |-> "made", file |-> i, record |-> v]]
  /\ UNCHANGED <<entry, onDisk, reader>>

\* Faulty: an error of fchown or fchmod is suppressed.
StampIfAllowed(w) ==
  /\ At(w, "made")
  /\ \E done \in BOOLEAN : inode' = [inode EXCEPT ![writer[w].file].stamped = done]
  /\ Goes(w, "stamped")
  /\ UNCHANGED <<entry, onDisk, temps, reader>>

\* fchown, then fchmod.
Stamp(w) ==
  /\ At(w, "made")
  /\ inode' = [inode EXCEPT ![writer[w].file].stamped = TRUE]
  /\ Goes(w, "stamped")
  /\ UNCHANGED <<entry, onDisk, temps, reader>>

WritePart(w) ==
  /\ At(w, "stamped")
  /\ inode' = [inode EXCEPT ![writer[w].file].text = "torn"]
  /\ Goes(w, "partial")
  /\ UNCHANGED <<entry, onDisk, temps, reader>>

WriteRest(w) ==
  /\ At(w, "partial")
  /\ inode' = [inode EXCEPT ![writer[w].file].text = writer[w].record]
  /\ Goes(w, "written")
  /\ UNCHANGED <<entry, onDisk, temps, reader>>

\* Faulty: flush alone leaves the data in the system's buffers.
SyncBuffersOnly(w) ==
  /\ At(w, "written")
  /\ Goes(w, "synced")
  /\ UNCHANGED <<inode, entry, onDisk, temps, reader>>

Sync(w) ==
  /\ At(w, "written")
  /\ inode' = [inode EXCEPT ![writer[w].file].synced = TRUE]
  /\ Goes(w, "synced")
  /\ UNCHANGED <<entry, onDisk, temps, reader>>

\* os.replace: the name passes from the old file to the new one at once.
Replace(w) ==
  /\ At(w, "synced")
  /\ entry' = writer[w].file
  /\ onDisk' = onDisk \cup {entry'}
  /\ temps' = temps \ {entry'}
  /\ writer' = [writer EXCEPT ![w] = [IdleWriter EXCEPT !.pc = "verify"]]
  /\ UNCHANGED <<inode, reader>>

\* Any of these calls raises, without effect.
SaveFails(w) ==
  /\ writer[w].pc \in Saving
  /\ Goes(w, "cleanup")
  /\ UNCHANGED <<inode, entry, onDisk, temps, reader>>

\* Faulty: the handler removes the target, the name it knows.
CleanupTarget(w) ==
  /\ At(w, "cleanup")
  /\ entry' = None
  /\ onDisk' = onDisk \cup {None}
  /\ writer' = [writer EXCEPT ![w] = IdleWriter]
  /\ UNCHANGED <<inode, temps, reader>>

\* The handler unlinks the temporary file, if it can, and re-raises.
Cleanup(w) ==
  /\ At(w, "cleanup")
  /\ temps' \in {temps, temps \ {writer[w].file}}
  /\ writer' = [writer EXCEPT ![w] = IdleWriter]
  /\ UNCHANGED <<inode, entry, onDisk, reader>>

\* Faulty: a name that cannot be examined is let pass.
VerifyIfPossible(w) ==
  /\ At(w, "verify")
  /\ \/ Goes(w, "verified")
     \/ entry # None /\ ~ inode[entry].stamped /\ Goes(w, "unverified")
  /\ UNCHANGED <<inode, entry, onDisk, temps, reader>>

\* _verify_session_readable: the helper looks at the name again, which by now
\* another helper may have replaced or removed.  It looks at type, owner, group
\* and mode and never at the text, and it ends with 3 if they are wrong or lstat
\* fails, which it may do over a record that is there and whole.
Verify(w) ==
  /\ At(w, "verify")
  /\ \/ entry # None /\ inode[entry].stamped /\ Goes(w, "verified")
     \/ Goes(w, "unverified")
  /\ UNCHANGED <<inode, entry, onDisk, temps, reader>>

\* The helper ends: "privileged mount ok", or exit 3 and the manual recovery.
Report(w) ==
  /\ writer[w].pc \in {"verified", "unverified"}
  /\ Goes(w, "idle")
  /\ UNCHANGED <<inode, entry, onDisk, temps, reader>>

\* clear_session: unlink, whoever wrote what the name holds by now; an error is
\* swallowed.
Clear(w) ==
  /\ At(w, "idle")
  /\ Goes(w, "clearing")
  /\ UNCHANGED <<inode, entry, onDisk, temps, reader>>

Unlink(w) ==
  /\ At(w, "clearing")
  /\ entry' \in {None, entry}
  /\ onDisk' = onDisk \cup {entry'}
  /\ Goes(w, "idle")
  /\ UNCHANGED <<inode, temps, reader>>

-----------------------------------------------------------------------------
(* load_session *)

\* What the name holds is opened, without following a link.  When open fails, for
\* want of a file or over a whole one, the answer is None.
Open(r) ==
  /\ reader[r].pc = "idle"
  /\ \/ /\ entry # None /\ inode[entry].stamped
        /\ reader' = [reader EXCEPT ![r] = [pc |-> "opened", file |-> entry, answer |-> None]]
     \/ reader' = [reader EXCEPT ![r] = IdleReader]
  /\ UNCHANGED <<inode, entry, onDisk, temps, writer>>

\* Type, text and shape are those of the open descriptor; an error of fstat or of
\* a read is None again.
Read(r) ==
  /\ reader[r].pc = "opened"
  /\ \E v \in {Content(reader[r].file), None} :
       reader' = [reader EXCEPT ![r] = [IdleReader EXCEPT !.answer = v]]
  /\ UNCHANGED <<inode, entry, onDisk, temps, writer>>

-----------------------------------------------------------------------------
(* Processes and power *)

\* A killed writer leaves its temporary file, which nobody removes.
WriterDies(w) ==
  /\ ~ At(w, "idle")
  /\ writer' = [writer EXCEPT ![w] = IdleWriter]
  /\ UNCHANGED <<inode, entry, onDisk, temps, reader>>

ReaderDies(r) ==
  /\ reader' = [reader EXCEPT ![r] = IdleReader]
  /\ UNCHANGED <<inode, entry, onDisk, temps, writer>>

\* The system writes the directory back in its own time.
WriteBack ==
  /\ onDisk' = {entry}
  /\ UNCHANGED <<inode, entry, temps, writer, reader>>

\* Names go back to a state they had since the last write-back; files that
\* were not synced may come back empty.  Temporary names may be lost.
PowerLoss ==
  /\ entry' \in onDisk
  /\ onDisk' = {entry'}
  /\ temps' \in SUBSET temps
  /\ \E lost \in SUBSET {i \in Inodes : ~ inode[i].synced} :
       inode' = [i \in Inodes |-> IF i \in lost THEN Blank ELSE inode[i]]
  /\ writer' = [w \in Writers |-> IdleWriter]
  /\ reader' = [r \in Readers |-> IdleReader]

-----------------------------------------------------------------------------
(* The specification *)

SessionInit ==
  /\ entry \in Inodes \cup {None}
  /\ \E text \in Records \cup {"foreign"}, stamped \in BOOLEAN :
       /\ text \in Records => stamped
       /\ inode = [i \in Inodes |->
            IF i = entry THEN [text |-> text, stamped |-> stamped, synced |-> TRUE]
            ELSE Blank]
  /\ onDisk = {entry}
  /\ temps = {}
  /\ writer = [w \in Writers |-> IdleWriter]
  /\ reader = [r \in Readers |-> IdleReader]

Save(w) ==
  \/ \E i \in Inodes, v \in Records : MakeTemp(w, i, v)
  \/ Stamp(w) \/ WritePart(w) \/ WriteRest(w) \/ Sync(w) \/ Replace(w)
  \/ SaveFails(w) \/ Cleanup(w)

SessionNext ==
  \/ \E w \in Writers : Save(w) \/ Verify(w) \/ Report(w)
                        \/ Clear(w) \/ Unlink(w) \/ WriterDies(w)
  \/ \E r \in Readers : Open(r) \/ Read(r) \/ ReaderDies(r)
  \/ WriteBack
  \/ PowerLoss

SessionSpec == SessionInit /\ [][SessionNext]_sessionVars

-----------------------------------------------------------------------------
(* Properties *)

\* The name never leads to a file that is empty or half written, now or after
\* a power loss: save_session's order of write, fsync and replace.
RecordWhole ==
  \A i \in onDisk \cup {entry} :
    i = None \/ inode[i].text = "foreign" \/ Content(i) # None

\* A helper that finds its session in order, after a mount that succeeded, finds
\* a record that a load accepts, though it looks at owner, group and mode and
\* never at the text: whatever stood there before, and whoever saved, cleared or
\* died meanwhile, what has the name by then is the whole record of some save.
\* Exit 3 says less: it may be told over a record that is whole.
VerifiedMeansReadable ==
  [][\A w \in Writers :
       At(w, "verify") /\ At(w, "verified")' => Content(entry) # None]_sessionVars

\* For its readers the file is one register: a load that began before a save,
\* a removal or a crash and ended after it answers what the name held when it
\* was opened, or None, which says that there was none or that the file could not
\* be opened or read; it never answers another record or half of one.  A save
\* that raised has changed nothing.
Wish(w) ==
  IF writer[w].pc \in Saving THEN writer[w].record
  ELSE IF At(w, "clearing") THEN None ELSE "idle"
Recent == {Content(i) : i \in onDisk}
Answer(r) ==
  IF reader[r].pc = "opened" THEN Content(reader[r].file) ELSE reader[r].answer

Register == INSTANCE RecordRegister WITH
  register <- Content(entry),
  wish <- [w \in Writers |-> Wish(w)],
  recent <- Recent,
  answer <- [r \in Readers |-> Answer(r)]

ImplementsRegister == Register!Spec

=============================================================================
