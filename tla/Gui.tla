-------------------------------- MODULE Gui --------------------------------
(***************************************************************************)
(* Operations of the window (gui.py): one Tk thread that handles clicks    *)
(* and posted callbacks, and worker threads that run a mount or an unmount *)
(* and post their results with after(0).                                   *)
(*                                                                         *)
(* What is abstracted.  What a request says is the matter of Form; here it *)
(* is the mode asked for.  An operation is what it does to the session     *)
(* record (Runner and Elevation have the rest).  A message box is modal:   *)
(* no click reaches the window, but its event loop goes on serving         *)
(* callbacks.  Log lines and the disk list decide nothing and are left     *)
(* out.                                                                    *)
(***************************************************************************)
EXTENDS Integers, Sequences

CONSTANTS
  Workers,    \* worker threads that can be alive at once (a bound)
  MaxDialogs, \* message boxes open inside one another (a bound)
  None

ASSUME GuiConstants ==
  /\ MaxDialogs \in Nat \ {0}
  /\ None \notin {"RO", "RW"}

VARIABLES
  tools,    \* self.deps: are the core tools there?
  busy,     \* self._busy
  worker,   \* thread -> where it is
  posted,   \* callbacks posted, first in, first out
  dialogs,  \* message boxes open
  status,   \* the session status line
  record,   \* the session file: None, "RO" or "RW"
  foreign   \* has anyone else changed it since the line was written?

session == <<status, record, foreign>>
guiVars == <<tools, busy, worker, posted, dialogs, status, record, foreign>>

-----------------------------------------------------------------------------
(* Types and vocabulary *)

Sessions == {"RO", "RW"}
Callbacks == {"message", "release", "refresh"}

\* run: the thread is in the pipeline.  release, refresh: what it has left to
\* post.
WorkerState ==
  [pc : {"none", "run", "release", "refresh"}, op : {"mount", "unmount"}, mode : Sessions]
NoWorker == [pc |-> "none", op |-> "unmount", mode |-> "RO"]

GuiTypeOK ==
  /\ tools \in BOOLEAN
  /\ busy \in BOOLEAN
  /\ worker \in [Workers -> WorkerState]
  /\ posted \in Seq(Callbacks)
  /\ dialogs \in 0..MaxDialogs
  /\ status \in Sessions \cup {None} /\ record \in Sessions \cup {None}
  /\ foreign \in BOOLEAN

\* A click reaches the window when no message box is open.
Clickable == dialogs = 0
Opens == dialogs < MaxDialogs /\ dialogs' = dialogs + 1

-----------------------------------------------------------------------------
(* Clicks *)

\* _set_busy(True), then the thread is started with the values of this moment.
Starts(k, op, mode) ==
  /\ Clickable /\ ~ busy
  /\ worker[k].pc = "none"
  /\ busy' = TRUE
  /\ worker' = [worker EXCEPT ![k] =
       [pc |-> "run", op |-> op, mode |-> mode]]
  /\ UNCHANGED <<tools, posted, dialogs, session>>

OnMount(k, mode) == tools /\ Starts(k, "mount", mode)
OnUnmount(k) == Starts(k, "unmount", "RO")

\* Missing tools: the window's own, or those only root may use, which are
\* looked up at every click.
MountRefused ==
  /\ Clickable /\ ~ busy
  /\ Opens
  /\ UNCHANGED <<tools, busy, worker, posted, session>>

RecheckDeps ==
  /\ Clickable
  /\ tools' \in BOOLEAN
  /\ UNCHANGED <<busy, worker, posted, dialogs, session>>

Dismiss ==
  /\ dialogs > 0
  /\ dialogs' = dialogs - 1
  /\ UNCHANGED <<tools, busy, worker, posted, session>>

-----------------------------------------------------------------------------
(* Worker threads *)

Posts(k, callbacks, pc) ==
  /\ posted' = posted \o callbacks
  /\ worker' = [worker EXCEPT ![k] = IF pc = "none" THEN NoWorker ELSE [@ EXCEPT !.pc = pc]]

\* A mount leaves a record of the mode asked for; one that fails may have
\* cleared a stale record.  Either may fail with nothing done.
Effect(k) ==
  \/ worker[k].op = "mount" /\ record' \in {worker[k].mode, None}
  \/ worker[k].op = "unmount" /\ record' = None
  \/ UNCHANGED record

\* Faulty: the handler of the exception releases, and so does the finally.
OperateReleasesTwice(k) ==
  /\ worker[k].pc = "run"
  /\ Effect(k)
  /\ \/ Posts(k, <<"message">>, "release")
     \/ Posts(k, <<"message", "release">>, "release")
  /\ UNCHANGED <<tools, busy, dialogs, status, foreign>>

\* Faulty: the buttons come back only after a success.
OperateReleasesOnSuccess(k) ==
  /\ worker[k].pc = "run"
  /\ Effect(k)
  /\ \/ Posts(k, <<"message">>, "release")
     \/ Posts(k, <<"message">>, "refresh")
  /\ UNCHANGED <<tools, busy, dialogs, status, foreign>>

\* The operation ends, by return or by exception, and its message is posted.
Operate(k) ==
  /\ worker[k].pc = "run"
  /\ Effect(k)
  /\ Posts(k, <<"message">>, "release")
  /\ UNCHANGED <<tools, busy, dialogs, status, foreign>>

\* The finally: two more callbacks, one call after the other.
PostRelease(k) ==
  /\ worker[k].pc = "release"
  /\ Posts(k, <<"release">>, "refresh")
  /\ UNCHANGED <<tools, busy, dialogs, session>>

\* Faulty: the line is brought up to date for a mount only.
PostRefreshAfterMount(k) ==
  /\ worker[k].pc = "refresh"
  /\ Posts(k, IF worker[k].op = "mount" THEN <<"refresh">> ELSE <<>>, "none")
  /\ UNCHANGED <<tools, busy, dialogs, session>>

PostRefresh(k) ==
  /\ worker[k].pc = "refresh"
  /\ Posts(k, <<"refresh">>, "none")
  /\ UNCHANGED <<tools, busy, dialogs, session>>

-----------------------------------------------------------------------------
(* Callbacks on the Tk thread *)

Takes(callback) == posted # <<>> /\ Head(posted) = callback /\ posted' = Tail(posted)

\* The message box opens; what comes after it in the queue need not wait.
ShowMessage ==
  /\ Takes("message")
  /\ Opens
  /\ UNCHANGED <<tools, busy, worker, session>>

SetNotBusy ==
  /\ Takes("release")
  /\ busy' = FALSE
  /\ UNCHANGED <<tools, worker, dialogs, session>>

\* Faulty: a record that cannot be read is shown as a mode of its own.
RefreshUnreadable ==
  /\ Takes("refresh")
  /\ status' \in {record, "unreadable"}
  /\ foreign' = FALSE
  /\ UNCHANGED <<tools, busy, worker, dialogs, record>>

\* The record is read when the callback runs, not when it was posted.
RefreshSessionStatus ==
  /\ Takes("refresh")
  /\ status' = record
  /\ foreign' = FALSE
  /\ UNCHANGED <<tools, busy, worker, dialogs, record>>

-----------------------------------------------------------------------------
(* The world outside the window *)

\* Another window, or a helper this one gave up on.
OthersChange(v) ==
  /\ record' = v
  /\ foreign' = TRUE
  /\ UNCHANGED <<tools, busy, worker, posted, dialogs, status>>

\* Quitting takes the daemon threads along; the next window starts afresh on
\* the record it finds.
Relaunch ==
  /\ tools' \in BOOLEAN
  /\ busy' = FALSE /\ worker' = [k \in Workers |-> NoWorker]
  /\ posted' = <<>> /\ dialogs' = 0
  /\ status' = record /\ foreign' = FALSE
  /\ UNCHANGED record

GuiInit ==
  /\ tools \in BOOLEAN
  /\ busy = FALSE /\ worker = [k \in Workers |-> NoWorker]
  /\ posted = <<>> /\ dialogs = 0
  /\ record \in Sessions \cup {None} /\ status = record /\ foreign = FALSE

-----------------------------------------------------------------------------
(* The specification *)

Click ==
  \/ \E k \in Workers : OnUnmount(k) \/ \E mode \in Sessions : OnMount(k, mode)
  \/ MountRefused \/ RecheckDeps

WorkerStep(k) == Operate(k) \/ PostRelease(k) \/ PostRefresh(k)

Callback == ShowMessage \/ SetNotBusy \/ RefreshSessionStatus

GuiNext ==
  \/ Click
  \/ Dismiss
  \/ \E k \in Workers : WorkerStep(k)
  \/ Callback
  \/ \E v \in Sessions \cup {None} : OthersChange(v)
  \/ Relaunch

GuiSpec == GuiInit /\ [][GuiNext]_guiVars

\* Fairness.  A thread whose operation has ended runs on; nothing is assumed of
\* the operation itself, which waits without a time-out for a window that holds
\* the lock or, with root rights, for hdiutil attach.  The Tk thread serves
\* callbacks when no message box is open, as macOS may not while one is; the
\* user answers message boxes.
FairGui ==
  /\ GuiSpec
  /\ \A k \in Workers : WF_guiVars(PostRelease(k)) /\ WF_guiVars(PostRefresh(k))
  /\ WF_guiVars(Dismiss)
  /\ SF_guiVars(Clickable /\ Callback)

-----------------------------------------------------------------------------
(* Properties *)

\* The buttons are off from the click until that operation is over: at most
\* one thread is in a pipeline, and the release on its way is its own.
InPipeline(k) == worker[k].pc \in {"run", "release"}
Releases == {i \in DOMAIN posted : posted[i] = "release"}
OneOperation ==
  /\ \A k, l \in Workers : InPipeline(k) /\ InPipeline(l) => k = l
  /\ \A k \in Workers : InPipeline(k) => busy /\ Releases = {}
  /\ \A i, j \in Releases : i = j

\* With nothing under way the status line tells what the record says, as far
\* as this window's own operations change it, however their callbacks and the
\* next click interleaved.
Quiet == posted = <<>> /\ \A k \in Workers : worker[k].pc = "none"
StatusCurrent == Quiet /\ ~ foreign => status = record

\* Once its operation has ended, however it ended, the buttons come back, with
\* whatever message boxes and callbacks in between.  A command that hangs keeps
\* them off for good.
BusyEnds == (busy /\ \A k \in Workers : worker[k].pc # "run") ~> ~ busy

=============================================================================
