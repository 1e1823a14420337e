------------------------------ MODULE Elevation ------------------------------
(***************************************************************************)
(* How an unprivileged window gets a mount or an unmount done as root      *)
(* (elevate.py, the facades of runner.py, privileged.py).                  *)
(*                                                                         *)
(* The window takes the user's lock, sweeps old request files, writes a    *)
(* request, and starts osascript, which shows the password prompt and then *)
(* runs the helper; the helper reads and unlinks the request, runs the     *)
(* pipeline of Runner, and ends with an exit code that comes back through  *)
(* osascript.  A script below is one osascript and the helper it starts.   *)
(*                                                                         *)
(* What is abstracted.  A window is one process of the user (the thread    *)
(* lock and the busy button make it one operation each).  The pipeline is  *)
(* reduced to what it does to the record; ElevatedRunner puts the real one *)
(* in its place.  Request contents, their digest and their checks are one  *)
(* nondeterministic verdict.  Removing a request from the user's own       *)
(* directory succeeds.                                                     *)
(***************************************************************************)
EXTENDS Integers

CONSTANTS
  Windows,  \* processes of one user that elevate
  Scripts,  \* osascript processes
  Files,    \* names mkstemp can draw for a request
  None,     \* no window, no script, no file
  Abandon   \* may a window stop waiting for a helper that runs?

ASSUME ElevationConstants ==
  /\ None \notin Windows \cup Scripts \cup Files \cup {"ok", "cancelled", "timedOut", "failed"}
  /\ Abandon \in BOOLEAN

VARIABLES
  lock,      \* the window holding the flock, or None
  requests,  \* request files on disk
  window,    \* window -> where its operation is, with its local variables
  script,    \* script -> the prompt or helper it is, and for which request
  recorded   \* does load_session find a session at the root path?

transport == <<lock, requests, window, script>>
elevationVars == <<lock, requests, window, script, recorded>>

-----------------------------------------------------------------------------
(* Types and vocabulary *)

Actions == {"mount", "unmount"}
Answers == {"ok", "cancelled", "timedOut", "failed"}

WindowState ==
  [pc : {"idle", "lock", "prepare", "write", "launch", "wait", "answer"},
   action : Actions \cup {None}, file : Files \cup {None},
   script : Scripts \cup {None}, answer : Answers \cup {None}]

\* prompt: the password dialog is up.  started: the helper has not read its
\* request yet.  working: the pipeline runs.  done: it has returned.
ScriptState ==
  [pc : {"none", "prompt", "started", "working", "done"},
   action : Actions \cup {None}, file : Files \cup {None}]

IdleWindow == [pc |-> "idle", action |-> None, file |-> None, script |-> None,
               answer |-> None]
NoScript == [pc |-> "none", action |-> None, file |-> None]

ElevationTypeOK ==
  /\ lock \in Windows \cup {None}
  /\ requests \in SUBSET Files
  /\ window \in [Windows -> WindowState]
  /\ script \in [Scripts -> ScriptState]
  /\ recorded \in BOOLEAN

HelperPcs == {"started", "working", "done"}
Runs(s) == script[s].pc \in HelperPcs
Waits(w, s) == window[w].pc = "wait" /\ window[w].script = s

\* mkstemp: no file of that name, and (the names are random) nobody who still
\* looks for an earlier one.
FreshFile(f) ==
  /\ f \notin requests
  /\ \A w \in Windows : window[w].file # f
  /\ \A s \in Scripts : script[s].file # f

-----------------------------------------------------------------------------
(* The exit status on its way back *)

Texts == {"plain", "canceled", "timeout"}

\* Without a known number the wording decides.
Heuristic(text) ==
  CASE text = "canceled" -> "cancelled"
    [] text = "timeout" -> "timedOut"
    [] OTHER -> "failed"

\* Faulty: a status that no caller of the transaction knows.
ClassifyUnhandled(code, text) ==
  CASE code = 0 -> "ok"
    [] code = -128 -> "cancelled"
    [] code = -1712 -> "timedOut"
    [] code \in {2, 3, 4} -> "failed"
    [] OTHER -> IF text = "timeout" THEN "timedOut" ELSE "unknown"

\* Faulty: an unknown number is taken for a refused authorization.
ClassifyUnknownAsCancel(code, text) ==
  CASE code = 0 -> "ok"
    [] code = -1712 -> "timedOut"
    [] code \in {2, 3, 4} -> "failed"
    [] OTHER -> IF text = "timeout" THEN "timedOut" ELSE "cancelled"

\* classify_osascript_failure: -128 and -1712 are osascript's own, 2, 3 and 4
\* the helper's; of any other number the wording decides.
Classify(code, text) ==
  CASE code = 0 -> "ok"
    [] code = -128 -> "cancelled"
    [] code = -1712 -> "timedOut"
    [] code \in {2, 3, 4} -> "failed"
    [] OTHER -> Heuristic(text)

\* osascript s exits; the window that waits for it, if any still does, learns
\* the classified status.
Ends(s, code, text) ==
  /\ script' = [script EXCEPT ![s] = NoScript]
  /\ window' = [w \in Windows |->
       IF Waits(w, s)
       THEN [window[w] EXCEPT !.pc = "answer", !.answer = Classify(code, text)]
       ELSE window[w]]
  /\ UNCHANGED lock

-----------------------------------------------------------------------------
(* The window: mount_volume and unmount_volume, not root *)

\* mount_volume asks whether a session is active before it takes the lock (one
\* that looks stale does not block); unmount_volume wants one to unmount.
Click(w, a) ==
  /\ window[w].pc = "idle"
  /\ a = "unmount" => recorded
  /\ window' = [window EXCEPT ![w] = [IdleWindow EXCEPT !.pc = "lock", !.action = a]]
  /\ UNCHANGED <<lock, requests, script, recorded>>

\* Faulty: the lock file is opened but not locked.
AcquireNothing(w) ==
  /\ window[w].pc = "lock"
  /\ lock' = w
  /\ window' = [window EXCEPT ![w].pc = "prepare"]
  /\ UNCHANGED <<requests, script, recorded>>

Acquire(w) ==
  /\ window[w].pc = "lock"
  /\ lock = None
  /\ lock' = w
  /\ window' = [window EXCEPT ![w].pc = "prepare"]
  /\ UNCHANGED <<requests, script, recorded>>

\* Leaving elevation_transaction, whatever the reason: the request goes first.
Leave(w) ==
  /\ requests' = requests \ {window[w].file}
  /\ window' = [window EXCEPT ![w] = IdleWindow]
  /\ lock' = IF lock = w THEN None ELSE lock

\* Faulty: removes only what the window wrote itself, that is, nothing.
PrepareUnswept(w) ==
  /\ window[w].pc = "prepare"
  /\ \/ Leave(w)
     \/ window' = [window EXCEPT ![w].pc = "write"] /\ UNCHANGED <<lock, requests>>
  /\ UNCHANGED <<script, recorded>>

\* Faulty: a refused source tree raises with the lock held.
PrepareKeepsLock(w) ==
  /\ window[w].pc = "prepare"
  /\ \/ window' = [window EXCEPT ![w] = IdleWindow] /\ UNCHANGED <<lock, requests>>
     \/ window' = [window EXCEPT ![w].pc = "write"] /\ requests' = {} /\ UNCHANGED lock
  /\ UNCHANGED <<script, recorded>>

\* prepare_elevation_paths: an unsafe path or a writable source file refuses;
\* otherwise request files of any earlier run are swept.
Prepare(w) ==
  /\ window[w].pc = "prepare"
  /\ \/ Leave(w)
     \/ window' = [window EXCEPT ![w].pc = "write"] /\ requests' = {} /\ UNCHANGED lock
  /\ UNCHANGED <<script, recorded>>

\* A bad volume path or a failed write leaves nothing behind.
WriteRequest(w) ==
  /\ window[w].pc = "write"
  /\ \/ Leave(w)
     \/ \E f \in Files :
          /\ FreshFile(f)
          /\ requests' = requests \cup {f}
          /\ window' = [window EXCEPT ![w].file = f, ![w].pc = "launch"]
          /\ UNCHANGED lock
  /\ UNCHANGED <<script, recorded>>

Launch(w) ==
  /\ window[w].pc = "launch"
  /\ \/ Leave(w) /\ UNCHANGED script
     \/ \E s \in Scripts :
          /\ script[s] = NoScript
          /\ script' = [script EXCEPT ![s] = [pc |-> "prompt", file |-> window[w].file,
                                              action |-> window[w].action]]
          /\ window' = [window EXCEPT ![w].script = s, ![w].pc = "wait"]
          /\ UNCHANGED <<lock, requests>>
  /\ UNCHANGED recorded

\* subprocess.run gives up and kills osascript, and a prompt with it; a helper
\* already started is root's and goes on.
GiveUp(w) ==
  LET s == window[w].script IN
  /\ window[w].pc = "wait"
  /\ script[s].pc = "prompt" \/ Abandon
  /\ window' = [window EXCEPT ![w].pc = "answer", ![w].answer = "timedOut"]
  /\ script' = [script EXCEPT ![s] = IF @.pc = "prompt" THEN NoScript ELSE @]
  /\ UNCHANGED <<lock, requests, recorded>>

\* run_elevated_mount reads the session when told "ok"; then the way out.
Answer(w) ==
  /\ window[w].pc = "answer"
  /\ Leave(w)
  /\ UNCHANGED <<script, recorded>>

\* The window is quit or killed.  The kernel drops its flock; its request
\* stays, and so does an osascript it started.
WindowDies(w) ==
  /\ window[w].pc # "idle"
  /\ window[w].pc = "wait" => Abandon
  /\ window' = [window EXCEPT ![w] = IdleWindow]
  /\ lock' = IF lock = w THEN None ELSE lock
  /\ UNCHANGED <<requests, script, recorded>>

-----------------------------------------------------------------------------
(* The prompt *)

\* Cancelled, timed out, or refused by the system.
PromptFails(s) ==
  /\ script[s].pc = "prompt"
  /\ \E code \in {-128, -1712, 1}, text \in Texts : Ends(s, code, text)
  /\ UNCHANGED <<requests, recorded>>

Authorize(s) ==
  /\ script[s].pc = "prompt"
  /\ script' = [script EXCEPT ![s].pc = "started"]
  /\ UNCHANGED <<lock, requests, window, recorded>>

-----------------------------------------------------------------------------
(* The helper: main of privileged.py *)

\* The request is read, compared with its digest, unlinked, and validated.  It
\* may be gone; a bad one is refused before or after its removal.
ReadRequest(s) ==
  /\ script[s].pc = "started"
  /\ \/ /\ script[s].file \in requests
        /\ requests' = requests \ {script[s].file}
        /\ script' = [script EXCEPT ![s].pc = "working"]
        /\ UNCHANGED <<lock, window>>
     \/ /\ requests' \in {requests, requests \ {script[s].file}}
        /\ Ends(s, 2, "plain")
  /\ UNCHANGED recorded

\* A mount clears the record of a stack that is gone and goes on.
ClearsStale(s) ==
  /\ script[s].pc = "working" /\ script[s].action = "mount"
  /\ recorded' = FALSE
  /\ UNCHANGED transport

\* A mount saves its session before it returns; the log call in between can
\* still make it fail.
Records(s) ==
  /\ script[s].pc = "working" /\ script[s].action = "mount"
  /\ recorded' = TRUE
  /\ UNCHANGED transport

\* The pipeline returns.  A mount has saved its session; an unmount has
\* cleared it, as far as clear_session can.
Returns(s) ==
  /\ script[s].pc = "working"
  /\ \/ script[s].action = "mount" /\ recorded' = TRUE
     \/ script[s].action = "unmount" /\ recorded' \in {FALSE, recorded}
  /\ script' = [script EXCEPT ![s].pc = "done"]
  /\ UNCHANGED <<lock, requests, window>>

\* The pipeline raises: exit 3, or 4 for the unexpected.  A failed mount ends
\* in a cleanup that clears the record.
Fails(s) ==
  /\ script[s].pc = "working"
  /\ \E code \in {3, 4} : Ends(s, code, "plain")
  /\ \/ script[s].action = "mount" /\ recorded' = FALSE
     \/ UNCHANGED recorded
  /\ UNCHANGED requests

\* Exit 0, unless the record cannot be verified or the log not written.
Exits(s) ==
  /\ script[s].pc = "done"
  /\ \E code \in {0, 3, 4} : Ends(s, code, "plain")
  /\ UNCHANGED <<requests, recorded>>

\* Python fails to start, or the helper is killed: no code of its own, and
\* what the interpreter printed, which may be the text of ETIMEDOUT.
HelperDies(s) ==
  /\ Runs(s)
  /\ \E text \in {"plain", "timeout"} : Ends(s, 1, text)
  /\ UNCHANGED <<requests, recorded>>

\* A reboot leaves files only.
Restart ==
  /\ lock' = None
  /\ window' = [w \in Windows |-> IdleWindow]
  /\ script' = [s \in Scripts |-> NoScript]
  /\ UNCHANGED <<requests, recorded>>

-----------------------------------------------------------------------------
(* The specification *)

ElevationInit ==
  /\ lock = None
  /\ requests \in SUBSET Files
  /\ window = [w \in Windows |-> IdleWindow]
  /\ script = [s \in Scripts |-> NoScript]
  /\ recorded \in BOOLEAN

Transact(w) ==
  \/ Acquire(w) \/ Prepare(w) \/ WriteRequest(w) \/ Launch(w)
  \/ GiveUp(w) \/ Answer(w)

Transport ==
  \/ \E w \in Windows, a \in Actions : Click(w, a)
  \/ \E w \in Windows : Transact(w) \/ WindowDies(w)
  \/ \E s \in Scripts : \/ PromptFails(s) \/ Authorize(s) \/ ReadRequest(s)
                        \/ Exits(s) \/ HelperDies(s)
  \/ Restart

Pipeline(s) == ClearsStale(s) \/ Records(s) \/ Returns(s) \/ Fails(s)

ElevationNext == Transport \/ \E s \in Scripts : Pipeline(s)

ElevationSpec == ElevationInit /\ [][ElevationNext]_elevationVars

-----------------------------------------------------------------------------
(* Properties *)

\* One helper at a time, in whatever window it was asked for: the lock is held
\* from the sweep until the helper has answered.
HelpersSerialized == \A s, t \in Scripts : Runs(s) /\ Runs(t) => s = t

\* A window that waits for its prompt or its helper still has its request on
\* disk: no other window's sweep takes it.
RequestKept ==
  \A w \in Windows, s \in Scripts :
    Waits(w, s) /\ script[s].pc \in {"prompt", "started"} => window[w].file \in requests

\* Requests hold secrets.  From the sweep on, the only one on disk is that of
\* the window holding the lock, whatever killed runs left before.
OnlyOwnRequest ==
  \A w \in Windows :
    lock = w /\ window[w].pc # "prepare" => requests \subseteq {window[w].file}

\* A window told that its mount succeeded finds the session to show.
SuccessHasRecord ==
  \A w \in Windows :
    window[w].pc = "answer" /\ window[w].action = "mount" /\ window[w].answer = "ok"
      => recorded

\* "Nothing was mounted": told that the authorization was cancelled, the
\* window's helper has not been started, now or earlier.
CancelledBeforeHelper ==
  [][\A w \in Windows, s \in Scripts :
       Waits(w, s) /\ window'[w].answer = "cancelled" => script[s].pc = "prompt"]_elevationVars

\* Fairness.  Running code goes on, a blocked flock is granted in the end
\* though not in order, and subprocess.run always times out; nobody has to
\* answer a prompt or to click, and helpers need not end.
FairElevation ==
  /\ ElevationSpec
  /\ \A w \in Windows :
       /\ SF_elevationVars(Acquire(w))
       /\ WF_elevationVars(Prepare(w)) /\ WF_elevationVars(WriteRequest(w))
       /\ WF_elevationVars(Launch(w)) /\ WF_elevationVars(GiveUp(w))
       /\ WF_elevationVars(Answer(w))

\* Every click is answered, also with others queueing for the lock.
ClickAnswered == \A w \in Windows : window[w].pc # "idle" ~> window[w].pc = "idle"

=============================================================================
