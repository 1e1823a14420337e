-------------------------------- MODULE Form --------------------------------
(***************************************************************************)
(* The form of the window (gui.py): unlock method, secret field with its   *)
(* Show button and auto-hide timer, the read-only box that the tools found *)
(* enable or force, and the request that Mount makes of them.              *)
(*                                                                         *)
(* What is abstracted.  When Mount may be clicked is the matter of Gui.  A *)
(* message or file dialog is modal: no click reaches the window, but its   *)
(* event loop goes on serving timers.  Time passes in ticks; the Tk thread *)
(* may be late for any timer.                                              *)
(***************************************************************************)
EXTENDS MountPlan

CONSTANTS
  Timers,     \* identifiers of after()
  HideTicks,  \* PWD_AUTO_HIDE_MS
  MaxDialogs, \* dialogs open inside one another (a bound)
  MaxDevices, \* devices of an attached image (a bound)
  None

ASSUME FormConstants ==
  /\ HideTicks \in Nat \ {0} /\ MaxDialogs \in Nat \ {0} /\ MaxDevices \in Nat
  /\ None \notin Timers /\ None \notin Methods /\ None \notin 0..HideTicks

VARIABLES
  method,     \* the radio button chosen
  secret,     \* what is in the field
  enteredFor, \* the method chosen when it was put there, or None
  masked,     \* is the field shown as asterisks?
  visible,    \* self.pwd_visible
  hideTimer,  \* self._pwd_hide_timer
  pending,    \* after() timers that will fire -> ticks left
  shown,      \* ticks since the password was revealed
  tools,      \* self.deps: "none", "core", or "all" with ntfs-3g
  readonly,   \* the check box
  dialogs     \* open dialogs, the innermost last

field == <<secret, enteredFor>>
countdown == <<visible, hideTimer, pending, shown>>
options == <<tools, readonly>>
formVars == <<method, secret, enteredFor, masked, visible, hideTimer, pending, shown,
              tools, readonly, dialogs>>

-----------------------------------------------------------------------------
(* Types and vocabulary *)

FormTypeOK ==
  /\ method \in Methods
  /\ secret \in [start : TypedStarts, tilde : BOOLEAN]
  /\ enteredFor \in Methods \cup {None}
  /\ masked \in BOOLEAN /\ visible \in BOOLEAN
  /\ hideTimer \in Timers \cup {None}
  /\ pending \in [Timers -> 0..HideTicks \cup {None}]
  /\ shown \in 0..HideTicks
  /\ tools \in {"none", "core", "all"} /\ readonly \in BOOLEAN
  /\ dialogs \in SeqOf({"message", "browse"}, MaxDialogs)

\* A click reaches the window when no dialog is open.
Clickable == dialogs = <<>>

\* What can be typed for a method; of a password only whether it is empty
\* matters.
Typable(m) ==
  IF m = "bek_file" THEN {s \in Secrets : s.start = "empty" => s = Empty}
  ELSE {Empty, [Empty EXCEPT !.start = "word"]}

-----------------------------------------------------------------------------
(* The secret field *)

Cancel(t) == pending' = [pending EXCEPT ![t] = None]

\* Faulty: hiding by hand leaves the timer running.
HideWithoutCancel ==
  /\ visible' = FALSE /\ shown' = 0
  /\ hideTimer' = None
  /\ UNCHANGED pending

\* The second half of _toggle_password_visibility.
Hide ==
  /\ visible' = FALSE /\ shown' = 0
  /\ hideTimer' = None
  /\ IF hideTimer = None THEN UNCHANGED pending ELSE Cancel(hideTimer)

\* The first: clear text, with a countdown of its own.
Reveal ==
  /\ visible' = TRUE /\ shown' = 0
  /\ \E t \in Timers :
       /\ pending[t] = None
       /\ hideTimer' = t
       /\ pending' = [pending EXCEPT ![t] = HideTicks]

\* The button is packed only for a user password.
TogglePasswordVisibility ==
  /\ Clickable /\ method = "user_password"
  /\ IF visible THEN Hide ELSE Reveal
  /\ masked' = visible
  /\ UNCHANGED <<method, field, options, dialogs>>

\* Faulty: a timer that fires behind a dialog is dropped.
AutoHideUnlessDialog(t) ==
  /\ pending[t] = 0
  /\ Cancel(t)
  /\ hideTimer' = None
  /\ IF visible /\ Clickable
     THEN visible' = FALSE /\ masked' = TRUE /\ shown' = 0
     ELSE UNCHANGED <<visible, masked, shown>>
  /\ UNCHANGED <<method, field, options, dialogs>>

\* A timer that is due fires, in a dialog's event loop as well.
AutoHidePassword(t) ==
  /\ pending[t] = 0
  /\ Cancel(t)
  /\ hideTimer' = None
  /\ IF visible
     THEN visible' = FALSE /\ masked' = TRUE /\ shown' = 0
     ELSE UNCHANGED <<visible, masked, shown>>
  /\ UNCHANGED <<method, field, options, dialogs>>

Tick ==
  /\ \E t \in Timers : pending[t] \notin {None, 0}
  /\ pending' = [t \in Timers |->
       IF pending[t] \in {None, 0} THEN pending[t] ELSE pending[t] - 1]
  /\ shown' = IF visible /\ shown < HideTicks THEN shown + 1 ELSE shown
  /\ UNCHANGED <<method, field, masked, visible, hideTimer, options, dialogs>>

\* Faulty: the new method starts with the old one's secret.
MethodChangeKeepsSecret(m) ==
  /\ Clickable
  /\ method' = m
  /\ IF visible THEN Hide ELSE UNCHANGED countdown
  /\ masked' = (m # "bek_file")
  /\ UNCHANGED <<field, options, dialogs>>

\* Faulty: the field is unmasked for a path, the countdown left as it is.
MethodChangeKeepsTimer(m) ==
  /\ Clickable
  /\ method' = m
  /\ secret' = Empty /\ enteredFor' = None
  /\ masked' = (m # "bek_file")
  /\ UNCHANGED <<countdown, options, dialogs>>

\* Faulty: the field is set to no value instead of the empty text.
MethodChangeToNone(m) ==
  /\ Clickable
  /\ method' = m
  /\ secret' = None /\ enteredFor' = None
  /\ IF visible THEN Hide ELSE UNCHANGED countdown
  /\ masked' = (m # "bek_file")
  /\ UNCHANGED <<options, dialogs>>

\* _on_method_change, also when the chosen button is clicked again.
MethodChange(m) ==
  /\ Clickable
  /\ method' = m
  /\ secret' = Empty /\ enteredFor' = None
  /\ IF visible THEN Hide ELSE UNCHANGED countdown
  /\ masked' = (m # "bek_file")
  /\ UNCHANGED <<options, dialogs>>

TypeSecret ==
  /\ Clickable
  /\ secret' \in Typable(method) /\ enteredFor' = method
  /\ UNCHANGED <<method, masked, countdown, options, dialogs>>

-----------------------------------------------------------------------------
(* Dialogs *)

Opens(d) == Len(dialogs) < MaxDialogs /\ dialogs' = Append(dialogs, d)

\* A worker's message, or a click's, opens whenever the event loop runs.
MessageOpens ==
  /\ Opens("message")
  /\ UNCHANGED <<method, field, masked, countdown, options>>

\* The button is enabled only for a .bek file.
BrowseBek ==
  /\ Clickable /\ method = "bek_file"
  /\ Opens("browse")
  /\ UNCHANGED <<method, field, masked, countdown, options>>

\* The innermost dialog is answered; a chosen path goes into the field.
Dismiss ==
  /\ dialogs # <<>>
  /\ dialogs' = Front(dialogs)
  /\ \/ UNCHANGED field
     \/ /\ Last(dialogs) = "browse"
        /\ secret' \in {s \in Secrets : s.start = "slash"}
        /\ enteredFor' = "bek_file"
  /\ UNCHANGED <<method, masked, countdown, options>>

-----------------------------------------------------------------------------
(* Tools and the check box *)

\* can_write of DepsStatus.
CanWrite(t) == t = "all"

\* Faulty: the hint changes, the check box keeps its value.
RecheckKeepsReadonly(t) ==
  /\ Clickable
  /\ tools' = t
  /\ UNCHANGED <<readonly, method, field, masked, countdown, dialogs>>

\* _recheck_deps, with _update_rw_hint: without ntfs-3g, read-only.
RecheckDeps(t) ==
  /\ Clickable
  /\ tools' = t
  /\ readonly' = (readonly \/ ~ CanWrite(t))
  /\ UNCHANGED <<method, field, masked, countdown, dialogs>>

ToggleReadonly ==
  /\ Clickable /\ CanWrite(tools)
  /\ readonly' = ~ readonly
  /\ UNCHANGED <<tools, method, field, masked, countdown, dialogs>>

-----------------------------------------------------------------------------
(* The specification *)

FormInit ==
  /\ method = "user_password" /\ secret = Empty /\ enteredFor = None
  /\ masked = TRUE /\ visible = FALSE
  /\ hideTimer = None /\ pending = [t \in Timers |-> None] /\ shown = 0
  /\ tools \in {"none", "core", "all"} /\ readonly = TRUE
  /\ dialogs = <<>>

FormNext ==
  \/ TogglePasswordVisibility \/ TypeSecret \/ Tick
  \/ \E t \in Timers : AutoHidePassword(t)
  \/ \E m \in Methods : MethodChange(m)
  \/ MessageOpens \/ BrowseBek \/ Dismiss
  \/ \E t \in {"none", "core", "all"} : RecheckDeps(t)
  \/ ToggleReadonly

FormSpec == FormInit /\ [][FormNext]_formVars

\* Fairness.  Time passes; dialogs end (no click opens one behind another), and
\* when none is open the event loop gets to a timer that is due.
FairForm ==
  /\ FormSpec
  /\ WF_formVars(Tick) /\ []<>Clickable
  /\ \A t \in Timers : SF_formVars(Clickable /\ AutoHidePassword(t))

\* The request Mount makes of the form, for a volume; it makes none when core
\* tools are missing.
MountRequest(volume) ==
  [volume |-> volume, method |-> method, secret |-> secret, readonly |-> readonly]
OnMount(volume) ==
  IF Clickable /\ tools # "none" THEN {MountRequest(volume)} ELSE {}

-----------------------------------------------------------------------------
(* Properties of the form *)

\* A password is in clear text only while the countdown that will mask it
\* runs: whatever was toggled, chosen or fired before, the timer the window
\* holds is the one pending, and there is no other.
ClearTextTimed ==
  /\ ~ masked /\ secret # Empty => visible \/ enteredFor = "bek_file"
  /\ visible => ~ masked /\ method = "user_password"
  /\ \A t \in Timers : pending[t] # None <=> visible /\ t = hideTimer

\* "Fixed countdown": no timer cuts a reveal short, as one left over from an
\* earlier reveal would.
NeverHiddenEarly ==
  [][\A t \in Timers :
       pending[t] = 0 /\ pending'[t] = None /\ visible /\ ~ visible'
         => shown = HideTicks]_formVars

\* A revealed password is masked again, whatever else the user does.
ClearTextEnds == visible ~> ~ visible

-----------------------------------------------------------------------------
(* Properties of the requests it makes *)

\* A secret is used by the method it was entered for (a password never as a
\* path), and writing is asked for only with the tool that NTFS needs for it.
RequestConsistent ==
  \A req \in OnMount("disk") :
    /\ req.secret = Empty \/ enteredFor = req.method
    /\ req.readonly \/ CanWrite(tools)

\* A request for read-only is read-only in every command that has a choice,
\* whatever file system turns up and whoever runs them, and one for writing is
\* not demoted.  hdiutil attach has none: it only ever gets at the file of a
\* dislocker-fuse that was told.
ReadOnlyHonoured ==
  \A volume \in {"disk", "other"} : \A req \in OnMount(volume), world \in Worlds(MaxDevices) :
    LET run == Commands(req, world) IN
    \A i \in DOMAIN run :
      IF run[i].helper = "hdiutil" THEN i = 2 /\ run[1].helper = "dislocker"
      ELSE run[i].readonly = req.readonly

\* The helper runs with exactly the key file that the user's path means in the
\* user's window, or the typed password; what the form can submit and the
\* helper refuses all the same is an empty password and a path with "~" in it.
SecretDelivered ==
  \A req \in OnMount("disk"), world \in Worlds(0) :
    world.launch = "helper" /\ ~ WriteFails(req) =>
      LET meant == IF req.method = "bek_file" THEN Expand(req.secret, "user") ELSE req.secret IN
      IF meant = Empty \/ (req.method = "bek_file" /\ meant.tilde)
      THEN Delivered(req, world) = <<>>
      ELSE Delivered(req, world) = <<[req EXCEPT !.secret = meant]>>

\* The device mounted is the first that shows a file system at all, for the
\* user who clicked (root itself only when nobody is known).  Its helper is that
\* of its own file system, unless its partition is typed Windows_NTFS: an ExFAT
\* or FAT file system there is handed to ntfs-3g.  One that diskutil does not
\* know in a FAT partition is tried as FAT.
ShowsFileSystem(device) == device.fs # "none" \/ device.type # "other"
FileSystemServed ==
  \A req \in OnMount("disk"), world \in Worlds(MaxDevices) :
    Len(Commands(req, world)) = 3 =>
      LET mount == Commands(req, world)[3] IN
      /\ \E i \in DOMAIN world.devices :
           LET device == world.devices[i] IN
           /\ ShowsFileSystem(device)
           /\ \A j \in DOMAIN world.devices : j < i => ~ ShowsFileSystem(world.devices[j])
           /\ device.type = "Windows_NTFS" => mount.helper = "ntfs"
           /\ device.type # "Windows_NTFS" /\ device.fs # "none" => mount.helper = device.fs
           /\ device.type # "Windows_NTFS" /\ device.fs = "none" => mount.helper = "msdos"
      /\ mount.owner = "root" => world.launch = "root"

=============================================================================
