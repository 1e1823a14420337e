------------------------------ MODULE FormProofs ------------------------------
(***************************************************************************)
(* For any number of timers, any countdown and any depth of dialogs: a     *)
(* password is in clear text only under its own countdown, which runs its  *)
(* full length; the request the form makes is consistent, reaches the      *)
(* helper as the user meant it, and serves the first file system found.    *)
(***************************************************************************)
EXTENDS Form, TLAPS, WellFoundedInduction

\* One countdown, that of the password shown, and it has not lost a tick.
OneCountdown ==
  /\ visible => method = "user_password"
  /\ \A t \in Timers : pending[t] # None <=> visible /\ t = hideTimer
  /\ visible => hideTimer \in Timers /\ shown + pending[hideTimer] = HideTicks
  /\ masked = (method # "bek_file" /\ ~ visible)

\* The field holds what was entered for the chosen method; a file dialog keeps
\* the method it was opened for.
FieldOfMethod ==
  /\ secret # Empty => enteredFor = method
  /\ secret.start = "empty" => secret = Empty
  /\ \A i \in DOMAIN dialogs : dialogs[i] = "browse" => method = "bek_file"

\* Without ntfs-3g the box is checked.
ForcedReadonly == readonly \/ CanWrite(tools)

FormInvariant == OneCountdown /\ FieldOfMethod /\ ForcedReadonly

DialogKinds == {"message", "browse"}

-----------------------------------------------------------------------------
(* Dialogs *)

LEMMA SequencesOf ==
  ASSUME NEW S, NEW n \in Nat, NEW s
  PROVE  s \in SeqOf(S, n) <=> s \in Seq(S) /\ Len(s) <= n
<1>1. ASSUME s \in SeqOf(S, n) PROVE s \in Seq(S) /\ Len(s) <= n
  <2>1. PICK m \in 0..n : s \in [1..m -> S]
    BY <1>1 DEF SeqOf
  <2> QED
    BY <2>1
<1>2. ASSUME s \in Seq(S), Len(s) <= n PROVE s \in SeqOf(S, n)
  <2>1. Len(s) \in 0..n /\ s \in [1..Len(s) -> S]
    BY <1>2
  <2> QED
    BY <2>1 DEF SeqOf
<1> QED
  BY <1>1, <1>2

LEMMA DialogOpens ==
  ASSUME FormTypeOK, NEW d \in DialogKinds, Opens(d)
  PROVE  /\ dialogs' \in SeqOf(DialogKinds, MaxDialogs)
         /\ \A i \in DOMAIN dialogs' : dialogs'[i] = d \/ (i \in DOMAIN dialogs /\ dialogs'[i] = dialogs[i])
<1>1. dialogs \in Seq(DialogKinds) /\ Len(dialogs) < MaxDialogs /\ MaxDialogs \in Nat
  BY SequencesOf, FormConstants DEF FormTypeOK, Opens, DialogKinds, FormConstants
<1>2. dialogs' \in Seq(DialogKinds) /\ Len(dialogs') = Len(dialogs) + 1
  BY <1>1 DEF Opens
<1>3. dialogs' \in SeqOf(DialogKinds, MaxDialogs)
  BY <1>1, <1>2, SequencesOf
<1>4. ASSUME NEW i \in DOMAIN dialogs'
      PROVE  dialogs'[i] = d \/ (i \in DOMAIN dialogs /\ dialogs'[i] = dialogs[i])
  <2>1. dialogs' = Append(dialogs, d) /\ DOMAIN dialogs = 1..Len(dialogs)
        /\ i \in 1..(Len(dialogs) + 1)
    BY <1>1, <1>2, <1>4 DEF Opens
  <2>2. CASE i = Len(dialogs) + 1
    BY <1>1, <2>1, <2>2
  <2>3. CASE i # Len(dialogs) + 1
    BY <1>1, <2>1, <2>3
  <2> QED
    BY <2>2, <2>3
<1> QED
  BY <1>3, <1>4

LEMMA DialogEnds ==
  ASSUME FormTypeOK, Dismiss
  PROVE  /\ dialogs' \in SeqOf(DialogKinds, MaxDialogs)
         /\ \A i \in DOMAIN dialogs' : i \in DOMAIN dialogs /\ dialogs'[i] = dialogs[i]
         /\ Last(dialogs) = dialogs[Len(dialogs)] /\ Len(dialogs) \in DOMAIN dialogs
<1>1. /\ dialogs \in Seq(DialogKinds) /\ Len(dialogs) <= MaxDialogs /\ MaxDialogs \in Nat
      /\ dialogs # <<>>
  BY SequencesOf, FormConstants DEF FormTypeOK, Dismiss, DialogKinds, FormConstants
<1>2. dialogs' = SubSeq(dialogs, 1, Len(dialogs) - 1)
  BY DEF Dismiss, Front
<1>3. Len(dialogs) \in 1..MaxDialogs /\ DOMAIN dialogs = 1..Len(dialogs)
  BY <1>1
<1>4. /\ dialogs' \in Seq(DialogKinds) /\ Len(dialogs') = Len(dialogs) - 1
      /\ \A i \in 1..(Len(dialogs) - 1) : dialogs'[i] = dialogs[i]
  BY <1>1, <1>2, <1>3
<1>5. dialogs' \in SeqOf(DialogKinds, MaxDialogs)
  BY <1>1, <1>4, SequencesOf
<1> QED
  BY <1>3, <1>4, <1>5 DEF Last

-----------------------------------------------------------------------------
(* Types *)

LEMMA NoDialogs ==
  /\ <<>> \in SeqOf(DialogKinds, MaxDialogs)
  /\ DOMAIN <<>> = {}
<1>1. <<>> \in Seq(DialogKinds) /\ Len(<<>>) = 0
  OBVIOUS
<1>2. DOMAIN <<>> = {}
  OBVIOUS
<1>3. MaxDialogs \in Nat /\ 0 <= MaxDialogs
  BY FormConstants DEF FormConstants
<1> QED
  BY <1>1, <1>2, <1>3, SequencesOf

LEMMA SecretTypes ==
  \A m \in Methods : Typable(m) \subseteq Secrets /\ Empty \in Secrets
<1>1. Empty \in Secrets /\ [Empty EXCEPT !.start = "word"] \in Secrets
  BY DEF Empty, Secrets, TypedStarts
<1> QED
  BY <1>1 DEF Typable

\* What only the countdown changes.
LEMMA CountdownTypes ==
  ASSUME FormTypeOK, UNCHANGED <<method, secret, enteredFor, tools, readonly, dialogs>>,
         visible' \in BOOLEAN, masked' \in BOOLEAN,
         hideTimer' \in Timers \cup {None}, shown' \in 0..HideTicks,
         pending' \in [Timers -> 0..HideTicks \cup {None}]
  PROVE  FormTypeOK'
BY DEF FormTypeOK

-----------------------------------------------------------------------------
(* The countdown *)

LEMMA HideSteps ==
  ASSUME FormTypeOK, OneCountdown, visible, Hide
  PROVE  /\ visible' = FALSE /\ shown' = 0 /\ hideTimer' = None
         /\ pending' = [t \in Timers |-> None]
<1>1. hideTimer \in Timers /\ hideTimer # None
  BY FormConstants DEF OneCountdown, FormConstants
<1>2. pending' = [pending EXCEPT ![hideTimer] = None]
  BY <1>1 DEF Hide, Cancel
<1> QED
  BY <1>1, <1>2 DEF Hide, OneCountdown, FormTypeOK

LEMMA ToggleSteps ==
  ASSUME FormTypeOK, FormInvariant, TogglePasswordVisibility
  PROVE  FormTypeOK' /\ OneCountdown'
<1> USE FormConstants DEF FormConstants, TogglePasswordVisibility, field, options
<1>1. CASE visible
  <2>1. /\ visible' = FALSE /\ shown' = 0 /\ hideTimer' = None /\ masked' = TRUE
        /\ pending' = [t \in Timers |-> None]
    BY <1>1, HideSteps DEF FormInvariant
  <2>2. FormTypeOK'
    <3>1. 0 \in 0..HideTicks /\ [t \in Timers |-> None] \in [Timers -> 0..HideTicks \cup {None}]
      OBVIOUS
    <3> QED
      BY <2>1, <3>1, CountdownTypes
  <2> QED
    BY <2>1, <2>2 DEF OneCountdown
<1>2. CASE ~ visible
  <2>1. PICK t \in Timers : /\ hideTimer' = t
                            /\ pending' = [pending EXCEPT ![t] = HideTicks]
    BY <1>2 DEF Reveal
  <2>2. visible' = TRUE /\ shown' = 0 /\ masked' = FALSE
    BY <1>2 DEF Reveal, FormTypeOK
  <2>3. FormTypeOK'
    <3>1. pending' \in [Timers -> 0..HideTicks \cup {None}] /\ 0 \in 0..HideTicks
      BY <2>1 DEF FormTypeOK
    <3> QED
      BY <2>1, <2>2, <3>1, CountdownTypes
  <2>4. \A u \in Timers : pending[u] = None
    BY <1>2 DEF FormInvariant, OneCountdown
  <2> QED
    BY <2>1, <2>2, <2>3, <2>4 DEF OneCountdown, FormTypeOK
<1> QED
  BY <1>1, <1>2

LEMMA AutoHideSteps ==
  ASSUME FormTypeOK, FormInvariant, NEW t \in Timers, AutoHidePassword(t)
  PROVE  FormTypeOK' /\ OneCountdown' /\ shown = HideTicks
<1> USE FormConstants DEF FormConstants, AutoHidePassword, field, options
<1>1. visible /\ t = hideTimer /\ shown = HideTicks
  BY DEF FormInvariant, OneCountdown, FormTypeOK
<1>2. /\ visible' = FALSE /\ masked' = TRUE /\ shown' = 0 /\ hideTimer' = None
      /\ pending' = [pending EXCEPT ![t] = None]
  BY <1>1 DEF Cancel
<1>3. pending' = [u \in Timers |-> None]
  BY <1>1, <1>2 DEF FormInvariant, OneCountdown, FormTypeOK
<1>4. FormTypeOK'
  <2>1. 0 \in 0..HideTicks /\ [u \in Timers |-> None] \in [Timers -> 0..HideTicks \cup {None}]
    OBVIOUS
  <2> QED
    BY <1>2, <1>3, <2>1, CountdownTypes
<1> QED
  BY <1>1, <1>2, <1>3, <1>4 DEF FormInvariant, OneCountdown

LEMMA TickSteps ==
  ASSUME FormTypeOK, FormInvariant, Tick
  PROVE  FormTypeOK' /\ OneCountdown'
<1> USE FormConstants DEF FormConstants, Tick, field, options
<1>1. PICK t \in Timers : pending[t] \notin {None, 0}
  OBVIOUS
<1>2. /\ visible /\ t = hideTimer /\ pending[t] \in 1..HideTicks
      /\ shown + pending[t] = HideTicks
      /\ \A u \in Timers : u # t => pending[u] = None
  BY <1>1 DEF FormInvariant, OneCountdown, FormTypeOK
<1>3. /\ pending' = [u \in Timers |-> IF u = t THEN pending[t] - 1 ELSE None]
      /\ shown \in 0..HideTicks /\ shown' = shown + 1 /\ shown + 1 \in 0..HideTicks
      /\ pending[t] - 1 \in 0..HideTicks
  <2>1. shown \in 0..HideTicks
    BY DEF FormTypeOK
  <2>2. shown < HideTicks /\ shown + 1 \in 0..HideTicks /\ pending[t] - 1 \in 0..HideTicks
    BY <1>2, <2>1
  <2>3. \A u \in Timers : pending[u] \in {None, 0} <=> u # t
    BY <1>1, <1>2
  <2>4. pending' = [u \in Timers |-> IF u = t THEN pending[t] - 1 ELSE None]
    BY <1>2, <2>3
  <2> QED
    BY <1>2, <2>1, <2>2, <2>4
<1>4. FormTypeOK'
  <2>1. pending' \in [Timers -> 0..HideTicks \cup {None}]
    BY <1>3
  <2>2. UNCHANGED <<visible, masked, hideTimer>> /\ visible \in BOOLEAN /\ masked \in BOOLEAN
        /\ hideTimer \in Timers \cup {None}
    BY DEF FormTypeOK
  <2> QED
    BY <1>3, <2>1, <2>2, CountdownTypes
<1> QED
  BY <1>2, <1>3, <1>4 DEF FormInvariant, OneCountdown, FormTypeOK

LEMMA MethodSteps ==
  ASSUME FormTypeOK, FormInvariant, NEW m \in Methods, MethodChange(m)
  PROVE  FormTypeOK' /\ OneCountdown'
<1> USE FormConstants DEF FormConstants, MethodChange, options
<1>1. visible' = FALSE /\ pending' = [t \in Timers |-> None]
  <2>1. CASE visible
    BY <2>1, HideSteps DEF FormInvariant
  <2>2. CASE ~ visible
    BY <2>2 DEF FormInvariant, OneCountdown, FormTypeOK, countdown
  <2> QED
    BY <2>1, <2>2
<1>2. hideTimer' \in Timers \cup {None} /\ shown' \in 0..HideTicks
  <2>1. CASE visible
    BY <2>1, HideSteps DEF FormInvariant
  <2>2. CASE ~ visible
    BY <2>2 DEF FormTypeOK, countdown
  <2> QED
    BY <2>1, <2>2
<1>3. Empty \in [start : TypedStarts, tilde : BOOLEAN]
  BY SecretTypes DEF Secrets
<1>4. FormTypeOK'
  BY <1>1, <1>2, <1>3 DEF FormTypeOK
<1> QED
  BY <1>1, <1>4 DEF OneCountdown

-----------------------------------------------------------------------------
(* The invariant *)

LEMMA InitForm == FormInit => FormTypeOK /\ FormInvariant
<1> SUFFICES ASSUME FormInit PROVE FormTypeOK /\ FormInvariant
  OBVIOUS
<1>1. method \in Methods /\ secret \in [start : TypedStarts, tilde : BOOLEAN]
  BY SecretTypes DEF FormInit, Methods, Secrets
<1>2. pending \in [Timers -> 0..HideTicks \cup {None}] /\ shown \in 0..HideTicks
  BY FormConstants DEF FormInit, FormConstants
<1>3. FormTypeOK
  BY <1>1, <1>2, NoDialogs DEF FormInit, FormTypeOK, DialogKinds
<1> QED
  BY <1>3, NoDialogs, FormConstants
     DEF FormInit, FormInvariant, OneCountdown, FieldOfMethod, ForcedReadonly, FormConstants

LEMMA CountdownKept ==
  ASSUME FormTypeOK, FormInvariant, FormNext
  PROVE  FormTypeOK' /\ OneCountdown'
<1> USE DEF field, countdown, options
<1>1. ASSUME UNCHANGED <<method, masked, countdown>>, secret' \in [start : TypedStarts, tilde : BOOLEAN],
             enteredFor' \in Methods \cup {None}, tools' \in {"none", "core", "all"},
             readonly' \in BOOLEAN, dialogs' \in SeqOf(DialogKinds, MaxDialogs)
      PROVE  FormTypeOK' /\ OneCountdown'
  BY <1>1 DEF FormTypeOK, FormInvariant, OneCountdown, DialogKinds
<1>2. CASE TypeSecret
  <2>1. secret' \in [start : TypedStarts, tilde : BOOLEAN]
    BY <1>2, SecretTypes DEF TypeSecret, FormTypeOK, Secrets
  <2> QED
    BY <1>1, <1>2, <2>1 DEF TypeSecret, FormTypeOK, DialogKinds
<1>3. CASE MessageOpens
  BY <1>1, <1>3, DialogOpens DEF MessageOpens, FormTypeOK, DialogKinds
<1>4. CASE BrowseBek
  BY <1>1, <1>4, DialogOpens DEF BrowseBek, FormTypeOK, DialogKinds
<1>5. CASE Dismiss
  <2>1. secret' \in [start : TypedStarts, tilde : BOOLEAN] /\ enteredFor' \in Methods \cup {None}
    BY <1>5 DEF Dismiss, FormTypeOK, Secrets, Methods
  <2> QED
    BY <1>1, <1>5, <2>1, DialogEnds DEF Dismiss, FormTypeOK
<1>6. ASSUME NEW t \in {"none", "core", "all"}, RecheckDeps(t) PROVE FormTypeOK' /\ OneCountdown'
  <2>1. readonly' \in BOOLEAN
    BY <1>6 DEF RecheckDeps, FormTypeOK, CanWrite
  <2> QED
    BY <1>1, <1>6, <2>1 DEF RecheckDeps, FormTypeOK, DialogKinds
<1>7. CASE ToggleReadonly
  BY <1>1, <1>7 DEF ToggleReadonly, FormTypeOK, DialogKinds
<1> QED
  BY <1>2, <1>3, <1>4, <1>5, <1>6, <1>7, ToggleSteps, AutoHideSteps, TickSteps, MethodSteps
     DEF FormNext

LEMMA FieldKept ==
  ASSUME FormTypeOK, FormInvariant, FormNext
  PROVE  FieldOfMethod' /\ ForcedReadonly'
<1> USE DEF field, countdown, options, FormInvariant
<1>1. ASSUME UNCHANGED <<method, field, dialogs>> PROVE FieldOfMethod'
  BY <1>1 DEF FieldOfMethod
<1>2. ASSUME UNCHANGED options PROVE ForcedReadonly'
  BY <1>2 DEF ForcedReadonly
<1>3. CASE TogglePasswordVisibility \/ Tick \/ \E t \in Timers : AutoHidePassword(t)
  BY <1>1, <1>2, <1>3 DEF TogglePasswordVisibility, Tick, AutoHidePassword
<1>4. ASSUME NEW m \in Methods, MethodChange(m) PROVE FieldOfMethod' /\ ForcedReadonly'
  BY <1>2, <1>4 DEF MethodChange, FieldOfMethod, Clickable
<1>5. CASE TypeSecret
  <2>1. secret'.start = "empty" => secret' = Empty
    BY <1>5 DEF TypeSecret, Typable, Empty
  <2>2. enteredFor' = method' /\ UNCHANGED <<method, options, dialogs>>
    BY <1>5 DEF TypeSecret
  <2> QED
    BY <1>2, <2>1, <2>2 DEF FieldOfMethod
<1>6. ASSUME NEW d \in DialogKinds, Opens(d), d = "browse" => method = "bek_file",
             UNCHANGED <<method, field, options>>
      PROVE  FieldOfMethod' /\ ForcedReadonly'
  BY <1>2, <1>6, DialogOpens DEF FieldOfMethod
<1>7. CASE MessageOpens \/ BrowseBek
  BY <1>6, <1>7 DEF MessageOpens, BrowseBek, DialogKinds
<1>8. CASE Dismiss
  <2>1. \A i \in DOMAIN dialogs' : dialogs'[i] = "browse" => method' = "bek_file"
    BY <1>8, DialogEnds DEF Dismiss, FieldOfMethod
  <2>2. CASE UNCHANGED field
    BY <1>2, <1>8, <2>1, <2>2 DEF Dismiss, FieldOfMethod
  <2>3. CASE Last(dialogs) = "browse" /\ enteredFor' = "bek_file"
    BY <1>2, <1>8, <2>1, <2>3, DialogEnds DEF Dismiss, FieldOfMethod
  <2> QED
    BY <1>8, <2>2, <2>3 DEF Dismiss
<1>9. CASE ToggleReadonly \/ \E t \in {"none", "core", "all"} : RecheckDeps(t)
  BY <1>1, <1>9 DEF ToggleReadonly, RecheckDeps, ForcedReadonly
<1> QED
  BY <1>3, <1>4, <1>5, <1>7, <1>8, <1>9 DEF FormNext

\* The variables of the form keep their types, and the invariant holds.
THEOREM FormSafe == FormSpec => [](FormTypeOK /\ FormInvariant)
<1>1. FormTypeOK /\ FormInvariant /\ [FormNext]_formVars => (FormTypeOK /\ FormInvariant)'
  <2> SUFFICES ASSUME FormTypeOK, FormInvariant, [FormNext]_formVars
               PROVE  (FormTypeOK /\ FormInvariant)'
    OBVIOUS
  <2>1. CASE UNCHANGED formVars
    BY <2>1 DEF formVars, FormTypeOK, FormInvariant, OneCountdown, FieldOfMethod, ForcedReadonly
  <2> QED
    BY <2>1, CountdownKept, FieldKept DEF FormInvariant
<1> QED
  BY <1>1, InitForm, PTL DEF FormSpec

-----------------------------------------------------------------------------
(* What follows for the form *)

\* A password is in clear text only while the one pending timer is its own.
THEOREM ClearTextAlwaysTimed == FormSpec => []ClearTextTimed
<1>1. FormTypeOK /\ FormInvariant => ClearTextTimed
  BY DEF FormTypeOK, FormInvariant, OneCountdown, FieldOfMethod, ClearTextTimed, Methods
<1> QED
  BY <1>1, FormSafe, PTL

\* No timer, of whatever reveal, masks a password before its countdown is over.
THEOREM RevealsLastTheirTime == FormSpec => NeverHiddenEarly
<1> DEFINE Lasts == \A t \in Timers :
      pending[t] = 0 /\ pending'[t] = None /\ visible /\ ~ visible' => shown = HideTicks
<1>1. FormTypeOK /\ FormInvariant /\ [FormNext]_formVars => [Lasts]_formVars
  <2> SUFFICES ASSUME FormTypeOK, FormInvariant, NEW t \in Timers, pending[t] = 0, visible
               PROVE  shown = HideTicks
    OBVIOUS
  <2>1. t = hideTimer /\ shown + pending[hideTimer] = HideTicks
    BY FormConstants DEF FormInvariant, OneCountdown, FormConstants
  <2> QED
    BY <2>1, FormConstants DEF FormTypeOK, FormConstants
<1> QED
  BY <1>1, FormSafe, PTL DEF FormSpec, NeverHiddenEarly

\* A request uses a secret by the method it was entered for, and asks for
\* writing only with ntfs-3g found.
THEOREM RequestsAlwaysConsistent == FormSpec => []RequestConsistent
<1>1. FormTypeOK /\ FormInvariant => RequestConsistent
  BY DEF FormInvariant, FieldOfMethod, ForcedReadonly, RequestConsistent, OnMount, MountRequest
<1> QED
  BY <1>1, FormSafe, PTL

-----------------------------------------------------------------------------
(* What follows for the commands *)

LEMMA ReadOnlyDelivered ==
  ASSUME NEW req, "readonly" \in DOMAIN req, NEW world, NEW run,
         run = Canonicalize(WriteRequest(req), "root") \/ run = Canonicalize(req, "root")
  PROVE  run.readonly = req.readonly
<1>1. ASSUME NEW r, "readonly" \in DOMAIN r, NEW s
      PROVE  /\ [r EXCEPT !.secret = s].readonly = r.readonly
             /\ "readonly" \in DOMAIN [r EXCEPT !.secret = s]
  BY <1>1
<1>2. WriteRequest(req).readonly = req.readonly /\ "readonly" \in DOMAIN WriteRequest(req)
  BY <1>1 DEF WriteRequest
<1>3. ASSUME NEW r, "readonly" \in DOMAIN r PROVE Canonicalize(r, "root").readonly = r.readonly
  BY <1>1, <1>3 DEF Canonicalize
<1> QED
  BY <1>2, <1>3

\* What is run for a request that gets as far as that.
LEMMA CommandsRun ==
  ASSUME NEW req, NEW world, NEW i \in DOMAIN Commands(req, world)
  PROVE  LET run == Delivered(req, world)[1]
             cmds == Commands(req, world)
         IN
         /\ Delivered(req, world) # <<>>
         /\ cmds[1] = DislockerCmd(run) /\ cmds[2] = HdiutilAttach
         /\ i \in {1, 2} \/ (i = 3 /\ cmds[3] = MountCommand(run, world))
         /\ Len(cmds) = 3 => ~ MountRefused(world) /\ cmds[3] = MountCommand(run, world)
<1> DEFINE run == Delivered(req, world)[1]
           opened == <<DislockerCmd(run), HdiutilAttach>>
           mounted == IF MountRefused(world) THEN <<>> ELSE <<MountCommand(run, world)>>
           cmds == opened \o mounted
<1>1. Delivered(req, world) # <<>> /\ Commands(req, world) = cmds
  BY DEF Commands
<1>2. CASE MountRefused(world)
  <2>1. cmds = opened
    BY <1>2
  <2> QED
    BY <1>1, <1>2, <2>1
<1>3. CASE ~ MountRefused(world)
  <2>1. mounted = <<MountCommand(run, world)>>
    BY <1>3
  <2>2. /\ Len(cmds) = 3 /\ DOMAIN cmds = 1..3
        /\ cmds[1] = opened[1] /\ cmds[2] = opened[2] /\ cmds[3] = mounted[1]
    BY <2>1
  <2>3. opened[1] = DislockerCmd(run) /\ opened[2] = HdiutilAttach
    OBVIOUS
  <2> QED
    BY <1>1, <1>3, <2>1, <2>2, <2>3
<1> QED
  BY <1>2, <1>3

LEMMA ReadOnlyCommands ==
  ASSUME NEW req, "readonly" \in DOMAIN req, NEW world, NEW i \in DOMAIN Commands(req, world)
  PROVE  LET cmd == Commands(req, world) IN
         IF cmd[i].helper = "hdiutil" THEN i = 2 /\ cmd[1].helper = "dislocker"
         ELSE cmd[i].readonly = req.readonly
<1> DEFINE run == Delivered(req, world)[1]
           cmd == Commands(req, world)
<1>1. Delivered(req, world) # <<>>
  BY CommandsRun
<1>2. run.readonly = req.readonly
  BY <1>1, ReadOnlyDelivered DEF Delivered
<1>3. DislockerCmd(run).helper = "dislocker" /\ DislockerCmd(run).readonly = req.readonly
  BY <1>2 DEF DislockerCmd
<1>4. MountCommand(run, world).readonly = req.readonly
  BY <1>2 DEF MountCommand, MountNtfs, MountFat
<1>5. cmd[1] = DislockerCmd(run) /\ cmd[2] = HdiutilAttach
  BY CommandsRun
<1>6. i \in {1, 2} \/ (i = 3 /\ cmd[3] = MountCommand(run, world))
  BY CommandsRun
<1>7. MountCommand(run, world).helper # "hdiutil"
  BY DEF MountCommand, MountNtfs, MountFat, Classify
<1> QED
  BY <1>3, <1>4, <1>5, <1>6, <1>7 DEF HdiutilAttach

\* Whatever the devices of the image, however many, and whoever runs them: of
\* the commands for a request, those that can be told are read-only exactly if it
\* asked for that, and hdiutil attaches what one of them gives it.
THEOREM ReadOnlyAlwaysHonoured == FormSpec => []ReadOnlyHonoured
<1>1. ReadOnlyHonoured
  BY ReadOnlyCommands DEF ReadOnlyHonoured, OnMount, MountRequest
<1> QED
  BY <1>1, PTL

\* Of the texts of the form, the window turns every path it can expand into an
\* absolute one, and no other.
LEMMA ExpandResolves ==
  ASSUME NEW path \in Secrets, ~ ExpandFails(path)
  PROVE  /\ IsAbsolute(Expand(path, "user"))
         /\ HasTilde(Expand(path, "user")) <=> Expand(path, "user").tilde
         /\ Expand(path, "user").start # "empty"
<1> DEFINE meant == Expand(path, "user")
<1>1. meant.start \in {"slash", "userDir", "userFile", "userHome"} /\ meant.tilde = path.tilde
  BY DEF Secrets, TypedStarts, ExpandFails, Expand, Places
<1> QED
  BY <1>1 DEF IsAbsolute, HasTilde

\* The key file is the one the user's path means in the user's window, the
\* password the one typed; of the rest nothing reaches the helper's pipeline.
THEOREM SecretsAlwaysDelivered == FormSpec => []SecretDelivered
<1>1. FormTypeOK /\ FormInvariant => SecretDelivered
  <2> SUFFICES ASSUME FormTypeOK, FormInvariant, NEW req \in OnMount("disk"),
                      NEW world \in Worlds(0), world.launch = "helper", ~ WriteFails(req)
               PROVE  LET meant == IF req.method = "bek_file" THEN Expand(req.secret, "user")
                                                              ELSE req.secret IN
                      IF meant = Empty \/ (req.method = "bek_file" /\ meant.tilde)
                      THEN Delivered(req, world) = <<>>
                      ELSE Delivered(req, world) = <<[req EXCEPT !.secret = meant]>>
    BY DEF SecretDelivered
  <2>1. req = [volume |-> "disk", method |-> method, secret |-> secret, readonly |-> readonly]
    BY DEF OnMount, MountRequest
  <2>2. secret \in Secrets /\ (secret.start = "empty" => secret = Empty)
    BY DEF FormTypeOK, Secrets, FormInvariant, FieldOfMethod
  <2>3. CASE req.method = "bek_file"
    <3> DEFINE meant == Expand(req.secret, "user")
               sent == [req EXCEPT !.secret = meant]
    <3>1. /\ IsAbsolute(meant) /\ meant.start # "empty"
          /\ HasTilde(meant) <=> meant.tilde
      BY <2>1, <2>2, <2>3, ExpandResolves DEF WriteFails
    <3>2. /\ WriteRequest(req) = sent
          /\ sent.volume = "disk" /\ sent.method = "bek_file" /\ sent.secret = meant
      BY <2>1, <2>3 DEF WriteRequest
    <3> HIDE DEF meant, sent
    <3>3. Canonicalize(sent, "root") = sent
      BY <3>1, <3>2 DEF Canonicalize
    <3>4. ValidateRequest(sent) <=> ~ meant.tilde
      BY <3>1, <3>2 DEF ValidateRequest
    <3>5. meant # Empty
      BY <3>1 DEF Empty
    <3> QED
      BY <2>1, <2>3, <3>2, <3>3, <3>4, <3>5 DEF Delivered, ValidateVolumePath, meant, sent
  <2>4. CASE req.method # "bek_file"
    <3>1. WriteRequest(req) = req /\ Canonicalize(req, "root") = req
      BY <2>4 DEF WriteRequest, Canonicalize
    <3>2. ValidateRequest(req) <=> secret # Empty
      BY <2>1, <2>2, <2>4 DEF ValidateRequest, Empty
    <3>3. [req EXCEPT !.secret = req.secret] = req
      BY <2>1
    <3> QED
      BY <2>1, <2>4, <3>1, <3>2, <3>3 DEF Delivered, ValidateVolumePath
  <2> QED
    BY <2>3, <2>4
<1> QED
  BY <1>1, FormSafe, PTL

-----------------------------------------------------------------------------
(* The file system found *)

LEMMA LeastNatural ==
  ASSUME NEW S, S \subseteq Nat, S # {}
  PROVE  Min(S) \in S /\ \A n \in S : Min(S) <= n
<1> DEFINE R == OpToRel(<, Nat)
<1>1. \A m, n \in Nat : m < n => <<m, n>> \in R
  BY DEF OpToRel
<1>2. IsWellFoundedOn(R, Nat)
  BY NatLessThanWellFounded
<1> HIDE DEF R
<1>3. PICK m \in S : \A n \in S : ~ (<<n, m>> \in R)
  BY <1>2, WFMin
<1>4. ASSUME NEW n \in S PROVE m <= n
  <2>1. m \in Nat /\ n \in Nat
    OBVIOUS
  <2>2. ~ (n < m)
    BY <1>1, <1>3, <2>1
  <2> QED
    BY <2>1, <2>2
<1> QED
  BY <1>4 DEF Min

\* How a device is classified, in terms of what diskutil says of it.
LEMMA KindsRecognised ==
  ASSUME NEW d \in Devices
  PROVE  /\ Classify(Reported(d)) # "none" <=> ShowsFileSystem(d)
         /\ d.type = "Windows_NTFS" => Classify(Reported(d)) = "ntfs"
         /\ d.type # "Windows_NTFS" /\ d.fs # "none" => Classify(Reported(d)) = d.fs
         /\ d.type = "Windows_FAT_32" /\ d.fs = "none" => Classify(Reported(d)) = "msdos"
<1>1. /\ d.fs \in {"ntfs", "exfat", "msdos", "none"}
      /\ d.type \in {"other", "Windows_NTFS", "Windows_FAT_32"}
  BY DEF Devices
<1>2. /\ "ntfs" \in Reported(d) <=> d.fs = "ntfs" \/ d.type = "Windows_NTFS"
      /\ "exfat" \in Reported(d) <=> d.fs = "exfat"
      /\ "msdos" \in Reported(d) <=> d.fs = "msdos"
      /\ "fat" \in Reported(d) <=> d.fs \in {"exfat", "msdos"} \/ d.type = "Windows_FAT_32"
  BY DEF Reported
<1> DEFINE words == Reported(d)
<1> HIDE DEF words
<1>3. CASE "ntfs" \in words
  <2>1. Classify(words) = "ntfs"
    BY <1>3 DEF Classify
  <2> QED
    BY <1>1, <1>2, <1>3, <2>1 DEF ShowsFileSystem, words
<1>4. CASE "ntfs" \notin words /\ "exfat" \in words
  <2>1. Classify(words) = "exfat"
    BY <1>4 DEF Classify
  <2> QED
    BY <1>1, <1>2, <1>4, <2>1 DEF ShowsFileSystem, words
<1>5. CASE "ntfs" \notin words /\ "exfat" \notin words /\ ("msdos" \in words \/ "fat" \in words)
  <2>1. Classify(words) = "msdos"
    BY <1>5 DEF Classify
  <2> QED
    BY <1>1, <1>2, <1>5, <2>1 DEF ShowsFileSystem, words
<1>6. CASE "ntfs" \notin words /\ "exfat" \notin words /\ "msdos" \notin words /\ "fat" \notin words
  <2>1. Classify(words) = "none"
    BY <1>6 DEF Classify
  <2> QED
    BY <1>1, <1>2, <1>6, <2>1 DEF ShowsFileSystem, words
<1> QED
  BY <1>3, <1>4, <1>5, <1>6

\* The device mounted is the first that shows a file system.
LEMMA FirstDevice ==
  ASSUME NEW n \in Nat, NEW devices \in [1..n -> Devices], MountedDevice(devices) # 0
  PROVE  /\ MountedDevice(devices) \in 1..n
         /\ ShowsFileSystem(devices[MountedDevice(devices)])
         /\ \A j \in 1..n : j < MountedDevice(devices) => ~ ShowsFileSystem(devices[j])
<1> DEFINE Known == {i \in 1..n : ShowsFileSystem(devices[i])}
           Found == {i \in 1..Len(devices) : Classify(Reported(devices[i])) # "none"}
<1>1. Len(devices) = n
  OBVIOUS
<1>2. Found = Known
  <2>1. \A i \in 1..n : devices[i] \in Devices
    OBVIOUS
  <2> QED
    BY <1>1, <2>1, KindsRecognised
<1>3. MountedDevice(devices) = IF Found # {} THEN Min(Found) ELSE 0
  BY DEF MountedDevice, SelectInSeq
<1>4. Known # {} /\ MountedDevice(devices) = Min(Known)
  BY <1>2, <1>3
<1>5. Known \subseteq Nat
  OBVIOUS
<1>6. Min(Known) \in Known /\ \A i \in Known : Min(Known) <= i
  BY <1>4, <1>5, LeastNatural
<1> DEFINE first == Min(Known)
<1>7. first \in 1..n /\ ShowsFileSystem(devices[first])
  BY <1>6
<1>8. ASSUME NEW j \in 1..n, j < first PROVE ~ ShowsFileSystem(devices[j])
  <2>1. j \notin Known
    BY <1>6, <1>7, <1>8
  <2> QED
    BY <2>1
<1> QED
  BY <1>4, <1>7, <1>8

LEMMA ServedCommand ==
  ASSUME NEW req, NEW world, Len(Commands(req, world)) = 3
  PROVE  /\ ~ MountRefused(world)
         /\ \E run : Commands(req, world)[3] = MountCommand(run, world)
<1>1. 1 \in DOMAIN Commands(req, world)
  BY DEF Commands
<1> QED
  BY <1>1, CommandsRun

\* However many devices an image has: the file system mounted is the first
\* there is, by its own helper unless its partition is typed as another's, and
\* for the user who clicked.
THEOREM FileSystemsAlwaysServed == FormSpec => []FileSystemServed
<1>1. FileSystemServed
  <2> SUFFICES ASSUME NEW req \in OnMount("disk"), NEW world \in Worlds(MaxDevices),
                      Len(Commands(req, world)) = 3
               PROVE  LET mount == Commands(req, world)[3] IN
                      /\ \E i \in DOMAIN world.devices :
                           LET d == world.devices[i] IN
                           /\ ShowsFileSystem(d)
                           /\ \A j \in DOMAIN world.devices :
                                j < i => ~ ShowsFileSystem(world.devices[j])
                           /\ d.type = "Windows_NTFS" => mount.helper = "ntfs"
                           /\ d.type # "Windows_NTFS" /\ d.fs # "none" => mount.helper = d.fs
                           /\ d.type # "Windows_NTFS" /\ d.fs = "none" => mount.helper = "msdos"
                      /\ mount.owner = "root" => world.launch = "root"
    BY DEF FileSystemServed
  <2> DEFINE i == MountedDevice(world.devices)
  <2>1. PICK n \in Nat : world.devices \in [1..n -> Devices]
    BY FormConstants DEF Worlds, SeqOf, FormConstants
  <2>2. PICK run : Commands(req, world)[3] = MountCommand(run, world)
    BY ServedCommand
  <2>3. i # 0
    BY ServedCommand DEF MountRefused
  <2>4. /\ i \in 1..n /\ ShowsFileSystem(world.devices[i])
        /\ \A j \in 1..n : j < i => ~ ShowsFileSystem(world.devices[j])
    BY <2>1, <2>3, FirstDevice
  <2>5. PICK d \in Devices : d = world.devices[i]
    BY <2>1, <2>4
  <2>6. MountCommand(run, world).helper = Classify(Reported(d))
    BY <2>5 DEF MountCommand, MountNtfs, MountFat
  <2> HIDE DEF i
  <2>7. /\ d.type = "Windows_NTFS" => MountCommand(run, world).helper = "ntfs"
        /\ d.type # "Windows_NTFS" /\ d.fs # "none" => MountCommand(run, world).helper = d.fs
        /\ d.type # "Windows_NTFS" /\ d.fs = "none" => MountCommand(run, world).helper = "msdos"
    BY <2>4, <2>5, <2>6, KindsRecognised DEF ShowsFileSystem, Devices
  <2>8. MountCommand(run, world).owner = ResolveMountOwner(world)
    BY DEF MountCommand, MountNtfs, MountFat
  <2>9. ResolveMountOwner(world) = "root" => world.launch = "root"
    BY DEF ResolveMountOwner, Worlds
  <2> QED
    BY <2>1, <2>2, <2>4, <2>5, <2>7, <2>8, <2>9
<1> QED
  BY <1>1, PTL

=============================================================================
