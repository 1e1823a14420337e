--------------------------- MODULE ElevationProofs ---------------------------
(***************************************************************************)
(* The user's lock does what elevation_transaction wants of it: no window  *)
(* loses its request to another's sweep, whoever dies or gives up; and as  *)
(* long as every window waits for its helper, helpers run one at a time.   *)
(***************************************************************************)
EXTENDS Elevation, TLAPS

Inside == {"prepare", "write", "launch", "wait", "answer"}
Placed == {"launch", "wait", "answer"}

\* The lock is with the one window that is inside the transaction.
Held == \A w \in Windows : window[w].pc \in Inside <=> lock = w

\* A window knows of a request from writing it to the way out, and hands it
\* to a script nobody else has.
WindowFiles ==
  \A w \in Windows :
    /\ window[w].pc \in Placed => window[w].file \in Files
    /\ window[w].pc \notin Placed => window[w].file = None
    /\ window[w].pc = "launch" => \A s \in Scripts : script[s].file # window[w].file
    /\ window[w].pc = "wait" =>
         /\ window[w].script \in Scripts
         /\ script[window[w].script].pc # "none"
         /\ script[window[w].script].file = window[w].file

\* Scripts serve different requests.
ScriptFiles ==
  /\ \A s \in Scripts : script[s].pc # "none" => script[s].file \in Files
  /\ \A s, t \in Scripts :
       script[s].pc # "none" /\ script[s].file = script[t].file => s = t

\* A request is on disk from its writing until its helper reads it.
Kept ==
  \A w \in Windows :
    /\ window[w].pc = "launch" => window[w].file \in requests
    /\ window[w].pc = "wait" /\ script[window[w].script].pc \in {"prompt", "started"} =>
         window[w].file \in requests

RequestsSafe == Held /\ WindowFiles /\ ScriptFiles /\ Kept /\ OnlyOwnRequest

-----------------------------------------------------------------------------
(* Type correctness *)

LEMMA ClassifyAnswers == ASSUME NEW code, NEW text PROVE Classify(code, text) \in Answers
  BY DEF Classify, Heuristic, Answers

LEMMA IdleTypes == IdleWindow \in WindowState /\ NoScript \in ScriptState
  BY DEF IdleWindow, NoScript, WindowState, ScriptState

LEMMA LeaveType ==
  ASSUME ElevationTypeOK, NEW w \in Windows, Leave(w)
  PROVE  lock' \in Windows \cup {None} /\ requests' \in SUBSET Files
           /\ window' \in [Windows -> WindowState]
  BY IdleTypes DEF Leave, ElevationTypeOK

LEMMA EndsType ==
  ASSUME ElevationTypeOK, NEW s \in Scripts, NEW code, NEW text, Ends(s, code, text)
  PROVE  /\ window' \in [Windows -> WindowState] /\ script' \in [Scripts -> ScriptState]
         /\ lock' \in Windows \cup {None}
<1> DEFINE answer == Classify(code, text)
<1>1. answer \in Answers
  BY ClassifyAnswers
<1>2. script' \in [Scripts -> ScriptState]
  BY IdleTypes DEF Ends, ElevationTypeOK
<1>3. ASSUME NEW w \in Windows PROVE window'[w] \in WindowState
  <2>1. window'[w] = IF Waits(w, s) THEN [window[w] EXCEPT !.pc = "answer", !.answer = answer]
                                    ELSE window[w]
    BY DEF Ends
  <2>2. window[w] \in WindowState
    BY DEF ElevationTypeOK
  <2> HIDE DEF answer
  <2> QED
    BY <1>1, <2>1, <2>2 DEF WindowState
<1> QED
  BY <1>2, <1>3 DEF Ends, ElevationTypeOK

LEMMA TransactType ==
  ASSUME ElevationTypeOK, NEW w \in Windows, Transact(w) \/ WindowDies(w) \/ \E a \in Actions : Click(w, a)
  PROVE  ElevationTypeOK'
<1> window[w] \in WindowState
  BY DEF ElevationTypeOK
<1>1. CASE \E a \in Actions : Click(w, a)
  <2> PICK a \in Actions : Click(w, a)
    BY <1>1
  <2> DEFINE new == [IdleWindow EXCEPT !.pc = "lock", !.action = a]
  <2>1. new \in WindowState
    BY DEF IdleWindow, WindowState
  <2>2. window' \in [Windows -> WindowState]
    BY <2>1 DEF Click, ElevationTypeOK
  <2> QED
    BY <2>2 DEF Click, ElevationTypeOK
<1>2. CASE Acquire(w)
  BY <1>2 DEF Acquire, ElevationTypeOK, WindowState
<1>3. CASE Prepare(w)
  <2>1. CASE Leave(w)
    BY <1>3, <2>1, LeaveType DEF Prepare, ElevationTypeOK
  <2>2. CASE window' = [window EXCEPT ![w].pc = "write"] /\ requests' = {} /\ UNCHANGED lock
    BY <1>3, <2>2 DEF Prepare, ElevationTypeOK, WindowState
  <2> QED
    BY <1>3, <2>1, <2>2 DEF Prepare
<1>4. CASE WriteRequest(w)
  <2>1. CASE Leave(w)
    BY <1>4, <2>1, LeaveType DEF WriteRequest, ElevationTypeOK
  <2>2. ASSUME NEW f \in Files, requests' = requests \cup {f}, UNCHANGED lock,
               window' = [window EXCEPT ![w].file = f, ![w].pc = "launch"]
        PROVE  ElevationTypeOK'
    BY <1>4, <2>2 DEF WriteRequest, ElevationTypeOK, WindowState
  <2> QED
    BY <1>4, <2>1, <2>2 DEF WriteRequest
<1>5. CASE Launch(w)
  <2>1. CASE Leave(w) /\ UNCHANGED script
    BY <1>5, <2>1, LeaveType DEF Launch, ElevationTypeOK
  <2>2. ASSUME NEW s \in Scripts, UNCHANGED <<lock, requests>>,
               script' = [script EXCEPT ![s] = [pc |-> "prompt", file |-> window[w].file,
                                                action |-> window[w].action]],
               window' = [window EXCEPT ![w].script = s, ![w].pc = "wait"]
        PROVE  ElevationTypeOK'
    <3>1. [pc |-> "prompt", file |-> window[w].file, action |-> window[w].action] \in ScriptState
      BY DEF WindowState, ScriptState
    <3>2. script' \in [Scripts -> ScriptState]
      BY <2>2, <3>1 DEF ElevationTypeOK
    <3>3. window' \in [Windows -> WindowState]
      BY <2>2 DEF ElevationTypeOK, WindowState
    <3> QED
      BY <1>5, <2>2, <3>2, <3>3 DEF Launch, ElevationTypeOK
  <2> QED
    BY <1>5, <2>1, <2>2 DEF Launch
<1>6. CASE GiveUp(w)
  <2>1. window' \in [Windows -> WindowState]
    BY <1>6 DEF GiveUp, ElevationTypeOK, WindowState, Answers
  <2>2. script' \in [Scripts -> ScriptState]
    BY <1>6, IdleTypes DEF GiveUp, ElevationTypeOK
  <2> QED
    BY <1>6, <2>1, <2>2 DEF GiveUp, ElevationTypeOK
<1>7. CASE Answer(w)
  BY <1>7, LeaveType DEF Answer, ElevationTypeOK
<1>8. CASE WindowDies(w)
  BY <1>8, IdleTypes DEF WindowDies, ElevationTypeOK
<1> QED
  BY <1>1, <1>2, <1>3, <1>4, <1>5, <1>6, <1>7, <1>8 DEF Transact

ScriptStep(s) ==
  \/ PromptFails(s) \/ Authorize(s) \/ ReadRequest(s) \/ Exits(s) \/ HelperDies(s)
  \/ Pipeline(s)

LEMMA ScriptType ==
  ASSUME ElevationTypeOK, NEW s \in Scripts, ScriptStep(s)
  PROVE  ElevationTypeOK'
<1> script[s] \in ScriptState
  BY DEF ElevationTypeOK
<1>1. CASE PromptFails(s)
  BY <1>1, EndsType DEF PromptFails, ElevationTypeOK
<1>2. CASE Authorize(s)
  BY <1>2 DEF Authorize, ElevationTypeOK, ScriptState
<1>3. CASE ReadRequest(s)
  <2>1. CASE Ends(s, 2, "plain") /\ requests' \in {requests, requests \ {script[s].file}}
    BY <1>3, <2>1, EndsType DEF ReadRequest, ElevationTypeOK
  <2>2. CASE /\ requests' = requests \ {script[s].file} /\ UNCHANGED <<lock, window>>
             /\ script' = [script EXCEPT ![s].pc = "working"]
    BY <1>3, <2>2 DEF ReadRequest, ElevationTypeOK, ScriptState
  <2> QED
    BY <1>3, <2>1, <2>2 DEF ReadRequest
<1>4. CASE Exits(s)
  BY <1>4, EndsType DEF Exits, ElevationTypeOK
<1>5. CASE HelperDies(s)
  BY <1>5, EndsType DEF HelperDies, ElevationTypeOK
<1>6. CASE ClearsStale(s) \/ Records(s)
  BY <1>6 DEF ClearsStale, Records, transport, ElevationTypeOK
<1>7. CASE Returns(s)
  BY <1>7 DEF Returns, ElevationTypeOK, ScriptState
<1>8. CASE Fails(s)
  BY <1>8, EndsType DEF Fails, ElevationTypeOK
<1> QED
  BY <1>1, <1>2, <1>3, <1>4, <1>5, <1>6, <1>7, <1>8 DEF ScriptStep, Pipeline

LEMMA NextSteps ==
  ASSUME ElevationNext
  PROVE  \/ \E w \in Windows : \/ Transact(w) \/ WindowDies(w)
                              \/ \E a \in Actions : Click(w, a)
         \/ \E s \in Scripts : ScriptStep(s)
         \/ Restart
  BY DEF ElevationNext, Transport, ScriptStep

LEMMA NextType ==
  ASSUME ElevationTypeOK, [ElevationNext]_elevationVars
  PROVE  ElevationTypeOK'
<1>1. CASE Restart
  BY <1>1, IdleTypes DEF Restart, ElevationTypeOK
<1>2. CASE UNCHANGED elevationVars
  BY <1>2 DEF elevationVars, ElevationTypeOK
<1> QED
  BY <1>1, <1>2, NextSteps, TransactType, ScriptType

-----------------------------------------------------------------------------
(* Requests are safe, whatever windows do *)

\* A window on its way out holds the lock, so nobody else has a request.
LEMMA LeaveSafe ==
  ASSUME ElevationTypeOK, RequestsSafe, NEW w \in Windows, window[w].pc \in Inside,
         Leave(w), UNCHANGED script
  PROVE  RequestsSafe'
<1> USE DEF Inside, Placed
<1>1. \A v \in Windows : window'[v] = IF v = w THEN IdleWindow ELSE window[v]
  BY DEF Leave, ElevationTypeOK
<1>2. lock = w /\ lock' = None
  BY DEF RequestsSafe, Held, Leave
<1>3. \A v \in Windows \ {w} : window[v].pc \notin Inside
  BY <1>2 DEF RequestsSafe, Held
<1>4. \A v \in Windows : window'[v].pc \notin Inside
  BY <1>1, <1>3 DEF IdleWindow
<1>5. \A v \in Windows : window'[v].file = None
  BY <1>1, <1>3 DEF IdleWindow, RequestsSafe, WindowFiles
<1>6. Held' /\ OnlyOwnRequest' /\ Kept'
  BY <1>2, <1>4, ElevationConstants DEF Held, OnlyOwnRequest, Kept
<1>7. WindowFiles'
  BY <1>4, <1>5 DEF WindowFiles
<1>8. ScriptFiles'
  BY DEF RequestsSafe, ScriptFiles
<1> QED
  BY <1>6, <1>7, <1>8 DEF RequestsSafe

\* The window whose script ends moves on, with its request where it was.
LEMMA EndsSafe ==
  ASSUME ElevationTypeOK, RequestsSafe, NEW s \in Scripts, script[s].pc # "none",
         NEW code, NEW text, Ends(s, code, text),
         requests' \in {requests, requests \ {script[s].file}}
  PROVE  RequestsSafe'
<1> USE DEF Inside, Placed
<1>1. \A t \in Scripts : script'[t] = IF t = s THEN NoScript ELSE script[t]
  BY DEF Ends, ElevationTypeOK
<1>2. \A v \in Windows :
        /\ window'[v].file = window[v].file /\ window'[v].script = window[v].script
        /\ Waits(v, s) => window'[v].pc = "answer"
        /\ ~ Waits(v, s) => window'[v].pc = window[v].pc
  BY DEF Ends, ElevationTypeOK, WindowState
<1>3. UNCHANGED lock
  BY DEF Ends
<1>4. Held'
  BY <1>2, <1>3 DEF RequestsSafe, Held, Waits
<1>5. WindowFiles'
  BY <1>1, <1>2, ElevationConstants DEF RequestsSafe, WindowFiles, Waits, NoScript
<1>6. ScriptFiles'
  BY <1>1, ElevationConstants DEF RequestsSafe, ScriptFiles, NoScript
<1>7. Kept'
  BY <1>1, <1>2, ElevationConstants DEF RequestsSafe, Kept, WindowFiles, ScriptFiles, Waits, NoScript
<1>8. OnlyOwnRequest'
  BY <1>2, <1>3 DEF RequestsSafe, OnlyOwnRequest, Held, Waits
<1> QED
  BY <1>4, <1>5, <1>6, <1>7, <1>8 DEF RequestsSafe

\* A script that only moves on, prompt to helper to return, changes no file.
LEMMA AdvanceSafe ==
  ASSUME ElevationTypeOK, RequestsSafe, NEW s \in Scripts, NEW label,
         label \in {"started", "working", "done"}, script[s].pc # "none",
         script' = [script EXCEPT ![s].pc = label], UNCHANGED <<lock, window>>,
         \/ requests' = requests /\ (label = "started" => script[s].pc = "prompt")
         \/ requests' = requests \ {script[s].file} /\ label = "working"
  PROVE  RequestsSafe'
<1> USE DEF Inside, Placed
<1>1. \A t \in Scripts :
        /\ script'[t].file = script[t].file
        /\ t # s => script'[t] = script[t]
        /\ script'[s].pc = label
  BY DEF ElevationTypeOK, ScriptState
<1>2. Held' /\ OnlyOwnRequest'
  BY DEF RequestsSafe, Held, OnlyOwnRequest
<1>3. WindowFiles'
  BY <1>1 DEF RequestsSafe, WindowFiles
<1>4. ScriptFiles'
  BY <1>1 DEF RequestsSafe, ScriptFiles
<1>5. Kept'
  BY <1>1 DEF RequestsSafe, Kept, WindowFiles, ScriptFiles
<1> QED
  BY <1>2, <1>3, <1>4, <1>5 DEF RequestsSafe

LEMMA ScriptSafe ==
  ASSUME ElevationTypeOK, RequestsSafe, NEW s \in Scripts, ScriptStep(s)
  PROVE  RequestsSafe'
<1>1. CASE PromptFails(s)
  BY <1>1, EndsSafe DEF PromptFails
<1>2. CASE Authorize(s)
  BY <1>2, AdvanceSafe DEF Authorize
<1>3. CASE ReadRequest(s)
  <2>1. CASE Ends(s, 2, "plain") /\ requests' \in {requests, requests \ {script[s].file}}
    BY <1>3, <2>1, EndsSafe DEF ReadRequest
  <2>2. CASE /\ requests' = requests \ {script[s].file} /\ UNCHANGED <<lock, window>>
             /\ script' = [script EXCEPT ![s].pc = "working"]
    BY <1>3, <2>2, AdvanceSafe DEF ReadRequest
  <2> QED
    BY <1>3, <2>1, <2>2 DEF ReadRequest
<1>4. CASE Exits(s)
  BY <1>4, EndsSafe DEF Exits
<1>5. CASE HelperDies(s)
  BY <1>5, EndsSafe DEF HelperDies, Runs, HelperPcs
<1>6. CASE ClearsStale(s) \/ Records(s)
  BY <1>6 DEF ClearsStale, Records, transport, RequestsSafe, Held, WindowFiles, ScriptFiles, Kept,
              OnlyOwnRequest
<1>7. CASE Returns(s)
  BY <1>7, AdvanceSafe DEF Returns
<1>8. CASE Fails(s)
  BY <1>8, EndsSafe DEF Fails
<1> QED
  BY <1>1, <1>2, <1>3, <1>4, <1>5, <1>6, <1>7, <1>8 DEF ScriptStep, Pipeline

LEMMA TransactSafe ==
  ASSUME ElevationTypeOK, RequestsSafe, NEW w \in Windows, Transact(w)
  PROVE  RequestsSafe'
<1> USE DEF Inside, Placed
<1>0. window[w] \in WindowState /\ \A v \in Windows : window[v] \in WindowState
  BY DEF ElevationTypeOK
<1>1. CASE Acquire(w)
  <2>1. \A v \in Windows : window'[v] = IF v = w THEN [window[v] EXCEPT !.pc = "prepare"]
                                                 ELSE window[v]
    BY <1>1 DEF Acquire, ElevationTypeOK
  <2>2. window'[w].pc = "prepare" /\ window'[w].file = window[w].file
    BY <2>1, <1>0 DEF WindowState
  <2>3. Held' /\ OnlyOwnRequest'
    BY <1>1, <2>1, <2>2, ElevationConstants DEF Acquire, RequestsSafe, Held, OnlyOwnRequest
  <2>4. WindowFiles' /\ ScriptFiles' /\ Kept'
    BY <1>1, <2>1, <2>2 DEF Acquire, RequestsSafe, WindowFiles, ScriptFiles, Kept
  <2> QED
    BY <2>3, <2>4 DEF RequestsSafe
<1>2. CASE Prepare(w)
  <2>1. CASE Leave(w)
    BY <1>2, <2>1, LeaveSafe DEF Prepare
  <2>2. CASE window' = [window EXCEPT ![w].pc = "write"] /\ requests' = {} /\ UNCHANGED lock
    <3>1. \A v \in Windows : v # w => window'[v] = window[v] /\ window[v].pc \notin Inside
      BY <1>2, <2>2 DEF Prepare, ElevationTypeOK, RequestsSafe, Held
    <3>2. window'[w].pc = "write" /\ window'[w].file = window[w].file
      BY <2>2, <1>0 DEF ElevationTypeOK, WindowState
    <3>3. Held' /\ OnlyOwnRequest' /\ Kept'
      BY <1>2, <2>2, <3>1, <3>2 DEF Prepare, RequestsSafe, Held, OnlyOwnRequest, Kept
    <3>4. WindowFiles' /\ ScriptFiles'
      BY <1>2, <3>1, <3>2 DEF Prepare, RequestsSafe, WindowFiles, ScriptFiles
    <3> QED
      BY <3>3, <3>4 DEF RequestsSafe
  <2> QED
    BY <1>2, <2>1, <2>2 DEF Prepare
<1>3. CASE WriteRequest(w)
  <2>1. CASE Leave(w)
    BY <1>3, <2>1, LeaveSafe DEF WriteRequest
  <2>2. ASSUME NEW f \in Files, FreshFile(f), requests' = requests \cup {f}, UNCHANGED lock,
               window' = [window EXCEPT ![w].file = f, ![w].pc = "launch"]
        PROVE  RequestsSafe'
    <3>1. \A v \in Windows : v # w => window'[v] = window[v] /\ window[v].pc \notin Inside
      BY <1>3, <2>2 DEF WriteRequest, ElevationTypeOK, RequestsSafe, Held
    <3>2. window'[w].pc = "launch" /\ window'[w].file = f
      BY <2>2, <1>0 DEF ElevationTypeOK, WindowState
    <3>3. requests = {}
      BY <1>3, ElevationConstants
         DEF WriteRequest, RequestsSafe, Held, OnlyOwnRequest, WindowFiles, ElevationTypeOK
    <3>4. window[w].pc = "write"
      BY <1>3 DEF WriteRequest
    <3>5. Held'
      BY <2>2, <3>1, <3>2, <3>4 DEF RequestsSafe, Held
    <3>6. OnlyOwnRequest' /\ Kept'
      <4>1. requests' = {f}
        BY <2>2, <3>3
      <4>2. \A v \in Windows : v # w => window'[v].pc \notin Inside
        BY <3>1
      <4> QED
        BY <3>2, <3>5, <4>1, <4>2 DEF OnlyOwnRequest, Kept, Held
    <3>7. \A s \in Scripts : script[s].file # f
      BY <2>2 DEF FreshFile
    <3>8. WindowFiles' /\ ScriptFiles'
      BY <1>3, <3>1, <3>2, <3>4, <3>7 DEF WriteRequest, RequestsSafe, WindowFiles, ScriptFiles
    <3> QED
      BY <3>5, <3>6, <3>8 DEF RequestsSafe
  <2> QED
    BY <1>3, <2>1, <2>2 DEF WriteRequest
<1>4. CASE Launch(w)
  <2>1. CASE Leave(w) /\ UNCHANGED script
    BY <1>4, <2>1, LeaveSafe DEF Launch
  <2>2. ASSUME NEW s \in Scripts, UNCHANGED <<lock, requests>>, script[s] = NoScript,
               script' = [script EXCEPT ![s] = [pc |-> "prompt", file |-> window[w].file,
                                                action |-> window[w].action]],
               window' = [window EXCEPT ![w].script = s, ![w].pc = "wait"]
        PROVE  RequestsSafe'
    <3>1. \A v \in Windows : v # w => window'[v] = window[v] /\ window[v].pc \notin Inside
      BY <1>4, <2>2 DEF Launch, ElevationTypeOK, RequestsSafe, Held
    <3>2. window'[w].pc = "wait" /\ window'[w].file = window[w].file /\ window'[w].script = s
      BY <2>2, <1>0 DEF ElevationTypeOK, WindowState
    <3>3. /\ script'[s].pc = "prompt" /\ script'[s].file = window[w].file
          /\ \A t \in Scripts : t # s => script'[t] = script[t] /\ script[t].file # window[w].file
      BY <1>4, <2>2 DEF Launch, ElevationTypeOK, RequestsSafe, WindowFiles
    <3>4. window[w].pc = "launch"
      BY <1>4 DEF Launch
    <3>5. Held' /\ OnlyOwnRequest'
      BY <2>2, <3>1, <3>2, <3>4 DEF RequestsSafe, Held, OnlyOwnRequest
    <3>6. Kept'
      <4>1. window[w].file \in requests'
        BY <2>2, <3>4 DEF RequestsSafe, Kept
      <4>2. \A v \in Windows : v # w => window'[v].pc \notin Inside
        BY <3>1
      <4> QED
        BY <3>2, <4>1, <4>2 DEF Kept
    <3>7. window[w].file \in Files
      BY <3>4 DEF RequestsSafe, WindowFiles
    <3>8. WindowFiles'
      BY <3>1, <3>2, <3>3, <3>4, <3>7 DEF RequestsSafe, WindowFiles
    <3>9. ScriptFiles'
      BY <3>3, <3>7 DEF RequestsSafe, ScriptFiles
    <3> QED
      BY <3>5, <3>6, <3>8, <3>9 DEF RequestsSafe
  <2> QED
    BY <1>4, <2>1, <2>2 DEF Launch
<1>5. CASE GiveUp(w)
  <2> DEFINE s == window[w].script
  <2>1. \A v \in Windows : v # w => window'[v] = window[v] /\ window[v].pc \notin Inside
    BY <1>5 DEF GiveUp, ElevationTypeOK, RequestsSafe, Held
  <2>2. window'[w].pc = "answer" /\ window'[w].file = window[w].file
    BY <1>5, <1>0 DEF GiveUp, ElevationTypeOK, WindowState
  <2>3. \A t \in Scripts : script'[t] = script[t] \/ script'[t] = NoScript
    <3> TAKE t \in Scripts
    <3>1. CASE t # s
      BY <1>5, <3>1 DEF GiveUp, ElevationTypeOK
    <3>2. CASE t = s
      BY <1>5, <3>2 DEF GiveUp, ElevationTypeOK
    <3> QED
      BY <3>1, <3>2
  <2>4. Held' /\ OnlyOwnRequest' /\ Kept'
    BY <1>5, <2>1, <2>2 DEF GiveUp, RequestsSafe, Held, OnlyOwnRequest, Kept
  <2>5. WindowFiles'
    BY <1>5, <2>1, <2>2 DEF GiveUp, RequestsSafe, WindowFiles
  <2>6. ScriptFiles'
    BY <2>3, ElevationConstants DEF RequestsSafe, ScriptFiles, NoScript
  <2> QED
    BY <2>4, <2>5, <2>6 DEF RequestsSafe
<1>6. CASE Answer(w)
  BY <1>6, LeaveSafe DEF Answer
<1> QED
  BY <1>1, <1>2, <1>3, <1>4, <1>5, <1>6 DEF Transact

LEMMA ClickSafe ==
  ASSUME ElevationTypeOK, RequestsSafe, NEW w \in Windows, NEW a \in Actions, Click(w, a)
  PROVE  RequestsSafe'
<1> USE DEF Inside, Placed
<1>1. \A v \in Windows : v # w => window'[v] = window[v]
  BY DEF Click, ElevationTypeOK
<1>2. window'[w].pc = "lock" /\ window'[w].file = None
  BY DEF Click, ElevationTypeOK, IdleWindow
<1>3. Held' /\ OnlyOwnRequest' /\ Kept'
  BY <1>1, <1>2 DEF Click, RequestsSafe, Held, OnlyOwnRequest, Kept
<1>4. WindowFiles' /\ ScriptFiles'
  BY <1>1, <1>2 DEF Click, RequestsSafe, WindowFiles, ScriptFiles
<1> QED
  BY <1>3, <1>4 DEF RequestsSafe

LEMMA DeathSafe ==
  ASSUME ElevationTypeOK, RequestsSafe, NEW w \in Windows, WindowDies(w)
  PROVE  RequestsSafe'
<1> USE DEF Inside, Placed
<1>1. \A v \in Windows : v # w => window'[v] = window[v]
  BY DEF WindowDies, ElevationTypeOK
<1>2. window'[w].pc = "idle" /\ window'[w].file = None
  BY DEF WindowDies, ElevationTypeOK, IdleWindow
<1>3. Held'
  BY <1>1, <1>2, ElevationConstants DEF WindowDies, RequestsSafe, Held
<1>4. OnlyOwnRequest' /\ Kept'
  BY <1>1, <1>2, ElevationConstants DEF WindowDies, RequestsSafe, Held, OnlyOwnRequest, Kept
<1>5. WindowFiles' /\ ScriptFiles'
  BY <1>1, <1>2 DEF WindowDies, RequestsSafe, WindowFiles, ScriptFiles
<1> QED
  BY <1>3, <1>4, <1>5 DEF RequestsSafe

LEMMA QuietSafe ==
  ASSUME Restart \/ ElevationInit
  PROVE  (Restart => RequestsSafe') /\ (ElevationInit => RequestsSafe)
  BY ElevationConstants
     DEF Restart, ElevationInit, RequestsSafe, Held, WindowFiles, ScriptFiles, Kept,
         OnlyOwnRequest, IdleWindow, NoScript, Inside, Placed

LEMMA NextSafe ==
  ASSUME ElevationTypeOK, RequestsSafe, [ElevationNext]_elevationVars
  PROVE  RequestsSafe'
<1>1. CASE UNCHANGED elevationVars
  BY <1>1 DEF elevationVars, RequestsSafe, Held, WindowFiles, ScriptFiles, Kept,
              OnlyOwnRequest, Inside, Placed
<1>2. CASE ElevationNext
  <2>1. ASSUME NEW w \in Windows,
               Transact(w) \/ WindowDies(w) \/ \E a \in Actions : Click(w, a)
        PROVE  RequestsSafe'
    BY <2>1, TransactSafe, ClickSafe, DeathSafe
  <2>2. ASSUME NEW s \in Scripts, ScriptStep(s) PROVE RequestsSafe'
    BY <2>2, ScriptSafe
  <2>3. CASE Restart
    BY <2>3, QuietSafe
  <2> QED
    BY <1>2, <2>1, <2>2, <2>3, NextSteps
<1> QED
  BY <1>1, <1>2

\* Whatever windows die or give up, no window that still waits for its prompt
\* or helper loses its request (RequestKept), and no secret but that of the
\* lock's holder stays on disk after a sweep (OnlyOwnRequest).
THEOREM RequestsAlwaysSafe == ElevationSpec => [](ElevationTypeOK /\ RequestKept /\ OnlyOwnRequest)
<1>1. ElevationInit => ElevationTypeOK /\ RequestsSafe
  <2>1. ElevationInit => ElevationTypeOK
    BY IdleTypes DEF ElevationInit, ElevationTypeOK
  <2> QED
    BY <2>1, QuietSafe
<1>2. ElevationTypeOK /\ RequestsSafe /\ [ElevationNext]_elevationVars
        => ElevationTypeOK' /\ RequestsSafe'
  BY NextType, NextSafe
<1>3. ElevationTypeOK /\ RequestsSafe => ElevationTypeOK /\ RequestKept /\ OnlyOwnRequest
  BY DEF RequestsSafe, Kept, RequestKept, Waits
<1> QED
  BY <1>1, <1>2, <1>3, PTL DEF ElevationSpec

\* The variables of windows, scripts and files keep their types.
THEOREM ElevationTypeCorrect == ElevationSpec => []ElevationTypeOK
BY RequestsAlwaysSafe, PTL

\* Between the sweep and the way out, the one request on disk is that of the
\* window that holds the lock.
THEOREM OnlyOwnRequestAlways == ElevationSpec => []OnlyOwnRequest
BY RequestsAlwaysSafe, PTL

-----------------------------------------------------------------------------
(* One helper at a time, while windows wait for theirs *)

\* Every script has its window waiting for it.
Served == \A s \in Scripts : script[s].pc # "none" => \E w \in Windows : Waits(w, s)

\* A mount that has returned, and the answer it gives, have the record.
Recording ==
  /\ \A w \in Windows, s \in Scripts : Waits(w, s) => window[w].action = script[s].action
  /\ \A s \in Scripts : script[s].pc = "done" /\ script[s].action = "mount" => recorded
  /\ SuccessHasRecord

\* Only code 0 is success.
LEMMA ClassifyOk == ASSUME NEW code \in Int, NEW text, Classify(code, text) = "ok" PROVE code = 0
  BY DEF Classify, Heuristic

\* At most one script is there at all, and its window holds the lock.
LEMMA OneScript ==
  ASSUME RequestsSafe, Served, NEW s \in Scripts, script[s].pc # "none"
  PROVE  /\ \E w \in Windows : Waits(w, s) /\ lock = w
         /\ \A t \in Scripts : script[t].pc # "none" => t = s
         /\ \A w \in Windows : window[w].pc # "answer"
<1>1. PICK w \in Windows : Waits(w, s)
  BY DEF Served
<1>2. lock = w
  BY <1>1 DEF RequestsSafe, Held, Inside, Waits
<1>3. \A v \in Windows : window[v].pc \in Inside => v = w
  BY <1>2 DEF RequestsSafe, Held
<1>4. \A t \in Scripts : script[t].pc # "none" => t = s
  BY <1>1, <1>3 DEF Served, Waits, Inside
<1>5. \A v \in Windows : window[v].pc # "answer"
  BY <1>1, <1>3 DEF Waits, Inside
<1> QED
  BY <1>1, <1>2, <1>4, <1>5

LEMMA TransactServed ==
  ASSUME ~ Abandon, ElevationTypeOK, RequestsSafe, Served, NEW w \in Windows,
         Transact(w) \/ WindowDies(w) \/ \E a \in Actions : Click(w, a)
  PROVE  Served'
<1>1. CASE Launch(w) /\ ~ UNCHANGED script
  <2>1. PICK s \in Scripts :
          /\ script' = [script EXCEPT ![s] = [pc |-> "prompt", file |-> window[w].file,
                                              action |-> window[w].action]]
          /\ window' = [window EXCEPT ![w].script = s, ![w].pc = "wait"]
    BY <1>1 DEF Launch
  <2>2. window[w].pc = "launch"
    BY <1>1 DEF Launch
  <2>3. Waits(w, s)'
    BY <2>1 DEF Waits, ElevationTypeOK, WindowState
  <2>4. ASSUME NEW t \in Scripts, t # s, script'[t].pc # "none"
        PROVE  \E v \in Windows : Waits(v, t)'
    <3>1. script[t].pc # "none"
      BY <2>1, <2>4 DEF ElevationTypeOK
    <3>2. PICK v \in Windows : Waits(v, t)
      BY <3>1 DEF Served
    <3> QED
      BY <2>1, <2>2, <3>2 DEF Waits, ElevationTypeOK
  <2> QED
    BY <2>3, <2>4 DEF Served
<1>2. CASE GiveUp(w)
  <2>1. script[window[w].script].pc = "prompt" /\ window[w].pc = "wait"
    BY <1>2 DEF GiveUp
  <2>2. \A t \in Scripts : script'[t] = IF t = window[w].script THEN NoScript ELSE script[t]
    BY <1>2, <2>1 DEF GiveUp, ElevationTypeOK
  <2>3. \A v \in Windows : v # w => window'[v] = window[v]
    BY <1>2 DEF GiveUp, ElevationTypeOK
  <2>4. ASSUME NEW t \in Scripts, script'[t].pc # "none"
        PROVE  \E v \in Windows : Waits(v, t)'
    <3>1. t # window[w].script /\ script[t].pc # "none"
      BY <2>2, <2>4 DEF NoScript
    <3>2. PICK v \in Windows : Waits(v, t)
      BY <3>1 DEF Served
    <3> QED
      BY <2>3, <3>1, <3>2 DEF Waits
  <2> QED
    BY <2>4 DEF Served
<1>3. CASE UNCHANGED script /\ ~ GiveUp(w)
  <2>1. window[w].pc # "wait"
    BY <1>3 DEF Transact, Acquire, Prepare, WriteRequest, Launch, Answer, WindowDies, Click
  <2>2. \A v \in Windows : v # w => window'[v] = window[v]
    BY <1>3 DEF Transact, Acquire, Prepare, WriteRequest, Launch, Answer, WindowDies, Click,
                Leave, ElevationTypeOK
  <2> QED
    BY <1>3, <2>1, <2>2 DEF Served, Waits
<1> QED
  BY <1>1, <1>2, <1>3 DEF Transact, Acquire, Prepare, WriteRequest, Answer, WindowDies, Click

LEMMA EndsServed ==
  ASSUME ElevationTypeOK, RequestsSafe, Served, Recording, NEW s \in Scripts,
         script[s].pc # "none", NEW code \in Int, NEW text, Ends(s, code, text),
         code = 0 => script[s].pc = "done" /\ UNCHANGED recorded
  PROVE  Served' /\ Recording'
<1>1. \A t \in Scripts : script'[t].pc = "none"
  BY OneScript DEF Ends, ElevationTypeOK, NoScript
<1>2. \A w \in Windows : window[w].pc # "answer"
  BY OneScript
<1>3. ASSUME NEW w \in Windows, window'[w].pc = "answer", window'[w].action = "mount",
             window'[w].answer = "ok"
      PROVE  recorded'
  <2>1. Waits(w, s)
    BY <1>2, <1>3 DEF Ends
  <2>2. window'[w].answer = Classify(code, text) /\ window'[w].action = window[w].action
    BY <2>1 DEF Ends, ElevationTypeOK, WindowState
  <2>3. code = 0
    BY <1>3, <2>2, ClassifyOk
  <2>4. script[s].action = "mount"
    BY <1>3, <2>1, <2>2 DEF Recording
  <2> QED
    BY <2>3, <2>4 DEF Recording
<1>4. \A w \in Windows, t \in Scripts : ~ Waits(w, t)'
  <2>1. SUFFICES ASSUME NEW w \in Windows, NEW t \in Scripts, Waits(w, t)' PROVE FALSE
    OBVIOUS
  <2>2. ~ Waits(w, s) /\ window'[w] = window[w]
    BY <2>1 DEF Ends, Waits, ElevationTypeOK, WindowState
  <2>3. Waits(w, t)
    BY <2>1, <2>2 DEF Waits
  <2>4. script[t].pc # "none"
    BY <2>3 DEF RequestsSafe, WindowFiles, Waits
  <2> QED
    BY <2>2, <2>3, <2>4, OneScript
<1> QED
  BY <1>1, <1>3, <1>4 DEF Served, Recording, SuccessHasRecord

\* While a helper works nobody has an answer to lose, so it may change the
\* record; when it returns it leaves the one its action is about.
LEMMA AdvanceServed ==
  ASSUME ElevationTypeOK, RequestsSafe, Served, Recording, NEW s \in Scripts, NEW label,
         script[s].pc # "none", UNCHANGED window,
         script' = [script EXCEPT ![s].pc = label],
         label # "done" => script[s].pc # "done",
         label = "done" /\ script[s].action = "mount" => recorded'
  PROVE  Served' /\ Recording'
<1>1. /\ \A t \in Scripts : script'[t].action = script[t].action
      /\ \A t \in Scripts : t # s => script'[t] = script[t]
      /\ script'[s].pc = label
  BY DEF ElevationTypeOK, ScriptState
<1>2. \A t \in Scripts : t # s => script[t].pc = "none"
  BY OneScript
<1>3. \A w \in Windows : window[w].pc # "answer"
  BY OneScript
<1>4. Served'
  BY <1>1, <1>2 DEF Served, Waits
<1>5. Recording'
  BY <1>1, <1>2, <1>3 DEF Recording, SuccessHasRecord, Waits
<1> QED
  BY <1>4, <1>5

LEMMA ScriptServed ==
  ASSUME ElevationTypeOK, RequestsSafe, Served, Recording, NEW s \in Scripts, ScriptStep(s)
  PROVE  Served' /\ Recording'
<1>1. CASE PromptFails(s)
  BY <1>1, EndsServed DEF PromptFails
<1>2. CASE Authorize(s)
  BY <1>2, AdvanceServed DEF Authorize
<1>3. CASE ReadRequest(s)
  <2>1. CASE Ends(s, 2, "plain")
    BY <1>3, <2>1, EndsServed DEF ReadRequest
  <2>2. CASE /\ script' = [script EXCEPT ![s].pc = "working"]
             /\ UNCHANGED <<lock, window>>
    BY <1>3, <2>2, AdvanceServed DEF ReadRequest
  <2> QED
    BY <1>3, <2>1, <2>2 DEF ReadRequest
<1>4. CASE Exits(s)
  BY <1>4, EndsServed DEF Exits
<1>5. CASE HelperDies(s)
  BY <1>5, EndsServed DEF HelperDies, Runs, HelperPcs
<1>6. CASE ClearsStale(s) \/ Records(s)
  <2>1. script' = [script EXCEPT ![s].pc = "working"]
    BY <1>6 DEF ClearsStale, Records, transport, ElevationTypeOK, ScriptState
  <2> QED
    BY <1>6, <2>1, AdvanceServed DEF ClearsStale, Records, transport
<1>7. CASE Returns(s)
  BY <1>7, AdvanceServed DEF Returns
<1>8. CASE Fails(s)
  BY <1>8, EndsServed DEF Fails
<1> QED
  BY <1>1, <1>2, <1>3, <1>4, <1>5, <1>6, <1>7, <1>8 DEF ScriptStep, Pipeline

LEMMA TransactRecording ==
  ASSUME ElevationTypeOK, RequestsSafe, Served, Recording, NEW w \in Windows,
         Transact(w) \/ WindowDies(w) \/ \E a \in Actions : Click(w, a)
  PROVE  Recording'
<1>0. UNCHANGED recorded
  BY DEF Transact, Acquire, Prepare, WriteRequest, Launch, GiveUp, Answer, WindowDies, Click
<1>1. CASE Launch(w) /\ ~ UNCHANGED script
  <2>1. PICK s \in Scripts :
          /\ script[s] = NoScript
          /\ script' = [script EXCEPT ![s] = [pc |-> "prompt", file |-> window[w].file,
                                              action |-> window[w].action]]
          /\ window' = [window EXCEPT ![w].script = s, ![w].pc = "wait"]
    BY <1>1 DEF Launch
  <2>2. /\ window'[w].action = window[w].action /\ window'[w].pc = "wait" /\ window'[w].script = s
        /\ \A v \in Windows : v # w => window'[v] = window[v]
    BY <2>1 DEF ElevationTypeOK, WindowState
  <2>3. /\ script'[s].pc = "prompt" /\ script'[s].action = window[w].action
        /\ \A t \in Scripts : t # s => script'[t] = script[t]
    BY <2>1 DEF ElevationTypeOK
  <2>4. \A v \in Windows : ~ Waits(v, s)
    BY <2>1 DEF RequestsSafe, WindowFiles, Waits, NoScript
  <2> QED
    BY <1>0, <2>2, <2>3, <2>4 DEF Recording, SuccessHasRecord, Waits
<1>2. CASE GiveUp(w)
  <2>1. /\ window'[w].pc = "answer" /\ window'[w].answer = "timedOut"
        /\ \A v \in Windows : v # w => window'[v] = window[v]
    BY <1>2 DEF GiveUp, ElevationTypeOK, WindowState
  <2>2. \A t \in Scripts : script'[t] = script[t] \/ script'[t] = NoScript
    <3> TAKE t \in Scripts
    <3>1. CASE t # window[w].script
      BY <1>2, <3>1 DEF GiveUp, ElevationTypeOK
    <3>2. CASE t = window[w].script
      BY <1>2, <3>2 DEF GiveUp, ElevationTypeOK
    <3> QED
      BY <3>1, <3>2
  <2>3. \A v \in Windows : window[v].pc = "wait" => v = w
    BY <1>2 DEF GiveUp, RequestsSafe, Held, Inside
  <2> QED
    BY <1>0, <2>1, <2>2, <2>3 DEF Recording, SuccessHasRecord, Waits, NoScript
<1>3. CASE UNCHANGED script /\ ~ GiveUp(w)
  <2>1. \A v \in Windows : v # w => window'[v] = window[v]
    BY <1>3 DEF Transact, Acquire, Prepare, WriteRequest, Launch, Answer, WindowDies, Click,
                Leave, ElevationTypeOK
  <2>2. ASSUME Launch(w) PROVE window'[w].pc \notin {"wait", "answer"}
    <3>1. ASSUME NEW s \in Scripts, script[s] = NoScript,
                 script' = [script EXCEPT ![s] = [pc |-> "prompt", file |-> window[w].file,
                                                  action |-> window[w].action]]
          PROVE  FALSE
      BY <1>3, <3>1 DEF NoScript, ElevationTypeOK
    <3>2. Leave(w)
      BY <2>2, <3>1 DEF Launch
    <3> QED
      BY <3>2 DEF Leave, IdleWindow, ElevationTypeOK
  <2>3. ASSUME Acquire(w) \/ Prepare(w) \/ WriteRequest(w)
        PROVE  window'[w].pc \notin {"wait", "answer"}
    <3> USE DEF Leave, IdleWindow, ElevationTypeOK, WindowState
    <3>1. CASE Acquire(w)
      BY <3>1 DEF Acquire
    <3>2. CASE Prepare(w)
      BY <3>2 DEF Prepare
    <3>3. CASE WriteRequest(w)
      <4>1. ASSUME NEW f \in Files, window' = [window EXCEPT ![w].file = f, ![w].pc = "launch"]
            PROVE  window'[w].pc \notin {"wait", "answer"}
        BY <4>1
      <4>2. ASSUME Leave(w) PROVE window'[w].pc \notin {"wait", "answer"}
        BY <4>2
      <4> QED
        BY <3>3, <4>1, <4>2 DEF WriteRequest
    <3> QED
      BY <2>3, <3>1, <3>2, <3>3
  <2>4. ASSUME Answer(w) \/ WindowDies(w) PROVE window'[w].pc \notin {"wait", "answer"}
    BY <2>4 DEF Answer, WindowDies, Leave, IdleWindow, ElevationTypeOK
  <2>5. ASSUME NEW a \in Actions, Click(w, a) PROVE window'[w].pc \notin {"wait", "answer"}
    BY <2>5 DEF Click, IdleWindow, ElevationTypeOK
  <2>6. window'[w].pc \notin {"wait", "answer"}
    BY <1>3, <2>2, <2>3, <2>4, <2>5 DEF Transact
  <2> QED
    BY <1>0, <1>3, <2>1, <2>6 DEF Recording, SuccessHasRecord, Waits
<1> QED
  BY <1>1, <1>2, <1>3 DEF Transact, Acquire, Prepare, WriteRequest, Answer, WindowDies, Click

LEMMA InitServed == ASSUME ElevationInit PROVE Served /\ Recording
  BY DEF ElevationInit, Served, Recording, SuccessHasRecord, Waits, IdleWindow, NoScript

LEMMA RestartServed == ASSUME Restart PROVE Served' /\ Recording'
  BY DEF Restart, Served, Recording, SuccessHasRecord, Waits, IdleWindow, NoScript

\* As long as windows wait for the helpers they started, helpers run one at a
\* time (HelpersSerialized), and a mount that a window is told succeeded has
\* its record (SuccessHasRecord), for any number of windows and scripts.
THEOREM PatientWindowsSerialize ==
  ASSUME ~ Abandon
  PROVE  ElevationSpec => [](HelpersSerialized /\ SuccessHasRecord)
<1> DEFINE Inv == ElevationTypeOK /\ RequestsSafe /\ Served /\ Recording
<1>1. ElevationInit => Inv
  <2>1. ElevationInit => ElevationTypeOK
    BY IdleTypes DEF ElevationInit, ElevationTypeOK
  <2> QED
    BY <2>1, QuietSafe, InitServed
<1>2. Inv /\ [ElevationNext]_elevationVars => Inv'
  <2> SUFFICES ASSUME ElevationTypeOK, RequestsSafe, Served, Recording,
                      [ElevationNext]_elevationVars
               PROVE  ElevationTypeOK' /\ RequestsSafe' /\ Served' /\ Recording'
    OBVIOUS
  <2>1. ElevationTypeOK' /\ RequestsSafe'
    BY NextType, NextSafe
  <2>2. CASE UNCHANGED elevationVars
    BY <2>1, <2>2 DEF elevationVars, Served, Recording, SuccessHasRecord, Waits
  <2>3. CASE ElevationNext
    <3>1. ASSUME NEW w \in Windows,
                 Transact(w) \/ WindowDies(w) \/ \E a \in Actions : Click(w, a)
          PROVE  Served' /\ Recording'
      BY <3>1, TransactServed, TransactRecording
    <3>2. ASSUME NEW s \in Scripts, ScriptStep(s) PROVE Served' /\ Recording'
      BY <3>2, ScriptServed
    <3>3. ASSUME Restart PROVE Served' /\ Recording'
      BY <3>3, RestartServed
    <3>4. Served' /\ Recording'
      BY <2>3, <3>1, <3>2, <3>3, NextSteps
    <3> QED
      BY <2>1, <3>4
  <2> QED
    BY <2>1, <2>2, <2>3
<1>3. Inv => HelpersSerialized /\ SuccessHasRecord
  <2>1. ASSUME Inv, NEW s \in Scripts, NEW t \in Scripts, Runs(s), Runs(t) PROVE s = t
    BY <2>1, OneScript DEF Runs, HelperPcs
  <2> QED
    BY <2>1 DEF HelpersSerialized, Recording
<1> QED
  BY <1>1, <1>2, <1>3, PTL DEF ElevationSpec

-----------------------------------------------------------------------------
(* Cancelled means that nothing was started *)

\* A window has an answer only when its script has ended or it has given up.
Unanswered == \A w \in Windows : window[w].pc # "answer" => window[w].answer = None

\* What window w is told in this step, if anything, about the script it waits
\* for.
Told(w) ==
  \/ window'[w].answer = window[w].answer
  \/ window'[w].answer # "cancelled"
  \/ script[window[w].script].pc = "prompt"

LEMMA EndsTold ==
  ASSUME ElevationTypeOK, Unanswered, NEW s \in Scripts, NEW code, NEW text, Ends(s, code, text),
         script[s].pc = "prompt" \/ Classify(code, text) # "cancelled"
  PROVE  Unanswered' /\ \A w \in Windows : Told(w)
<1>1. ASSUME NEW w \in Windows PROVE Told(w) /\ (window'[w].pc # "answer" => window'[w].answer = None)
  <2>1. window[w] \in WindowState
    BY DEF ElevationTypeOK
  <2>2. CASE Waits(w, s)
    <3>1. window'[w].pc = "answer" /\ window'[w].answer = Classify(code, text)
      BY <2>1, <2>2 DEF Ends, WindowState
    <3> QED
      BY <2>2, <3>1 DEF Told, Waits
  <2>3. CASE ~ Waits(w, s)
    <3>1. window'[w] = window[w]
      BY <2>3 DEF Ends
    <3> QED
      BY <3>1 DEF Told, Unanswered
  <2> QED
    BY <2>2, <2>3
<1> QED
  BY <1>1 DEF Unanswered

LEMMA SameTold == ASSUME Unanswered, UNCHANGED window PROVE Unanswered' /\ \A w \in Windows : Told(w)
  BY DEF Unanswered, Told

LEMMA ScriptTold ==
  ASSUME ElevationTypeOK, Unanswered, NEW s \in Scripts, ScriptStep(s)
  PROVE  Unanswered' /\ \A w \in Windows : Told(w)
<1> USE DEF Classify, Heuristic
<1>1. CASE PromptFails(s)
  BY <1>1, EndsTold DEF PromptFails
<1>2. CASE ReadRequest(s)
  <2>1. CASE Ends(s, 2, "plain")
    BY <2>1, EndsTold
  <2>2. CASE UNCHANGED window
    BY <2>2, SameTold
  <2> QED
    BY <1>2, <2>1, <2>2 DEF ReadRequest
<1>3. CASE Fails(s) \/ Exits(s)
  <2>1. \E code \in {0, 3, 4} : Ends(s, code, "plain")
    BY <1>3 DEF Fails, Exits
  <2> QED
    BY <2>1, EndsTold
<1>4. CASE HelperDies(s)
  <2>1. \E text \in {"plain", "timeout"} : Ends(s, 1, text)
    BY <1>4 DEF HelperDies
  <2> QED
    BY <2>1, EndsTold
<1>5. CASE Authorize(s) \/ ClearsStale(s) \/ Records(s) \/ Returns(s)
  BY <1>5, SameTold DEF Authorize, ClearsStale, Records, Returns, transport
<1> QED
  BY <1>1, <1>2, <1>3, <1>4, <1>5 DEF ScriptStep, Pipeline

LEMMA WindowTold ==
  ASSUME ElevationTypeOK, Unanswered, NEW v \in Windows,
         Transact(v) \/ WindowDies(v) \/ \E a \in Actions : Click(v, a)
  PROVE  Unanswered' /\ \A w \in Windows : Told(w)
<1>1. \A w \in Windows : w # v => window'[w] = window[w]
  <2>1. \E state : window' = [window EXCEPT ![v] = state]
    BY DEF Transact, Acquire, Prepare, WriteRequest, Launch, GiveUp, Answer, Leave, WindowDies, Click
  <2> QED
    BY <2>1 DEF ElevationTypeOK
<1>2. /\ window'[v].pc # "answer" => window'[v].answer = None
      /\ window'[v].answer \in {None, "timedOut", window[v].answer}
  <2> window[v] \in WindowState /\ (window[v].pc # "answer" => window[v].answer = None)
    BY DEF ElevationTypeOK, Unanswered
  <2> USE DEF ElevationTypeOK, WindowState
  <2>1. CASE window' = [window EXCEPT ![v] = IdleWindow]
    BY <2>1 DEF IdleWindow
  <2>2. CASE Acquire(v)
    BY <2>2 DEF Acquire
  <2>3. CASE window[v].pc = "prepare" /\ window' = [window EXCEPT ![v] = [@ EXCEPT !.pc = "write"]]
    BY <2>3
  <2>4. ASSUME NEW f \in Files, window[v].pc = "write",
               window' = [window EXCEPT ![v].file = f, ![v].pc = "launch"]
        PROVE  /\ window'[v].pc # "answer" => window'[v].answer = None
               /\ window'[v].answer \in {None, "timedOut", window[v].answer}
    BY <2>4
  <2>5. ASSUME NEW s \in Scripts, window[v].pc = "launch",
               window' = [window EXCEPT ![v].script = s, ![v].pc = "wait"]
        PROVE  /\ window'[v].pc # "answer" => window'[v].answer = None
               /\ window'[v].answer \in {None, "timedOut", window[v].answer}
    BY <2>5
  <2>6. CASE GiveUp(v)
    BY <2>6 DEF GiveUp
  <2>7. ASSUME NEW a \in Actions, Click(v, a)
        PROVE  window'[v].pc = "lock" /\ window'[v].answer = None
    BY <2>7 DEF Click, IdleWindow
  <2> QED
    BY <2>1, <2>2, <2>3, <2>4, <2>5, <2>6, <2>7
       DEF Transact, Prepare, WriteRequest, Launch, Answer, Leave, WindowDies
<1> QED
  BY <1>1, <1>2, ElevationConstants DEF Unanswered, Told

\* "Nothing was mounted": whatever dies, expires or is misread on the way, a
\* window is told that the authorization was cancelled only when the script it
\* waits for was still at its prompt, for any number of windows and scripts.
THEOREM CancelledAlwaysBeforeHelper == ElevationSpec => CancelledBeforeHelper
<1>1. ElevationInit => Unanswered
  BY DEF ElevationInit, Unanswered, IdleWindow
<1>2. ElevationTypeOK /\ Unanswered /\ [ElevationNext]_elevationVars
        => Unanswered' /\ \A w \in Windows : Told(w)
  <2> SUFFICES ASSUME ElevationTypeOK, Unanswered, [ElevationNext]_elevationVars
               PROVE  Unanswered' /\ \A w \in Windows : Told(w)
    OBVIOUS
  <2>1. CASE Restart
    BY <2>1, ElevationConstants DEF Restart, Unanswered, Told, IdleWindow
  <2>2. CASE UNCHANGED elevationVars
    BY <2>2, SameTold DEF elevationVars
  <2> QED
    BY <2>1, <2>2, NextSteps, ScriptTold, WindowTold
<1>3. ElevationTypeOK /\ Unanswered /\ [ElevationNext]_elevationVars =>
        [\A w \in Windows, s \in Scripts :
           Waits(w, s) /\ window'[w].answer = "cancelled" => script[s].pc = "prompt"]_elevationVars
  <2>1. ASSUME Unanswered, NEW w \in Windows, Told(w), NEW s \in Scripts, Waits(w, s),
               window'[w].answer = "cancelled"
        PROVE  script[s].pc = "prompt"
    BY <2>1, ElevationConstants DEF Unanswered, Told, Waits
  <2> QED
    BY <1>2, <2>1
<1> QED
  BY <1>1, <1>2, <1>3, ElevationTypeCorrect, PTL DEF ElevationSpec, CancelledBeforeHelper

=============================================================================
