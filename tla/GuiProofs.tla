------------------------------ MODULE GuiProofs ------------------------------
(***************************************************************************)
(* For any number of worker threads and open message boxes: the window's   *)
(* variables keep their types, one operation runs at a time, and the       *)
(* session line is that of the record whenever nothing is under way.       *)
(***************************************************************************)
EXTENDS Gui, TLAPS

\* A release on its way still has its busy flag to clear: with it, the buttons
\* are off while a second release could be meant for a later operation.
ReleaseExpected == Releases # {} => busy

\* The line may differ from the record only while a refresh is to come, from a
\* thread that is not done or in the queue.
RefreshComing ==
  ~ foreign /\ status # record =>
    \/ \E k \in Workers : worker[k].pc # "none"
    \/ \E i \in DOMAIN posted : posted[i] = "refresh"

\* The queue after its first callback is taken: what is left has moved up.
LEMMA TailMoves ==
  ASSUME NEW S, NEW s \in Seq(S), s # <<>>
  PROVE  /\ Tail(s) \in Seq(S)
         /\ DOMAIN Tail(s) = 1..(Len(s) - 1)
         /\ DOMAIN s = 1..Len(s) /\ Len(s) \in Nat \ {0}
         /\ \A i \in DOMAIN Tail(s) : i + 1 \in DOMAIN s /\ Tail(s)[i] = s[i + 1]
         /\ Head(s) = s[1]
OBVIOUS

\* The queue after a callback is posted.
LEMMA PostAppends ==
  ASSUME NEW S, NEW s \in Seq(S), NEW c \in S
  PROVE  /\ s \o <<c>> \in Seq(S)
         /\ DOMAIN (s \o <<c>>) = 1..(Len(s) + 1)
         /\ DOMAIN s = 1..Len(s) /\ Len(s) \in Nat
         /\ \A i \in DOMAIN s : (s \o <<c>>)[i] = s[i]
         /\ (s \o <<c>>)[Len(s) + 1] = c
OBVIOUS

LEMMA EmptyQueue == <<>> \in Seq(Callbacks) /\ \A i \in DOMAIN <<>> : FALSE
OBVIOUS

-----------------------------------------------------------------------------
(* Types *)

LEMMA WorkerTypes ==
  ASSUME GuiTypeOK, NEW k \in Workers
  PROVE  worker[k] \in WorkerState
BY DEF GuiTypeOK

LEMMA GuiTypeStep ==
  ASSUME GuiTypeOK, GuiNext
  PROVE  GuiTypeOK'
<1> USE GuiConstants DEF GuiTypeOK, session, Sessions
<1>1. NoWorker \in WorkerState
  BY DEF NoWorker, WorkerState
<1>2. ASSUME NEW k \in Workers, NEW o \in {"mount", "unmount"}, NEW m \in Sessions, Starts(k, o, m)
      PROVE  GuiTypeOK'
  <2>1. [pc |-> "run", op |-> o, mode |-> m] \in WorkerState
    BY DEF WorkerState
  <2> QED
    BY <1>2, <2>1 DEF Starts
<1>3. ASSUME Click PROVE GuiTypeOK'
  <2>1. ASSUME MountRefused PROVE GuiTypeOK'
    BY <2>1 DEF MountRefused, Opens
  <2>2. ASSUME RecheckDeps PROVE GuiTypeOK'
    BY <2>2 DEF RecheckDeps
  <2> QED
    BY <1>2, <1>3, <2>1, <2>2 DEF Click, OnMount, OnUnmount
<1>4. ASSUME Dismiss PROVE GuiTypeOK'
  BY <1>4 DEF Dismiss
<1>5. ASSUME NEW k \in Workers, NEW c \in Callbacks, NEW pc \in {"release", "refresh", "none"},
             Posts(k, <<c>>, pc)
      PROVE  posted' \in Seq(Callbacks) /\ worker' \in [Workers -> WorkerState]
  <2>1. posted' \in Seq(Callbacks)
    BY <1>5, PostAppends DEF Posts
  <2>2. [worker[k] EXCEPT !.pc = pc] \in WorkerState
    BY WorkerTypes DEF WorkerState
  <2> QED
    BY <1>1, <1>5, <2>1, <2>2 DEF Posts
<1>6. ASSUME NEW k \in Workers, WorkerStep(k) PROVE GuiTypeOK'
  <2>1. ASSUME Operate(k) PROVE GuiTypeOK'
    <3>1. record' \in Sessions \cup {None}
      BY <2>1, WorkerTypes DEF Operate, Effect, WorkerState
    <3> QED
      BY <1>5, <2>1, <3>1 DEF Operate, Callbacks
  <2>2. ASSUME PostRelease(k) PROVE GuiTypeOK'
    BY <1>5, <2>2 DEF PostRelease, Callbacks
  <2>3. ASSUME PostRefresh(k) PROVE GuiTypeOK'
    BY <1>5, <2>3 DEF PostRefresh, Callbacks
  <2> QED
    BY <1>6, <2>1, <2>2, <2>3 DEF WorkerStep
<1>7. ASSUME Callback PROVE GuiTypeOK'
  <2>1. posted # <<>> /\ posted' = Tail(posted)
    BY <1>7 DEF Callback, ShowMessage, SetNotBusy, RefreshSessionStatus, Takes
  <2>2. posted' \in Seq(Callbacks)
    BY <2>1, TailMoves
  <2>3. ASSUME ShowMessage PROVE GuiTypeOK'
    BY <2>2, <2>3 DEF ShowMessage, Opens
  <2>4. ASSUME SetNotBusy PROVE GuiTypeOK'
    BY <2>2, <2>4 DEF SetNotBusy
  <2>5. ASSUME RefreshSessionStatus PROVE GuiTypeOK'
    BY <2>2, <2>5 DEF RefreshSessionStatus
  <2> QED
    BY <1>7, <2>3, <2>4, <2>5 DEF Callback
<1>8. ASSUME NEW v \in Sessions \cup {None}, OthersChange(v) PROVE GuiTypeOK'
  BY <1>8 DEF OthersChange
<1>9. ASSUME Relaunch PROVE GuiTypeOK'
  <2>1. posted' \in Seq(Callbacks)
    BY <1>9, EmptyQueue DEF Relaunch
  <2>2. worker' \in [Workers -> WorkerState]
    BY <1>1, <1>9 DEF Relaunch
  <2>3. tools' \in BOOLEAN /\ busy' = FALSE /\ dialogs' = 0 /\ foreign' = FALSE
    BY <1>9 DEF Relaunch
  <2>4. status' = record /\ record' = record
    BY <1>9 DEF Relaunch
  <2>5. 0 \in 0..MaxDialogs
    BY DEF GuiConstants
  <2> QED
    BY <2>1, <2>2, <2>3, <2>4, <2>5
<1> QED
  BY <1>3, <1>4, <1>6, <1>7, <1>8, <1>9 DEF GuiNext

LEMMA GuiTypeInit == GuiInit => GuiTypeOK
<1> SUFFICES ASSUME GuiInit PROVE GuiTypeOK
  OBVIOUS
<1>1. NoWorker \in WorkerState
  BY DEF NoWorker, WorkerState, Sessions
<1>2. posted \in Seq(Callbacks)
  BY EmptyQueue DEF GuiInit
<1>3. worker \in [Workers -> WorkerState]
  BY <1>1 DEF GuiInit
<1>4. tools \in BOOLEAN /\ busy = FALSE /\ dialogs = 0 /\ foreign = FALSE
  BY DEF GuiInit
<1>5. status = record /\ record \in Sessions \cup {None}
  BY DEF GuiInit
<1>6. 0 \in 0..MaxDialogs
  BY GuiConstants DEF GuiConstants
<1> QED
  BY <1>2, <1>3, <1>4, <1>5, <1>6 DEF GuiTypeOK

\* Every variable of the window keeps its type.
THEOREM GuiTypeCorrect == GuiSpec => []GuiTypeOK
<1>1. GuiTypeOK /\ [GuiNext]_guiVars => GuiTypeOK'
  BY GuiTypeStep DEF guiVars, GuiTypeOK
<1> QED
  BY <1>1, GuiTypeInit, PTL DEF GuiSpec

-----------------------------------------------------------------------------
(* One operation at a time *)

\* What a step leaves alone when it neither starts a thread nor moves one into
\* or out of a pipeline, takes no release from the queue and adds none.
LEMMA SamePipelines ==
  ASSUME OneOperation, ReleaseExpected, busy' = busy,
         \A k \in Workers : InPipeline(k)' => InPipeline(k),
         \/ Releases' = Releases
         \/ \E n \in Int : /\ \A i \in Releases' : i + n \in Releases
                           /\ Releases' \subseteq Int
  PROVE  OneOperation' /\ ReleaseExpected'
BY DEF OneOperation, ReleaseExpected

LEMMA OneOperationStep ==
  ASSUME GuiTypeOK, OneOperation, ReleaseExpected, GuiNext
  PROVE  OneOperation' /\ ReleaseExpected'
<1> USE DEF session
<1>0. posted \in Seq(Callbacks) /\ \A k \in Workers : worker[k] \in WorkerState
  BY WorkerTypes DEF GuiTypeOK
<1>1. ASSUME NEW k \in Workers, NEW o \in {"mount", "unmount"}, NEW m \in Sessions, Starts(k, o, m)
      PROVE  OneOperation' /\ ReleaseExpected'
  <2>1. Releases = {} /\ \A l \in Workers : ~ InPipeline(l)
    BY <1>1 DEF Starts, OneOperation, ReleaseExpected
  <2>2. Releases' = {} /\ busy' = TRUE
    BY <1>1, <2>1 DEF Starts, Releases
  <2>3. \A l \in Workers : InPipeline(l)' => l = k
    BY <1>1, <2>1 DEF Starts, InPipeline, GuiTypeOK
  <2> QED
    BY <2>2, <2>3 DEF OneOperation, ReleaseExpected
<1>2. ASSUME UNCHANGED <<busy, worker, posted>>
      PROVE  OneOperation' /\ ReleaseExpected'
  BY <1>2 DEF OneOperation, ReleaseExpected, InPipeline, Releases
<1>3. ASSUME NEW k \in Workers, NEW c \in Callbacks, NEW pc \in {"release", "refresh", "none"},
             Posts(k, <<c>>, pc)
      PROVE  /\ Releases' = Releases \cup (IF c = "release" THEN {Len(posted) + 1} ELSE {})
             /\ \A l \in Workers : l # k => worker'[l] = worker[l]
             /\ InPipeline(k)' <=> pc = "release"
             /\ Releases \subseteq 1..Len(posted) /\ Len(posted) \in Nat
  <2>1. Releases' = Releases \cup (IF c = "release" THEN {Len(posted) + 1} ELSE {})
    BY <1>0, <1>3, PostAppends DEF Posts, Releases
  <2>2. ASSUME NEW l \in Workers, l # k PROVE worker'[l] = worker[l]
    BY <1>3, <2>2 DEF Posts, GuiTypeOK
  <2>3. worker'[k].pc = pc
    <3>1. [worker[k] EXCEPT !.pc = pc].pc = pc /\ NoWorker.pc = "none"
      BY <1>0 DEF WorkerState, NoWorker
    <3> QED
      BY <1>3, <3>1 DEF Posts, GuiTypeOK
  <2> QED
    BY <1>0, <2>1, <2>2, <2>3, PostAppends DEF InPipeline, Releases
<1>4. ASSUME NEW k \in Workers, Operate(k) PROVE OneOperation' /\ ReleaseExpected'
  <2>1. Releases' = Releases /\ \A l \in Workers : InPipeline(l)' => InPipeline(l)
    BY <1>3, <1>4 DEF Operate, Callbacks, InPipeline
  <2> QED
    BY <1>4, <2>1, SamePipelines DEF Operate
<1>5. ASSUME NEW k \in Workers, PostRelease(k) PROVE OneOperation' /\ ReleaseExpected'
  <2>1. InPipeline(k) /\ busy' = busy
    BY <1>5 DEF PostRelease, InPipeline
  <2>2. Releases = {} /\ busy /\ \A l \in Workers : InPipeline(l) => l = k
    BY <2>1 DEF OneOperation
  <2>3. Releases' = {Len(posted) + 1} /\ \A l \in Workers : ~ InPipeline(l)'
    BY <1>3, <1>5, <2>2 DEF PostRelease, Callbacks, InPipeline
  <2> QED
    BY <2>1, <2>2, <2>3 DEF OneOperation, ReleaseExpected
<1>6. ASSUME NEW k \in Workers, PostRefresh(k) PROVE OneOperation' /\ ReleaseExpected'
  <2>1. Releases' = Releases /\ \A l \in Workers : InPipeline(l)' => InPipeline(l)
    BY <1>3, <1>6 DEF PostRefresh, Callbacks, InPipeline
  <2> QED
    BY <1>6, <2>1, SamePipelines DEF PostRefresh
<1>7. ASSUME NEW c \in Callbacks, Takes(c)
      PROVE  /\ \A i \in Releases' : i \in Int /\ i # 0 /\ i + 1 \in Releases
             /\ c = "release" => 1 \in Releases
  BY <1>0, <1>7, TailMoves DEF Takes, Releases
<1>8. ASSUME SetNotBusy PROVE OneOperation' /\ ReleaseExpected'
  <2>1. 1 \in Releases /\ \A i \in Releases' : i \in Int /\ i # 0 /\ i + 1 \in Releases
    BY <1>7, <1>8 DEF SetNotBusy, Callbacks
  <2>2. Releases' = {}
    BY <2>1 DEF OneOperation
  <2>3. \A l \in Workers : ~ InPipeline(l)'
    BY <1>8, <2>1 DEF SetNotBusy, OneOperation, InPipeline
  <2> QED
    BY <2>2, <2>3 DEF OneOperation, ReleaseExpected
<1>9. ASSUME ShowMessage \/ RefreshSessionStatus PROVE OneOperation' /\ ReleaseExpected'
  <2>1. \A i \in Releases' : i \in Int /\ i + 1 \in Releases
    BY <1>7, <1>9 DEF ShowMessage, RefreshSessionStatus, Callbacks
  <2>2. busy' = busy /\ worker' = worker
    BY <1>9 DEF ShowMessage, RefreshSessionStatus
  <2>3. Releases' \subseteq Int /\ 1 \in Int
    BY <2>1
  <2> QED
    BY <2>1, <2>2, <2>3, SamePipelines DEF InPipeline
<1>10. ASSUME Relaunch PROVE OneOperation' /\ ReleaseExpected'
  <2>1. Releases' = {}
    BY <1>10 DEF Relaunch, Releases
  <2>2. \A l \in Workers : ~ InPipeline(l)'
    BY <1>10 DEF Relaunch, InPipeline, NoWorker
  <2> QED
    BY <2>1, <2>2 DEF OneOperation, ReleaseExpected
<1>11. ASSUME Click PROVE OneOperation' /\ ReleaseExpected'
  BY <1>1, <1>2, <1>11 DEF Click, OnMount, OnUnmount, MountRefused, RecheckDeps, Sessions
<1>12. ASSUME Dismiss PROVE OneOperation' /\ ReleaseExpected'
  BY <1>2, <1>12 DEF Dismiss
<1>13. ASSUME NEW v \in Sessions \cup {None}, OthersChange(v) PROVE OneOperation' /\ ReleaseExpected'
  BY <1>2, <1>13 DEF OthersChange
<1> QED
  BY <1>4, <1>5, <1>6, <1>8, <1>9, <1>10, <1>11, <1>12, <1>13
     DEF GuiNext, WorkerStep, Callback

LEMMA OneOperationInit == GuiInit => OneOperation /\ ReleaseExpected
<1> SUFFICES ASSUME GuiInit PROVE OneOperation /\ ReleaseExpected
  OBVIOUS
<1>1. Releases = {}
  BY DEF GuiInit, Releases
<1>2. \A l \in Workers : ~ InPipeline(l)
  BY DEF GuiInit, InPipeline, NoWorker
<1> QED
  BY <1>1, <1>2 DEF OneOperation, ReleaseExpected

\* However clicks, threads and posted callbacks interleave, and however many
\* threads of past operations are still finishing: at most one is in a pipeline,
\* with the buttons off, and no release but its own is on the way.
THEOREM OneOperationAlways == GuiSpec => []OneOperation
<1>1. GuiTypeOK /\ OneOperation /\ ReleaseExpected /\ [GuiNext]_guiVars
        => OneOperation' /\ ReleaseExpected'
  BY OneOperationStep
     DEF guiVars, OneOperation, ReleaseExpected, InPipeline, Releases
<1> QED
  BY <1>1, OneOperationInit, GuiTypeCorrect, PTL DEF GuiSpec

-----------------------------------------------------------------------------
(* The session line *)

\* A callback other than refresh takes no refresh out of the queue.
LEMMA RefreshesKept ==
  ASSUME GuiTypeOK, NEW c \in Callbacks, c # "refresh", Takes(c),
         NEW i \in DOMAIN posted, posted[i] = "refresh"
  PROVE  \E j \in DOMAIN posted' : posted'[j] = "refresh"
<1>1. posted \in Seq(Callbacks) /\ posted # <<>> /\ posted' = Tail(posted) /\ Head(posted) = c
  BY DEF GuiTypeOK, Takes
<1>2. i \in 1..Len(posted) /\ i # 1 /\ Len(posted) \in Nat
  BY <1>1, TailMoves
<1>3. i - 1 \in DOMAIN posted' /\ (i - 1) + 1 = i
  BY <1>1, <1>2, TailMoves
<1>4. posted'[i - 1] = posted[i]
  BY <1>1, <1>3, TailMoves
<1> QED
  BY <1>3, <1>4

\* A thread's post keeps what is in the queue, and adds to it.
LEMMA PostsKeep ==
  ASSUME GuiTypeOK, NEW k \in Workers, NEW c \in Callbacks,
         NEW pc \in {"release", "refresh", "none"}, Posts(k, <<c>>, pc)
  PROVE  /\ \A i \in DOMAIN posted : i \in DOMAIN posted' /\ posted'[i] = posted[i]
         /\ \E i \in DOMAIN posted' : posted'[i] = c
         /\ \A l \in Workers : l # k => worker'[l] = worker[l]
         /\ worker'[k].pc = pc
<1>1. posted \in Seq(Callbacks) /\ posted' = posted \o <<c>>
  BY DEF GuiTypeOK, Posts
<1>2. /\ \A i \in DOMAIN posted : i \in DOMAIN posted' /\ posted'[i] = posted[i]
      /\ Len(posted) + 1 \in DOMAIN posted' /\ posted'[Len(posted) + 1] = c
  BY <1>1, PostAppends
<1>3. \A l \in Workers : l # k => worker'[l] = worker[l]
  BY DEF GuiTypeOK, Posts
<1>4. [worker[k] EXCEPT !.pc = pc].pc = pc /\ NoWorker.pc = "none"
  BY WorkerTypes DEF WorkerState, NoWorker
<1>5. worker'[k].pc = pc
  BY <1>4 DEF GuiTypeOK, Posts
<1> QED
  BY <1>2, <1>3, <1>5

LEMMA RefreshComingStep ==
  ASSUME GuiTypeOK, RefreshComing, GuiNext
  PROVE  RefreshComing'
<1> USE DEF session
<1>1. ASSUME NEW k \in Workers, NEW o \in {"mount", "unmount"}, NEW m \in Sessions, Starts(k, o, m)
      PROVE  RefreshComing'
  <2>1. worker'[k].pc = "run"
    BY <1>1 DEF Starts, GuiTypeOK
  <2> QED
    BY <2>1 DEF RefreshComing
<1>2. ASSUME UNCHANGED <<worker, posted, session>> PROVE RefreshComing'
  BY <1>2 DEF RefreshComing
<1>3. ASSUME NEW k \in Workers, Operate(k) \/ PostRelease(k) PROVE RefreshComing'
  <2>1. worker'[k].pc # "none"
    BY <1>3, PostsKeep DEF Operate, PostRelease, Callbacks
  <2> QED
    BY <2>1 DEF RefreshComing
<1>4. ASSUME NEW k \in Workers, PostRefresh(k) PROVE RefreshComing'
  <2>1. \E i \in DOMAIN posted' : posted'[i] = "refresh"
    BY <1>4, PostsKeep DEF PostRefresh, Callbacks
  <2> QED
    BY <2>1 DEF RefreshComing
<1>5. ASSUME ShowMessage \/ SetNotBusy PROVE RefreshComing'
  <2>1. ASSUME NEW i \in DOMAIN posted, posted[i] = "refresh"
        PROVE  \E j \in DOMAIN posted' : posted'[j] = "refresh"
    BY <1>5, <2>1, RefreshesKept DEF ShowMessage, SetNotBusy, Callbacks
  <2>2. UNCHANGED <<worker, session>>
    BY <1>5 DEF ShowMessage, SetNotBusy
  <2> QED
    BY <2>1, <2>2 DEF RefreshComing
<1>6. ASSUME RefreshSessionStatus \/ Relaunch PROVE RefreshComing'
  BY <1>6 DEF RefreshSessionStatus, Relaunch, RefreshComing
<1>7. ASSUME NEW v \in Sessions \cup {None}, OthersChange(v) PROVE RefreshComing'
  BY <1>7 DEF OthersChange, RefreshComing
<1>8. ASSUME Click PROVE RefreshComing'
  BY <1>1, <1>2, <1>8 DEF Click, OnMount, OnUnmount, MountRefused, RecheckDeps, Sessions
<1>9. ASSUME Dismiss PROVE RefreshComing'
  BY <1>2, <1>9 DEF Dismiss
<1> QED
  BY <1>3, <1>4, <1>5, <1>6, <1>7, <1>8, <1>9 DEF GuiNext, WorkerStep, Callback

\* With nothing under way the line says what the record says, unless somebody
\* else has changed it since: no order of callbacks, message boxes and clicks
\* leaves an older reading on display.
THEOREM StatusAlwaysCurrent == GuiSpec => []StatusCurrent
<1>1. GuiInit => RefreshComing
  BY DEF GuiInit, RefreshComing
<1>2. GuiTypeOK /\ RefreshComing /\ [GuiNext]_guiVars => RefreshComing'
  BY RefreshComingStep DEF guiVars, RefreshComing
<1>3. RefreshComing => StatusCurrent
  <2> SUFFICES ASSUME RefreshComing, Quiet, ~ foreign PROVE status = record
    BY DEF StatusCurrent
  <2> QED
    BY EmptyQueue DEF RefreshComing, Quiet
<1> QED
  BY <1>1, <1>2, <1>3, GuiTypeCorrect, PTL DEF GuiSpec

=============================================================================
