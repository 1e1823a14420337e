--------------------------- MODULE ElevatedProofs ---------------------------
(***************************************************************************)
(* What the window's lock does for the real pipelines, for every number of *)
(* windows, helpers, request files, disks, stages and mount points.  The   *)
(* composition implements Elevation, so that what ElevationProofs proves   *)
(* of the lock holds of it; helpers one at a time mean operations one at a *)
(* time, which is what the theorems about the record assume of the lock.   *)
(* They assume besides that a record that is there can be loaded, and that *)
(* the log call after save_session does not fail.                          *)
(***************************************************************************)
EXTENDS ElevatedRunner, RecordProofs

\* The theorems about Elevation, read of the helpers of Runner.
Lock == INSTANCE ElevationProofs WITH Scripts <- Procs, recorded <- Recorded

-----------------------------------------------------------------------------
(* The two specifications behind the composition *)

\* Every step is one of Runner, or none as far as Runner can see.
LEMMA RunnerSteps == [ElevatedNext]_allVars => [Next]_vars
<1> SUFFICES ASSUME [ElevatedNext]_allVars PROVE Next \/ UNCHANGED vars
  OBVIOUS
<1>1. ASSUME NEW p \in Procs, HelperStep(p) PROVE Next
  BY <1>1 DEF HelperStep, Pipeline, Next, Program
<1>2. ASSUME NEW p \in Procs, HelperRefuses(p) \/ HelperStops(p) PROVE Next \/ UNCHANGED vars
  BY <1>2 DEF HelperRefuses, HelperStops, Next, Outside
<1>3. CASE (\E w \in Windows : Click(w)) \/ WindowsAndPrompts
  BY <1>3 DEF Click, WindowsAndPrompts
<1>4. CASE ByHand
  BY <1>4 DEF ByHand, Next, Outside
<1>5. CASE Reboot
  BY <1>5 DEF Next, Outside
<1>6. CASE UNCHANGED allVars
  BY <1>6 DEF allVars
<1> QED
  BY <1>1, <1>2, <1>3, <1>4, <1>5, <1>6 DEF ElevatedNext

LEMMA ElevatedRuns == ElevatedSpec => Spec
<1>1. ElevatedInit => Init
  BY DEF ElevatedInit
<1> QED
  BY <1>1, RunnerSteps, PTL DEF ElevatedSpec, Spec

\* A mount that returns has saved its record; any other end of a pipeline
\* leaves the record or clears it, and an unmount does so at its end only.
LEMMA PipelineRecord ==
  ASSUME TypeOK, NEW p \in Procs, Pipeline(p)
  PROVE  /\ script[p].action \in {"mount", "unmount"}
         /\ script[p].action = "mount" /\ op'[p].pc = "idle" =>
              IF Succeeds(p) THEN Recorded' ELSE Recorded' = Recorded \/ ~ Recorded'
         /\ script[p].action = "unmount" =>
              \/ Recorded' = Recorded
              \/ Succeeds(p) /\ op'[p].pc = "idle" /\ ~ Recorded'
<1> USE DEF Recorded, Succeeds, At
<1>1. CASE script[p].action = "mount" /\ (Validate(p) \/ MountPipeline(p) \/ BestEffortCleanup(p))
  <2>1. CASE Validate(p)
    BY <1>1, <2>1
       DEF Validate, LoadForMount, CheckMounts, CheckImages, ClearStale, DropStale, Cleared, NoSession
  <2>2. CASE SaveSession(p)
    <3>1. CASE Goto(p, "cleanVolume")
      BY <1>1, <2>2, <3>1 DEF Goto, TypeOK, Operation
    <3>2. CASE Finish(p)
      BY <1>1, <2>2, <3>2 DEF SaveSession, Goto, Finish, NoOperation, TypeOK, Operation
    <3> QED
      BY <2>2, <3>1, <3>2 DEF SaveSession
  <2>3. CASE MountPipeline(p) /\ ~ SaveSession(p)
    BY <1>1, <2>3
       DEF MountPipeline, PrepareFuseMount, AllocatePoint, StartFuse, WaitForFile, Attach,
           MountDecryptedVolume
  <2>4. CASE BestEffortCleanup(p)
    BY <1>1, <2>4
       DEF BestEffortCleanup, CleanVolume, CleanImage, CleanFuse, CleanRecord, Cleared, NoSession
  <2> QED
    BY <1>1, <2>1, <2>2, <2>3, <2>4
<1>2. CASE script[p].action = "unmount" /\ Unmount(p)
  <2>1. CASE ClearRecord(p)
    BY <1>2, <2>1 DEF ClearRecord, Cleared, NoSession, Finish, NoOperation, TypeOK
  <2>2. CASE ~ ClearRecord(p)
    BY <1>2, <2>2
       DEF Unmount, LoadForUnmount, SnapshotImages, UnmountVolume, UnmountVolumeForce,
           DetachRawDisk, DetachForce, UnmountFuse, RemoveDirs
  <2> QED
    BY <1>2, <2>1, <2>2
<1> QED
  BY <1>1, <1>2 DEF Pipeline

\* A step of a pipeline is one of Elevation, or none.
LEMMA HelperMaps ==
  ASSUME TypeOK, NEW p \in Procs, HelperStep(p)
  PROVE  E!ElevationNext \/ UNCHANGED E!elevationVars
<1> USE DEF E!transport, transport
<1>1. script[p].pc = "working" /\ Pipeline(p) /\ Recorded \in BOOLEAN /\ Recorded' \in BOOLEAN
  BY DEF HelperStep, Recorded
<1>2. CASE op'[p].pc # "idle" /\ UNCHANGED transport
  <2>1. CASE script[p].action = "mount"
    BY <1>1, <1>2, <2>1 DEF E!ElevationNext, E!Pipeline, E!ClearsStale, E!Records
  <2>2. CASE script[p].action = "unmount"
    <3>1. Recorded' = Recorded
      BY <1>1, <1>2, <2>2, PipelineRecord
    <3> QED
      BY <1>2, <3>1 DEF E!elevationVars
  <2> QED
    BY <1>1, <2>1, <2>2, PipelineRecord
<1>3. CASE /\ op'[p].pc = "idle" /\ Succeeds(p)
           /\ script' = [script EXCEPT ![p].pc = "done"]
           /\ UNCHANGED <<lock, requests, window>>
  <2>1. E!Returns(p)
    BY <1>1, <1>3, PipelineRecord DEF E!Returns
  <2> QED
    BY <2>1 DEF E!ElevationNext, E!Pipeline
<1>4. CASE op'[p].pc = "idle" /\ ~ Succeeds(p) /\ E!Ends(p, 3, "plain") /\ UNCHANGED requests
  <2>1. E!Fails(p)
    BY <1>1, <1>4, PipelineRecord DEF E!Fails
  <2> QED
    BY <2>1 DEF E!ElevationNext, E!Pipeline
<1> QED
  BY <1>2, <1>3, <1>4 DEF HelperStep

\* So is every other step.
LEMMA ElevationSteps ==
  ASSUME TypeOK, [ElevatedNext]_allVars
  PROVE  E!ElevationNext \/ UNCHANGED E!elevationVars
<1> USE DEF E!transport, transport, E!elevationVars, Recorded
<1>1. ASSUME NEW p \in Procs, HelperRefuses(p) \/ HelperStops(p) PROVE E!ElevationNext
  <2>1. UNCHANGED Recorded
    BY <1>1 DEF HelperRefuses, HelperStops, Crash, vars
  <2>2. E!Fails(p) \/ E!HelperDies(p)
    BY <1>1, <2>1 DEF HelperRefuses, HelperStops, E!Fails
  <2> QED
    BY <2>2 DEF E!ElevationNext, E!Pipeline, E!Transport
<1>2. ASSUME NEW w \in Windows, Click(w) PROVE E!ElevationNext
  BY <1>2 DEF Click, E!ElevationNext, E!Transport, E!Actions
<1>3. CASE WindowsAndPrompts
  BY <1>3 DEF WindowsAndPrompts, E!ElevationNext, E!Transport
<1>4. CASE ByHand
  BY <1>4 DEF ByHand, FuseComesUp, FuseGivesUp, HandUnmountFuse, HandDetach, Eject
<1>5. CASE E!Restart
  BY <1>5 DEF E!ElevationNext, E!Transport
<1>6. CASE UNCHANGED allVars
  BY <1>6 DEF allVars, vars
<1> QED
  BY <1>1, <1>2, <1>3, <1>4, <1>5, <1>6, HelperMaps DEF ElevatedNext

\* With the real pipelines in place of their sketch the composition still does
\* nothing that Elevation does not allow: the record changes hands as said
\* there, and every end of a pipeline reaches the window the way it says.
THEOREM PipelinesImplementElevation == ElevatedSpec => ImplementsElevation
<1>1. ElevatedInit => E!ElevationInit
  BY DEF ElevatedInit
<1>2. TypeOK /\ [ElevatedNext]_allVars => [E!ElevationNext]_(E!elevationVars)
  BY ElevationSteps
<1>3. TypeOK /\ Assigned => TypeOK
  OBVIOUS
<1> QED
  BY <1>1, <1>2, <1>3, ElevatedRuns, TypeCorrect, PTL
     DEF ElevatedSpec, ImplementsElevation, E!ElevationSpec

-----------------------------------------------------------------------------
(* The lock of the windows serializes the pipelines *)

\* Lock and E are one specification.
LEMMA SameElevation ==
  /\ E!ElevationInit <=> Lock!ElevationInit
  /\ [E!ElevationNext]_(E!elevationVars) <=> [Lock!ElevationNext]_(Lock!elevationVars)
  /\ HelpersSerialized <=> Lock!HelpersSerialized
  /\ SuccessHasRecord <=> Lock!SuccessHasRecord
BY DEF HelpersSerialized, E!HelpersSerialized, Lock!HelpersSerialized, E!Runs, Lock!Runs,
       E!HelperPcs, Lock!HelperPcs, SuccessHasRecord, E!SuccessHasRecord, Lock!SuccessHasRecord,
       E!ElevationInit, Lock!ElevationInit, E!IdleWindow, Lock!IdleWindow, E!NoScript, Lock!NoScript,
       E!elevationVars, Lock!elevationVars, E!ElevationNext, Lock!ElevationNext, E!Transport,
       Lock!Transport, E!Pipeline, Lock!Pipeline, E!Actions, Lock!Actions, E!Click, Lock!Click,
       E!Transact, Lock!Transact, E!Acquire, Lock!Acquire, E!Prepare, Lock!Prepare, E!Leave,
       Lock!Leave, E!WriteRequest, Lock!WriteRequest, E!FreshFile, Lock!FreshFile, E!Launch,
       Lock!Launch, E!GiveUp, Lock!GiveUp, E!Answer, Lock!Answer, E!WindowDies, Lock!WindowDies,
       E!PromptFails, Lock!PromptFails, E!Texts, Lock!Texts, E!Ends, Lock!Ends, E!Waits, Lock!Waits,
       E!Classify, Lock!Classify, E!Heuristic, Lock!Heuristic, E!Authorize, Lock!Authorize,
       E!ReadRequest, Lock!ReadRequest, E!Exits, Lock!Exits, E!HelperDies, Lock!HelperDies,
       E!Restart, Lock!Restart, E!ClearsStale, Lock!ClearsStale, E!Records, Lock!Records, E!Returns,
       Lock!Returns, E!Fails, Lock!Fails, E!transport, Lock!transport

LEMMA ElevatedLocks == ElevatedSpec => Lock!ElevationSpec
BY SameElevation, PipelinesImplementElevation, PTL
   DEF ImplementsElevation, E!ElevationSpec, Lock!ElevationSpec

\* While windows wait for the helpers they started, the real helpers run one
\* at a time: the lock is held from before the prompt until they have ended.
THEOREM HelpersAlwaysSerialized ==
  ASSUME ~ Abandon
  PROVE  ElevatedSpec => []HelpersSerialized
<1>1. Lock!ElevationSpec => [](Lock!HelpersSerialized /\ Lock!SuccessHasRecord)
  BY TransportConstants, Lock!PatientWindowsSerialize
<1> QED
  BY <1>1, SameElevation, ElevatedLocks, PTL

\* As long as no window abandons a helper that runs, a valid record exists when
\* a window shows the success of a mount: no later helper has cleared it.
THEOREM SuccessAlwaysHasRecord ==
  ASSUME ~ Abandon
  PROVE  ElevatedSpec => []SuccessHasRecord
<1>1. Lock!ElevationSpec => [](Lock!HelpersSerialized /\ Lock!SuccessHasRecord)
  BY TransportConstants, Lock!PatientWindowsSerialize
<1> QED
  BY <1>1, SameElevation, ElevatedLocks, PTL

LEMMA ElevatedTypes == ElevatedSpec => [](TypeOK /\ Lock!ElevationTypeOK)
<1>1. Spec => []TypeOK
  BY TypeCorrect, PTL
<1>2. Lock!ElevationSpec => []Lock!ElevationTypeOK
  BY TransportConstants, Lock!ElevationTypeCorrect
<1> QED
  BY <1>1, <1>2, ElevatedRuns, ElevatedLocks, PTL

\* An operation runs inside the helper that began it.
OperationsInHelpers == \A p \in Procs : ~ At(p, "idle") => script[p].pc = "working"

\* The end of a script leaves all others alone.
LEMMA EndsOne ==
  ASSUME Lock!ElevationTypeOK, NEW p \in Procs, NEW code, NEW text, E!Ends(p, code, text)
  PROVE  \A r \in Procs : r # p => script'[r] = script[r]
BY DEF E!Ends, Lock!ElevationTypeOK

LEMMA HelperStepInside ==
  ASSUME TypeOK, Lock!ElevationTypeOK, OperationsInHelpers, NEW p \in Procs,
         HelperStep(p) \/ HelperRefuses(p) \/ HelperStops(p)
  PROVE  OperationsInHelpers'
<1> USE DEF At, transport
<1>1. CASE HelperStep(p)
  <2>1. Program(p) /\ script[p].pc = "working"
    BY <1>1 DEF HelperStep, Pipeline, Program
  <2>2. \A r \in Procs : r # p => op'[r] = op[r]
    BY <2>1, OwnOperation
  <2>3. \A r \in Procs : r # p => script'[r] = script[r]
    BY <1>1, EndsOne DEF HelperStep, Lock!ElevationTypeOK
  <2>4. op'[p].pc # "idle" => script' = script
    BY <1>1 DEF HelperStep
  <2> QED
    BY <2>1, <2>2, <2>3, <2>4 DEF OperationsInHelpers
<1>2. CASE HelperRefuses(p)
  <2>1. (\A r \in Procs : r # p => script'[r] = script[r]) /\ op' = op /\ op[p].pc = "idle"
    BY <1>2, EndsOne DEF HelperRefuses, vars
  <2> QED
    BY <2>1 DEF OperationsInHelpers
<1>3. CASE HelperStops(p)
  <2>1. \A r \in Procs : r # p => script'[r] = script[r]
    BY <1>3, EndsOne DEF HelperStops, E!HelperDies
  <2>2. (\A r \in Procs : r # p => op'[r] = op[r]) /\ op'[p].pc = "idle"
    BY <1>3 DEF HelperStops, Crash, Finish, NoOperation, TypeOK, vars
  <2> QED
    BY <2>1, <2>2 DEF OperationsInHelpers
<1> QED
  BY <1>1, <1>2, <1>3

LEMMA TransportInside ==
  ASSUME TypeOK, Lock!ElevationTypeOK, OperationsInHelpers, UNCHANGED op,
         (\E w \in Windows : Click(w)) \/ WindowsAndPrompts
  PROVE  OperationsInHelpers'
<1>1. ASSUME NEW p \in Procs, script[p].pc = "working" PROVE script'[p].pc = "working"
  <2> USE DEF Lock!ElevationTypeOK
  <2>1. ASSUME NEW w \in Windows, Click(w) PROVE script' = script
    BY <2>1 DEF Click, E!Click
  <2>2. ASSUME NEW w \in Windows, E!Transact(w) \/ E!WindowDies(w) PROVE script'[p].pc = "working"
    <3>1. CASE E!Launch(w)
      <4>1. ASSUME NEW s \in Procs, NEW new, script[s] = E!NoScript,
                   script' = [script EXCEPT ![s] = new]
            PROVE  script'[p].pc = "working"
        BY <1>1, <4>1 DEF E!NoScript
      <4> QED
        BY <1>1, <3>1, <4>1 DEF E!Launch
    <3>2. CASE E!GiveUp(w)
      BY <1>1, <3>2 DEF E!GiveUp
    <3>3. CASE \/ E!Acquire(w) \/ E!Prepare(w) \/ E!WriteRequest(w) \/ E!Answer(w)
               \/ E!WindowDies(w)
      BY <1>1, <3>3 DEF E!Acquire, E!Prepare, E!WriteRequest, E!Answer, E!WindowDies
    <3> QED
      BY <2>2, <3>1, <3>2, <3>3 DEF E!Transact
  <2>3. ASSUME NEW r \in Procs, E!PromptFails(r) \/ E!Authorize(r) \/ E!ReadRequest(r) \/ E!Exits(r)
        PROVE  script'[p].pc = "working"
    <3>1. r # p
      BY <1>1, <2>3 DEF E!PromptFails, E!Authorize, E!ReadRequest, E!Exits
    <3> QED
      BY <1>1, <2>3, <3>1, EndsOne DEF E!PromptFails, E!Authorize, E!ReadRequest, E!Exits
  <2> QED
    BY <2>1, <2>2, <2>3, <1>1 DEF WindowsAndPrompts
<1> QED
  BY <1>1 DEF OperationsInHelpers, At

\* Two windows of one user never have two operations half done: whoever runs
\* a pipeline does so in a helper, and helpers run one at a time.
THEOREM OperationsAlwaysSerialized ==
  ASSUME ~ Abandon
  PROVE  ElevatedSpec => []OperationsSerialized
<1>1. ElevatedInit => OperationsInHelpers
  BY DEF ElevatedInit, Init, OperationsInHelpers, At, NoOperation
<1>2. /\ TypeOK /\ Lock!ElevationTypeOK /\ OperationsInHelpers /\ [ElevatedNext]_allVars
      => OperationsInHelpers'
  <2> SUFFICES ASSUME TypeOK, Lock!ElevationTypeOK, OperationsInHelpers, [ElevatedNext]_allVars
               PROVE  OperationsInHelpers'
    OBVIOUS
  <2>1. CASE (\E w \in Windows : Click(w)) \/ WindowsAndPrompts
    BY <2>1, TransportInside DEF Click, WindowsAndPrompts, vars
  <2>2. CASE ByHand
    BY <2>2 DEF ByHand, transport, FuseComesUp, FuseGivesUp, HandUnmountFuse, HandDetach, Eject,
                OperationsInHelpers, At
  <2>3. CASE Reboot
    BY <2>3 DEF Reboot, NoOperation, OperationsInHelpers, At
  <2>4. CASE UNCHANGED allVars
    BY <2>4 DEF allVars, vars, transport, OperationsInHelpers, At
  <2> QED
    BY <2>1, <2>2, <2>3, <2>4, HelperStepInside DEF ElevatedNext
<1>3. OperationsInHelpers /\ HelpersSerialized => OperationsSerialized
  BY DEF OperationsInHelpers, HelpersSerialized, E!HelpersSerialized, E!Runs, E!HelperPcs,
         OperationsSerialized
<1>4. ElevatedSpec => []HelpersSerialized
  BY HelpersAlwaysSerialized
<1> QED
  BY <1>1, <1>2, <1>3, <1>4, ElevatedTypes, PTL DEF ElevatedSpec

\* With windows that wait, and loads and logs that do not fail, the record of a
\* stack outlives its layers for all the helpers they start; abandoned helpers
\* break it (run late_stack), and so does a record that cannot be loaded.
THEOREM ElevatedRecordOutlives ==
  ASSUME ~ Abandon, ~ LogMayFail, ~ LoadMayFail
  PROVE  ElevatedSpec => RecordOutlivesLayers
<1>1. Spec /\ []OperationsSerialized => RecordOutlivesLayers
  BY RecordOutlives
<1>2. ElevatedSpec => []OperationsSerialized
  BY OperationsAlwaysSerialized
<1> QED
  BY <1>1, <1>2, ElevatedRuns, PTL

\* Under the same assumptions, and when nobody interferes with an operation,
\* their stacks move as LayerStack allows and not otherwise.
THEOREM ElevatedStacksMoveInOrder ==
  ASSUME ~ Abandon, ~ Interference, ~ LogMayFail, ~ LoadMayFail
  PROVE  ElevatedSpec => LayeredMoves
<1>1. Spec /\ []OperationsSerialized => LayeredMoves
  BY StacksMoveInOrder
<1>2. ElevatedSpec => []OperationsSerialized
  BY OperationsAlwaysSerialized
<1> QED
  BY <1>1, <1>2, ElevatedRuns, PTL

=============================================================================
