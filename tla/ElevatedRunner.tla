--------------------------- MODULE ElevatedRunner ---------------------------
(***************************************************************************)
(* Elevation with the real pipelines in it: the process that Runner calls  *)
(* p is the helper that osascript p of Elevation starts.  The lock of the  *)
(* windows is all that keeps two pipelines of one user apart, as the       *)
(* helper itself takes none.                                               *)
(*                                                                         *)
(* Other people's disks, which Runner covers, are left out here.           *)
(***************************************************************************)
EXTENDS Runner

CONSTANTS Windows, Files, Abandon

ASSUME TransportConstants ==
  /\ None \notin Windows \cup Procs \cup Files \cup {"ok", "cancelled", "timedOut", "failed"}
  /\ Abandon \in BOOLEAN

VARIABLES lock, requests, window, script

Recorded == session.kind = "valid"

E == INSTANCE Elevation WITH Scripts <- Procs, recorded <- Recorded

transport == <<lock, requests, window, script>>
allVars == <<vars, transport>>

-----------------------------------------------------------------------------

\* The pipeline the helper was started for.
Pipeline(p) ==
  \/ script[p].action = "mount" /\ (Validate(p) \/ MountPipeline(p) \/ BestEffortCleanup(p))
  \/ script[p].action = "unmount" /\ Unmount(p)

\* Faulty: every end of the pipeline is reported as a success.
SucceedsAlways(p) == TRUE

\* The step after which mount_volume or unmount_volume returns.
Succeeds(p) == At(p, "save") \/ At(p, "clearRecord")

\* One step of the pipeline; when it was the last one, the helper goes on to
\* its exit, successful or with code 3.
HelperStep(p) ==
  /\ script[p].pc = "working"
  /\ Pipeline(p)
  /\ \/ op'[p].pc # "idle" /\ UNCHANGED transport
     \/ /\ op'[p].pc = "idle" /\ Succeeds(p)
        /\ script' = [script EXCEPT ![p].pc = "done"]
        /\ UNCHANGED <<lock, requests, window>>
     \/ /\ op'[p].pc = "idle" /\ ~ Succeeds(p)
        /\ E!Ends(p, 3, "plain")
        /\ UNCHANGED requests

\* Missing tools, a distrusted record, or none to unmount: nothing is begun.
HelperRefuses(p) ==
  /\ At(p, "idle")
  /\ script[p].pc = "working"
  /\ E!Ends(p, 3, "plain")
  /\ UNCHANGED <<requests, vars>>

\* Killed, or an exception no handler expects, at any point.
HelperStops(p) ==
  /\ IF At(p, "idle") THEN UNCHANGED vars ELSE Crash(p)
  /\ \/ E!HelperDies(p)
     \/ script[p].pc = "working" /\ E!Ends(p, 4, "plain") /\ UNCHANGED requests

\* Seen from a window, which cannot look into root's staging directories, a
\* record is stale only when those are gone as well.  A record the window
\* cannot read does not stop it: the helper looks again.
LooksStale == stageDir = {} /\ ~ Live(session.stage) /\ volume[session.point] = None

Click(w) ==
  /\ UNCHANGED vars
  /\ \/ E!Click(w, "unmount")
     \/ (Recorded => LooksStale \/ LoadMayFail) /\ E!Click(w, "mount")

WindowsAndPrompts ==
  /\ UNCHANGED vars
  /\ \/ \E w \in Windows : E!Transact(w) \/ E!WindowDies(w)
     \/ \E p \in Procs : E!PromptFails(p) \/ E!Authorize(p) \/ E!ReadRequest(p) \/ E!Exits(p)

ByHand ==
  /\ \/ \E s \in Stages : FuseComesUp(s) \/ FuseGivesUp(s) \/ HandUnmountFuse(s)
     \/ \E d \in Disks : HandDetach(d)
     \/ \E q \in Points : Eject(q)
  /\ UNCHANGED transport

ElevatedInit ==
  /\ Init /\ session = NoSession
  /\ E!ElevationInit

ElevatedNext ==
  \/ \E p \in Procs : HelperStep(p) \/ HelperRefuses(p) \/ HelperStops(p)
  \/ \E w \in Windows : Click(w)
  \/ WindowsAndPrompts
  \/ ByHand
  \/ Reboot /\ E!Restart

ElevatedSpec == ElevatedInit /\ [][ElevatedNext]_allVars

-----------------------------------------------------------------------------
(* Properties *)

\* With the real pipelines the helpers do what Elevation says of them.
ImplementsElevation == E!ElevationSpec

\* What Elevation shows of the lock, about the real pipelines and record: one
\* helper at a time, and a mount reported as successful has its record.
HelpersSerialized == E!HelpersSerialized
SuccessHasRecord == E!SuccessHasRecord

=============================================================================
