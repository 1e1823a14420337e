----------------------------- MODULE LayerStack -----------------------------
(***************************************************************************)
(* What the mount and unmount pipelines promise, with no word on how: each *)
(* stage carries a stack of up to three layers, a FUSE mount, an image     *)
(* attached from it, and a volume mounted from the image; at most one      *)
(* complete stack is on record.  The recorded stack comes down from the    *)
(* top, and its record goes last.  A stack that was never recorded may     *)
(* also lose its image under a mounted volume: cleaning up after a failed  *)
(* mount detaches by force.                                                *)
(***************************************************************************)
CONSTANTS Stages, None

VARIABLES fuse, image, mounted, recorded

layers == <<fuse, image, mounted>>
stack == <<fuse, image, mounted, recorded>>

Bare(s) == s \notin fuse \cup image \cup mounted
Complete(s) == s \in fuse \cap image \cap mounted

Init ==
  /\ fuse \in SUBSET Stages
  /\ image = fuse /\ mounted = fuse
  /\ recorded = None

\* One layer more, on top of the one that carries it.
Raise(s) ==
  /\ \/ fuse' = fuse \cup {s} /\ UNCHANGED <<image, mounted>>
     \/ s \in fuse /\ image' = image \cup {s} /\ UNCHANGED <<fuse, mounted>>
     \/ s \in image /\ mounted' = mounted \cup {s} /\ UNCHANGED <<fuse, image>>
  /\ UNCHANGED recorded

\* The top layer comes off.
Lower(s) ==
  /\ \/ mounted' = mounted \ {s} /\ UNCHANGED <<fuse, image>>
     \/ s \notin mounted /\ image' = image \ {s} /\ UNCHANGED <<fuse, mounted>>
     \/ s \notin image /\ fuse' = fuse \ {s} /\ UNCHANGED <<image, mounted>>
  /\ UNCHANGED recorded

\* A failed mount's image is torn away, its volume with it or left dead.
Tear(s) ==
  /\ s # recorded
  /\ image' = image \ {s}
  /\ mounted' \in {mounted, mounted \ {s}}
  /\ UNCHANGED <<fuse, recorded>>

Record(s) ==
  /\ Complete(s)
  /\ recorded = None \/ Bare(recorded)
  /\ recorded' = s
  /\ UNCHANGED layers

Forget ==
  /\ recorded # None /\ Bare(recorded)
  /\ recorded' = None
  /\ UNCHANGED layers

PowerLoss ==
  /\ fuse' = {} /\ image' = {} /\ mounted' = {}
  /\ UNCHANGED recorded

Next ==
  \/ \E s \in Stages : Raise(s) \/ Lower(s) \/ Tear(s) \/ Record(s)
  \/ Forget
  \/ PowerLoss

Spec == Init /\ [][Next]_stack

=============================================================================
