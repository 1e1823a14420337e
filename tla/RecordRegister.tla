--------------------------- MODULE RecordRegister ---------------------------
(***************************************************************************)
(* What the session file promises its readers: one register that holds a   *)
(* whole record or none.  It changes only by a save or a removal under way, *)
(* which takes effect at once and for every reader, or not at all.  A read *)
(* answers what the register held at one moment, or None: whoever is told  *)
(* None cannot tell an empty register from a read that failed.  After a    *)
(* power loss it holds one of the values it had since the disk last caught *)
(* up.                                                                     *)
(***************************************************************************)
CONSTANTS Writers, Readers, Records, None

VARIABLES
  register,  \* the record in force, or None
  wish,      \* writer -> the value it is about to put there, or Idle
  recent,    \* what a power loss may bring back, the present value included
  answer     \* reader -> the value its last read saw

registerVars == <<register, wish, recent, answer>>

Values == Records \cup {None}
Idle == "idle"

Init ==
  /\ register \in Values
  /\ wish = [w \in Writers |-> Idle]
  /\ recent = {register}
  /\ answer = [r \in Readers |-> None]

\* A save of a record, or a removal: the wish for None.
Begin(w, v) ==
  /\ wish[w] = Idle
  /\ wish' = [wish EXCEPT ![w] = v]
  /\ UNCHANGED <<register, recent, answer>>

Commit(w) ==
  /\ wish[w] # Idle
  /\ register' = wish[w]
  /\ recent' = recent \cup {register'}
  /\ wish' = [wish EXCEPT ![w] = Idle]
  /\ UNCHANGED answer

Abort(w) ==
  /\ wish' = [wish EXCEPT ![w] = Idle]
  /\ UNCHANGED <<register, recent, answer>>

Flush ==
  /\ recent' = {register}
  /\ UNCHANGED <<register, wish, answer>>

Read(r) ==
  /\ \E v \in {register, None} : answer' = [answer EXCEPT ![r] = v]
  /\ UNCHANGED <<register, wish, recent>>

\* The reader's process ends, or its read fails late; what it saw is gone.
Forget(r) ==
  /\ answer' = [answer EXCEPT ![r] = None]
  /\ UNCHANGED <<register, wish, recent>>

PowerLoss ==
  /\ register' \in recent
  /\ recent' = {register'}
  /\ wish' = [w \in Writers |-> Idle]
  /\ answer' = [r \in Readers |-> None]

Next ==
  \/ \E w \in Writers, v \in Values : Begin(w, v)
  \/ \E w \in Writers : Commit(w) \/ Abort(w)
  \/ Flush
  \/ \E r \in Readers : Read(r) \/ Forget(r)
  \/ PowerLoss

Spec == Init /\ [][Next]_registerVars

=============================================================================
