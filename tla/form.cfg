SPECIFICATION FairForm
CONSTANTS
  Timers = {t1, t2}
  HideTicks = 3
  MaxDialogs = 2
  MaxDevices = 2
  None = None
INVARIANT FormTypeOK
INVARIANT ClearTextTimed
INVARIANT RequestConsistent
INVARIANT ReadOnlyHonoured
INVARIANT SecretDelivered
 
PROPERTY NeverHiddenEarly
PROPERTY ClearTextEnds
