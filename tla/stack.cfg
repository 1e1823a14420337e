SPECIFICATION Spec
CONSTANTS
  Procs = {a}
  Disks = {d1, d2}
  Stages = {s1, s2}
  NPoints = 2
  None = None
  Foreign = Foreign
  NonDev = NonDev
  Unknown = Unknown
  Interference = FALSE
  LogMayFail = FALSE
  LoadMayFail = FALSE
SYMMETRY Symmetry
INVARIANT TypeOK
INVARIANT RecordInvariant
PROPERTY RecordOutlivesLayers
PROPERTY LayeredMoves
