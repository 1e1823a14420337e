SPECIFICATION Spec
CONSTANTS
  Procs = {a, b}
  Disks = {d1, d2}
  Stages = {s1, s2}
  NPoints = 1
  None = None
  Foreign = Foreign
  NonDev = NonDev
  Unknown = Unknown
  Interference = FALSE
  LogMayFail = TRUE
  LoadMayFail = TRUE
SYMMETRY Symmetry
INVARIANT DisksAccounted
INVARIANT PointsAccounted
PROPERTY ForeignDisksKept
PROPERTY ForeignVolumesKept
