SPECIFICATION Spec
CONSTANTS
  Procs = {a}
  Disks = {d1}
  Stages = {s1}
  NPoints = 1
  None = None
  Foreign = Foreign
  NonDev = NonDev
  Unknown = Unknown
  Interference = TRUE
  LogMayFail = FALSE
  LoadMayFail = FALSE
PROPERTY ForeignDisksKept
