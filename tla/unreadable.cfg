SPECIFICATION Spec
CONSTANTS
  Procs = {a}
  Disks = {d1}
  Stages = {s1, s2}
  NPoints = 2
  None = None
  Foreign = Foreign
  NonDev = NonDev
  Unknown = Unknown
  Interference = FALSE
  LogMayFail = FALSE
  LoadMayFail = TRUE
PROPERTY RecordOutlivesLayers
