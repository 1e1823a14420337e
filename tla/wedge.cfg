SPECIFICATION Spec
CONSTANTS
  Procs = {a}
  Disks = {d1, d2}
  Stages = {s1}
  NPoints = 1
  None = None
  Foreign = Foreign
  NonDev = NonDev
  Unknown = Unknown
  Interference = FALSE
  LogMayFail = TRUE
  LoadMayFail = TRUE
PROPERTY UnmountFinishes
PROPERTY StaleRecordHeals
