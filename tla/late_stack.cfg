SPECIFICATION ElevatedSpec
CONSTANTS
  Procs = {a, b}
  Disks = {d1, d2}
  Stages = {s1, s2}
  NPoints = 2
  None = None
  Foreign = Foreign
  NonDev = NonDev
  Unknown = Unknown
  Interference = FALSE
  LogMayFail = FALSE
  LoadMayFail = FALSE
  Windows = {w1}
  Files = {f1, f2}
  Abandon = TRUE
SYMMETRY Symmetry
PROPERTY RecordOutlivesLayers
