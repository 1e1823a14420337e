SPECIFICATION FairElevation
CONSTANTS
  Windows = {w1, w2}
  Scripts = {s1, s2}
  Files = {f1, f2, f3}
  None = None
  Abandon = TRUE
INVARIANT ElevationTypeOK
INVARIANT RequestKept
INVARIANT OnlyOwnRequest
PROPERTY CancelledBeforeHelper
PROPERTY ClickAnswered
