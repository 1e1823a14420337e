SPECIFICATION FairGui
CONSTANTS
  Workers = {k1, k2}
  MaxDialogs = 2
  None = None
INVARIANT GuiTypeOK
INVARIANT OneOperation
INVARIANT StatusCurrent
PROPERTY BusyEnds
