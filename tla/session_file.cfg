SPECIFICATION SessionSpec
CONSTANTS
  Writers = {h1, h2}
  Readers = {r1}
  Inodes = {i1, i2, i3}
  Records = {v1, v2}
  None = None
INVARIANT SessionTypeOK
INVARIANT RecordWhole
PROPERTY VerifiedMeansReadable
PROPERTY ImplementsRegister
SYMMETRY Symmetry
