CONSTANTS
  default = default
  s0 = s0
  None = None
  Slot = {w1, w2, w3}
  User = {u1}
  ForeignName = {default}
  Secret = {s0, s1, s2, s3}
  ForeignProfile <- MCForeign
  BackupKeep = 1
  MaxRows = 1
  MaxStarts = 3
  MaxFaults = 0
SPECIFICATION Spec
SYMMETRY Symmetry
INVARIANT NoWedgedRow
