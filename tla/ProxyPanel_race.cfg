CONSTANTS
  default = default
  s0 = s0
  None = None
  Slot = {w1, w2}
  User = {u1}
  ForeignName = {default}
  Secret = {s0, s1, s2}
  ForeignProfile <- MCForeign
  BackupKeep = 1
  MaxRows = 2
  MaxStarts = 3
  MaxFaults = 0
SPECIFICATION Spec
SYMMETRY Symmetry
INVARIANT NoWedgedRow
INVARIANT SoloApplyConverges
INVARIANT OnlyIssuedOnHost
