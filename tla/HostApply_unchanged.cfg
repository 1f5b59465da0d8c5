CONSTANTS
  default = default
  s0 = s0
  None = None
  Slot = {w1}
  User = {u1, u2}
  ForeignName = {default}
  Secret = {s0, s1}
  ForeignProfile <- MCForeign
  BackupKeep = 1
  MaxFaults = 1
SPECIFICATION HostSpec
SYMMETRY Symmetry
INVARIANT SuccessMeansMtproxyMatches
