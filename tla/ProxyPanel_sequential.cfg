CONSTANTS
  default = default
  s0 = s0
  None = None
  Slot = {w1}
  User = {u1, u2}
  ForeignName = {default}
  Secret = {s0, s1, s2}
  ForeignProfile <- MCForeign
  BackupKeep = 1
  MaxRows = 2
  MaxStarts = 3
  MaxFaults = 2
SPECIFICATION Spec
SYMMETRY Symmetry
INVARIANT TypeOK
INVARIANT SoloApplyConverges
INVARIANT SoloRollbackRestores
INVARIANT HostMatchesAtRest
INVARIANT AuditRefersToUsers
PROPERTY KeepsLifecycle
