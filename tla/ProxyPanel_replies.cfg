CONSTANTS
  default = default
  s0 = s0
  None = None
  Slot = {w1}
  User = {u1}
  ForeignName = {default}
  Secret = {s0, s1, s2}
  ForeignProfile <- MCNoForeign
  BackupKeep = 0
  MaxRows = 2
  MaxStarts = 2
  MaxFaults = 2
SPECIFICATION Spec
PROPERTY HandlersReply
PROPERTY ScriptEnds
