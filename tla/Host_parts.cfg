CONSTANTS
  default = default
  s0 = s0
  script_run = script_run
  file_names = file_names
  merge_files = merge_files
  None = None
  Slot = {w1, w2}
  User = {u1, u2}
  ForeignName = {default}
  Secret = {s0, s1}
  ForeignProfile <- MCForeign
  BackupKeep = 1
  MaxFaults = 1
  Apply = {1, 2}
  Keeps = {1, 2}
  TickRate = 2
  MaxTime = 4
  MaxStepsBack = 1
  Backend = {b0, b1}
  Carrier = {https, tcp}
  PanelBackend = b0
  PanelCarrier = tcp
  Https = https
  MaxEntries = 2
SPECIFICATION MCSpec
INVARIANT TypesOK
INVARIANT ForeignPreserved
INVARIANT LiveFileValid
INVARIANT SoloSuccessMatches
INVARIANT QuiescentServicesCurrent
INVARIANT RejectedRestartRestores
INVARIANT LossNeedsOverlap
INVARIANT BackupsBounded
INVARIANT MergesAgree
INVARIANT SetMergeSound
PROPERTY BackupsKeepContent
PROPERTY SoloRejectionRestores
PROPERTY LastMergeWins
