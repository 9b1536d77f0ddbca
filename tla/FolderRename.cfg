SPECIFICATION FairSpec
CONSTANTS
  Device = {A, B}
  Absent = Absent
  Job = {h1, h2}
  ConflictWindow = 1
  RenameAttempts = 2
  Strategy = "rename"
  SyncDelete = FALSE
  PatientUsers = TRUE
  Editors = {A, B}
  Start = {0, Absent}
  MaxClock = 0
  MaxBacklog = 2
  MaxEdits = 2
  MaxDeletes = 0
  MaxFresh = 0
  MaxResyncs = 0
  MaxLocks = 1
PROPERTIES LatestSpreads ReplacedIsCopied
CHECK_DEADLOCK FALSE
