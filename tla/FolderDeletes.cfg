SPECIFICATION FairSpec
CONSTANTS
  Device = {A, B, C}
  Absent = Absent
  Job = {h1}
  ConflictWindow = 1
  RenameAttempts = 2
  Strategy = "rename"
  SyncDelete = TRUE
  PatientUsers = FALSE
  Editors = {A, B}
  Start = {0}
  MaxClock = 0
  MaxBacklog = 2
  MaxEdits = 0
  MaxDeletes = 2
  MaxFresh = 0
  MaxResyncs = 0
  MaxLocks = 0
PROPERTIES LatestSpreads
CHECK_DEADLOCK FALSE
