SPECIFICATION FairSpec
CONSTANTS
  Device = {A, B}
  Absent = Absent
  Job = {h1, h2}
  ConflictWindow = 1
  RenameAttempts = 2
  Strategy = "newest"
  SyncDelete = FALSE
  PatientUsers = TRUE
  Editors = {A, B}
  Start = {0}
  MaxClock = 6
  MaxBacklog = 1
  MaxEdits = 2
  MaxDeletes = 0
  MaxFresh = 0
  MaxResyncs = 1
  MaxLocks = 0
PROPERTIES LatestSpreads LatestKept
CHECK_DEADLOCK FALSE
