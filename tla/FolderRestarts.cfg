SPECIFICATION FairSpec
CONSTANTS
  Device = {A, B}
  Absent = Absent
  Job = {h1}
  ConflictWindow = 1
  RenameAttempts = 1
  Strategy = "newest"
  SyncDelete = FALSE
  PatientUsers = TRUE
  Editors = {A}
  Start = {0}
  MaxClock = 2
  MaxBacklog = 1
  MaxEdits = 1
  MaxDeletes = 0
  MaxFresh = 1
  MaxResyncs = 0
  MaxLocks = 1
INVARIANTS TypeOK
PROPERTIES LatestReturns FileSurvives
CHECK_DEADLOCK FALSE
