SPECIFICATION Spec
CONSTANTS
  readme = readme  readmeMd = readmeMd
  File = {readme, readmeMd}
  Content = {x, y}
  Absent = Absent
  NoVersion = NoVersion
  Worker = {w1, w2}
  AlsoLists <- MCAlsoLists
  MaxVersions = 2
  MaxAge = 3
  Zone <- MCZone
  MaxTime = 4
  MaxJobs = 3
  MaxSweeps = 1
SYMMETRY Symmetry
INVARIANTS TypeOK DeservedIsKept ArchiveBounded
PROPERTIES RestoreSucceeds
CHECK_DEADLOCK FALSE
