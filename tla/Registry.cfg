SPECIFICATION FairSpec
CONSTANTS
  Device = {A, B}
  Folder = {f}
  Task = {t1, t2}
  Torn = Torn
  A = A  B = B  f = f
  Start <- MCStart
  Limit <- MCLimit
  Default = 10
  MaxEntries = 2
  MaxRequests = 1
  MaxFaults = 1
INVARIANTS TypeOK FileIsCurrent WatchersAreCurrent ConfiguredOnce DeleteIsOptIn
PROPERTIES FolderSpreads
CHECK_DEADLOCK FALSE
