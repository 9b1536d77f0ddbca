\* No block store (it failed to open); nothing in the program switches the relay on.
SPECIFICATION FairSpec
CONSTANTS
  one = one  two = two  three = three
  Block = {one, two, three}
  Bad = Bad  Absent = Absent
  SourceContents <- MCSources
  LocalContents <- MCLocal
  ChunkSize = 2
  LargeFileThreshold = 1
  WholeMax = 1
  CdcMin = 2
  HasBlockStore = FALSE
  PeerRelayEnabled = FALSE
  IntegrityCheckEnabled = TRUE
  VersioningEnabled = TRUE
  RenameAttempts = 2
  MaxRequests = 2
  MaxSourceEdits = 1
  MaxLocalEdits = 1
  MaxDamages = 1
  MaxCrashes = 1
INVARIANTS TypeOK 
PROPERTIES ReceivesFile TransferEnds
CHECK_DEADLOCK FALSE
