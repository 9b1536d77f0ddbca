\* One transfer of the path at a time.
SPECIFICATION FairSpec
CONSTANTS
  one = one  two = two  three = three
  Zero = Zero  Absent = Absent
  Dest = Dest  other = other
  Block = {one, two, three}
  Transfers = {t1}
  OtherFiles <- MCOther
  SourceContents <- MCSources
  LocalContents <- MCLocalOne
  IntegrityCheckEnabled = TRUE
  VersioningEnabled = TRUE
  RenameAttempts = 2
  MaxParallel = 1
  MaxRequests = 2
  MaxSourceEdits = 1
  MaxLocalEdits = 1
  MaxCrashes = 1
 
PROPERTIES WholePublish TransferEnds OverwrittenIsVersioned ReceivesFile
CHECK_DEADLOCK FALSE
