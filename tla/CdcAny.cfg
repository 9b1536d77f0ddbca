SPECIFICATION Spec
CONSTANTS
  one = one  two = two  three = three
  Zero = Zero  Absent = Absent
  Dest = Dest  other = other
  Block = {one, two, three}
  Transfers = {t1, t2}
  OtherFiles <- MCNoOther
  SourceContents <- MCShrinking
  LocalContents <- MCLocalOne
  IntegrityCheckEnabled = TRUE
  VersioningEnabled = TRUE
  RenameAttempts = 2
  MaxParallel = 2
  MaxRequests = 2
  MaxSourceEdits = 1
  MaxLocalEdits = 1
  MaxCrashes = 0
INVARIANTS TypeOK BlockProvenance
SYMMETRY TransferSymmetry
CHECK_DEADLOCK FALSE
