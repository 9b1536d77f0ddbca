SPECIFICATION FairSpec
CONSTANTS
  A = A  B = B
  Device = {A, B}
  Rank <- MCRank
  Large = {A, B}
  Session = {1, 2}
  ends <- MCEnds
  None = None  Dead = Dead
  MaxBreaks = 1
  MaxRemovals = 1
INVARIANTS TypeOK EntryIsServed
PROPERTIES IndexesArrive
CHECK_DEADLOCK FALSE
