CONSTANTS
  Writers = {w1, w2, w3}
  Appenders = {a1, a2}
  Handoff = TRUE
  MaxGen = 6
  NoOne = NoOne
  NoFile = NoFile
SPECIFICATION Spec
SYMMETRY SameProcs
INVARIANTS
  NothingLost
  SnapshotStays
  FlushedStays
CHECK_DEADLOCK FALSE
