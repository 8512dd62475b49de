CONSTANTS
  Docs = {d1, d2}
  InitDocs = {d1, d2}
  MaxName = 5
  MaxGen = 5
  MaxDelGen = 2
  NoFile = NoFile
  MaxBufferedDocs = 1
  MaxSegments = 2
  Faults = {}
SPECIFICATION Spec
PROPERTIES
  CommitSupersedesNothing
CHECK_DEADLOCK FALSE
