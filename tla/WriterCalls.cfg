CONSTANTS
  Docs = {d1, d2, d3, d4, d5}
  InitDocs = {d1}
  MaxName = 5
  MaxGen = 5
  MaxDelGen = 2
  NoFile = NoFile
  MaxBufferedDocs = 2
  MaxSegments = 2
  Faults = {}
SPECIFICATION Spec
SYMMETRY SameDocs
INVARIANTS
  CleanUpExact
  Ceiling
PROPERTIES
  CountExact
CHECK_DEADLOCK FALSE
