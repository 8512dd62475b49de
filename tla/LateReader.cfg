CONSTANTS
  Docs = {d1, d2}
  InitDocs = {d1}
  MaxName = 4
  MaxGen = 4
  MaxDelGen = 1
  NoFile = NoFile
  MaxBufferedDocs = 1
  MaxSegments = 0
  Faults = {}
  Readers = {r1}
SPECIFICATION ReadersSpec
INVARIANT OpenedExact
CHECK_DEADLOCK FALSE
