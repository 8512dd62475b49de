CONSTANTS
  Docs = {d1, d2}
  InitDocs = {d1}
  MaxName = 4
  MaxGen = 5
  MaxDelGen = 1
  NoFile = NoFile
  MaxBufferedDocs = 1
  MaxSegments = 0
  Faults = {"crash"}
  Readers = {r1}
SPECIFICATION ReadersSpec
INVARIANTS
  NoDocumentMissed
PROPERTIES
  InTimeOpens
  InTimeExact
CHECK_DEADLOCK FALSE
