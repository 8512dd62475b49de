CONSTANTS
  Docs = {d1, d2, d3}
  InitDocs = {d1}
  MaxName = 4
  MaxGen = 4
  MaxDelGen = 2
  NoFile = NoFile
  MaxBufferedDocs = 1
  MaxSegments = 1
  Faults = {"crash", "io", "unlink"}
SPECIFICATION FairSpec
INVARIANTS
  TypeOK
  IndInv
  GraceComplete
PROPERTIES
  ImplementsAtomic
  GraceFrozen
  CallsReturn
CHECK_DEADLOCK FALSE
