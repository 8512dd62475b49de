SPECIFICATION Spec
CONSTANTS
  MetadataOrdered = TRUE
  DataOrdered = TRUE
  MaxCalls = 1
INVARIANT OnlyTheCommitIsLost
CHECK_DEADLOCK FALSE
