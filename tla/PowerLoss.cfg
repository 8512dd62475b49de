SPECIFICATION Spec
CONSTANTS
  MetadataOrdered = FALSE
  DataOrdered = TRUE
  MaxCalls = 3
INVARIANT OptimizeIsDurable
CHECK_DEADLOCK FALSE
