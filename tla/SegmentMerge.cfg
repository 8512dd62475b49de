CONSTANTS
  Inputs <- MCInputs
  FieldOf <- MCFieldOf
  Dead = Dead
  NoFile = NoFile
SPECIFICATION FairSpec
INVARIANTS
  MatchesBatch
  CursorsInSync
  TermsAscend
  PostingsInOrder
PROPERTIES
  Returns
CHECK_DEADLOCK FALSE
