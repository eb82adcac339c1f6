SPECIFICATION FairSpec
CONSTANTS
  StdoutCap = 5
  Vocabulary <- MCVocabulary
INVARIANTS
  VerdictIsRead
  ApprovalIsWhole
PROPERTIES
  RunSettles
CHECK_DEADLOCK FALSE
