CONSTANTS
  f1 = f1
  MaxVerify = 2
  MaxPasses = 3
  MaxUnparsed = 2
  MaxCompletion = 1
  MaxAttempts = 2
  Feedback = {f1}
  MaxCrashes = 2
  MaxRetries = 1
SPECIFICATION FairSpec
INVARIANTS
  RoundBudget
  RedBuildAtCapOnly
PROPERTIES
  RoundEnds
CHECK_DEADLOCK FALSE
