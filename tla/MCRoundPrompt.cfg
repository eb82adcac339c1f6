CONSTANTS
  f1 = f1
  MaxVerify = 2
  MaxPasses = 2
  MaxUnparsed = 2
  MaxCompletion = 0
  MaxAttempts = 2
  Feedback = {f1}
  MaxCrashes = 0
  MaxRetries = 0
SPECIFICATION Spec
INVARIANT FeedbackIncorporated
CHECK_DEADLOCK FALSE
