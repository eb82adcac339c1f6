CONSTANTS
  Jobs = {"j1"}
  Kinds = {"PLAN", "IMPLEMENT", "VERIFY", "REVIEW", "REVISE", "OPEN_PR"}
  Producers <- Actors
  MaxAttempts = 1
  MaxTasks = 3
  Concurrency = 2
  MaxRestarts = 1
  MaxLapses = 1
  MaxPlanRevisions = 2
  RequestKinds = {"approve", "feedback", "cancel"}
  MaxRequests = 2
  MaxConcurrent = 2
  Starts = {"AWAITING_PLAN_APPROVAL"}
SPECIFICATION Spec
CHECK_DEADLOCK FALSE
INVARIANTS
  NoStrandedJob
  RoundOpened
