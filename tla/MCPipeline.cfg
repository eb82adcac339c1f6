CONSTANTS
  Jobs = {"j1"}
  Kinds = {"PLAN", "IMPLEMENT", "VERIFY", "REVIEW", "REVISE", "OPEN_PR"}
  Producers <- Actors
  MaxAttempts = 2
  MaxTasks = 6
  Concurrency = 2
  MaxRestarts = 0
  MaxLapses = 0
  MaxPlanRevisions = 2
  RequestKinds = {"label", "approve", "comment", "feedback", "retry", "changes", "inline", "accept"}
  MaxRequests = 3
  MaxConcurrent = 1
  Starts = {"ABSENT", "AWAITING_PR_APPROVAL"}
SPECIFICATION Spec
CHECK_DEADLOCK FALSE
INVARIANTS
  OneTaskPerJob
  ImplementsApprovedPlan
  StageMatchesState
PROPERTIES
  LegalMoves
