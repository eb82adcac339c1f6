CONSTANTS
  j1 = j1
  j2 = j2
  p1 = p1
  Jobs = {j1, j2}
  Kinds = {"PLAN"}
  Producers = {p1}
  MaxAttempts = 2
  MaxTasks = 2
  Concurrency = 2
  MaxRestarts = 1
  MaxLapses = 1
SPECIFICATION FairWorkerSpec
INVARIANTS
  AttemptBudget
  InflightBound
  RunningIsExecuted
  OneExecutionPerTask
PROPERTIES
  ExhaustedStaysSettled
  TasksSettle
CHECK_DEADLOCK FALSE
