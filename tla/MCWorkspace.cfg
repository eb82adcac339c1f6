SPECIFICATION FairSpec
CONSTANTS
  Urls = {"A", "B"}
  MaxTries = 2
  MaxPasses = 2
  MaxCommits = 2
  MaxDiffs = 1
  MaxRetargets = 1
  MaxFailures = 2
  MaxCrashes = 1
INVARIANTS
  WorkSurvives
  PresentedIsPushed
  DiffShowsResult
PROPERTIES
  OpenPrEnds
CHECK_DEADLOCK FALSE
