CONSTANTS
  c1 = c1
  c2 = c2
  Children = {c1, c2}
  Budget = 1
  MaxUnits = 2
  MaxPasses = 2
  MaxDelegations = 2
  MaxLists = 1
  MaxDeaths = 1
  MaxCleans = 1
SYMMETRY Symmetry
SPECIFICATION Spec
INVARIANTS
  GuardFitsAgent
  ChecklistIsPrimarys
  ReportsKept
  NotesOfThisUnit
CHECK_DEADLOCK FALSE
