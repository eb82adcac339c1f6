SPECIFICATION Spec
CONSTANTS
  v1 = v1
  v2 = v2
  Viewers = {v1, v2}
  BufferSize = 2
  Requests <- ExportRequests
  MaxEvents = 4
  MaxCrashes = 1
SYMMETRY ViewerSymmetry
INVARIANTS
  RowsInOrder
  PaperTrail
  ViewersMissNothing
CHECK_DEADLOCK FALSE
