SPECIFICATION FairSpec
CONSTANTS
  MaxSends = 2
  MaxEvents = 1
  MaxGets = 2
  MaxFaults = 1
INVARIANTS
  OneRunFromOnePage
  EventsInOrder
PROPERTIES
  PageCatchesUp
CHECK_DEADLOCK FALSE
