SPECIFICATION Spec
CONSTANTS
  d1 = d1
  Deliveries = {d1}
  MaxSends = 3
  MaxCrashes = 1
INVARIANTS
  CommentKept
  OneFirstSend
PROPERTIES
  HandledAtLeastOnce
CHECK_DEADLOCK FALSE
