SPECIFICATION FairChatSpec
CONSTANTS
  s1 = s1
  s2 = s2
  Sessions = {s1, s2}
  Slots = 2
  MaxSends = 2
  MaxCrashes = 1
INVARIANTS
  SlotsAccounted
  NoIdleSlot
  PromptComplete
PROPERTIES
  TurnsAnswered
CHECK_DEADLOCK FALSE
