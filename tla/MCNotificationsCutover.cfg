SPECIFICATION Spec
CONSTANTS
  EventSets <- ListsAndMilestones
  MaxBlockDiff = 2
  FinalPOA = 1
  MaxHead = 4
INVARIANTS EventsDelivered
CHECK_DEADLOCK FALSE
