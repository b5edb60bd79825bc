CONSTANTS
  Times <- MCTimes
  MaxPushes = 6
SPECIFICATION Spec
CHECK_DEADLOCK FALSE
INVARIANTS
  QueueOrder
  NothingLeaks
