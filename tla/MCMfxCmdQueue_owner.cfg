SPECIFICATION FairSpec
CONSTANTS
  c1 = c1
  c2 = c2
  w1 = w1
  w2 = w2
  Controllers = {c1}
  Waiters = {w1}
  MaxPushes = 3
  MaxNulls = 4
  StopUnstarted = FALSE
INVARIANT
  StopLeavesNothing
PROPERTIES
  QueuedIsTaken
  CallsReturn
