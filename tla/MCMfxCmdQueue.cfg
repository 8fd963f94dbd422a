SPECIFICATION Spec
CONSTANTS
  c1 = c1
  c2 = c2
  w1 = w1
  w2 = w2
  Controllers = {c1, c2}
  Waiters = {w1}
  MaxPushes = 3
  MaxNulls = 3
  StopUnstarted = TRUE
INVARIANTS
  TypeOK
  NoLostWakeup
  ExactlyOnceInOrder
  EmptyMeansTaken
PROPERTY
  ImplementsQueue
