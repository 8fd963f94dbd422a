SPECIFICATION Spec
CONSTANTS
  MaxWorks = 2
  TimeStamp <- MCDistinct
  Kinds = {"frame"}
  AsyncDepth = 1
  CountMod = 8
  MayFail = {"start"}
CHECK_DEADLOCK FALSE
INVARIANT
  StopLeavesNothing
