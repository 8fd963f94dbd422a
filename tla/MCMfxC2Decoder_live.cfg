SPECIFICATION FairSpec
CONSTANTS
  MaxWorks = 3
  TimeStamp <- MCDistinct
  Kinds = {"frame", "frameEos", "part", "eos"}
  AsyncDepth = 1
  CountMod = 8
  MayFail = {"append", "init", "change"}
INVARIANTS
  StopLeavesNothing
  CountSeenIsRight
  EosIsLast
PROPERTIES
  CallsReturn
  EosComesBack
