SPECIFICATION Spec
CONSTANTS
  MaxWorks = 3
  TimeStamp <- MCTwins
  Kinds = {"frame", "eos", "invalid"}
  AsyncDepth = 2
  CountMod = 8
  MayFail = {"start", "append", "alloc", "device", "change", "timeout"}
CHECK_DEADLOCK FALSE
INVARIANTS
  TypeOK
  EveryWorkInOnePlace
  FlushSeesAll
PROPERTY
  QuietWhenStopped
