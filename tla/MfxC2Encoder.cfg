SPECIFICATION Spec
CONSTANTS
  MaxWorks = 2
  Kinds = {"frame", "tuned", "eos", "empty"}
  CountMod = 8
  MaxConfigs = 1
  SendsHeader = TRUE
  MayFail = {"start", "work", "alloc", "sync", "header", "timeout"}
CHECK_DEADLOCK FALSE
INVARIANTS
  TypeOK
  EveryWorkInOnePlace
  FramesOutliveLocks
  HeaderFirst
