SPECIFICATION Spec
CONSTANTS
  MaxWorks = 2
  Kinds = {"frame"}
  CountMod = 8
  MaxConfigs = 1
  SendsHeader = TRUE
  MayFail = {}
CHECK_DEADLOCK FALSE
INVARIANT
  PendingIsThere
