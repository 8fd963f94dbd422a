SPECIFICATION FairSpec
CONSTANTS
  MaxWorks = 3
  Kinds = {"frame", "frameEos", "eos"}
  CountMod = 8
  MaxConfigs = 0
  SendsHeader = FALSE
  MayFail = {}
INVARIANTS
  StopLeavesNothing
  EachItsOwnInOrder
PROPERTY
  DrainBringsAllBack
