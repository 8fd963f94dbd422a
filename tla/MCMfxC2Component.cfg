SPECIFICATION FairSpec
CONSTANTS
  t1 = t1
  t2 = t2
  r1 = r1
  Callers = {t1, t2}
  Reporters = {r1}
  MaxCalls = 3
  MaxReports = 2
  MayFail = {"limit", "DoStart", "DoStop", "Release"}
CHECK_DEADLOCK FALSE
INVARIANTS
  TypeOK
  StableIsSettled
  Exclusive
  QueryNeverFreed
PROPERTIES
  FollowsDiagram
  CallReturns
