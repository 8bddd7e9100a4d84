SPECIFICATION FairSpec
CONSTANTS
  t1 = t1
  t2 = t2
  t3 = t3
  Threads = {t1, t2, t3}
  MaxCalls = 2
INVARIANTS
  LoadedOnce
  ReadyCallsUseModel
PROPERTIES
  EveryCallEnds
CHECK_DEADLOCK FALSE
