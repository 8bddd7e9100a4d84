SPECIFICATION Spec
CONSTANTS
  Collections <- UpToThree
  Settings <- SomeSettings
INVARIANTS
  DistinctBestFirst
  LeftOutForBetter
  WidensOnlyForWant
CHECK_DEADLOCK FALSE
