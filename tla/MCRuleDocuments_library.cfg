SPECIFICATION FairSpec
CONSTANTS
  r1 = r1
  m1 = m1
  k1 = k1
  k2 = k2
  p1 = p1
  p2 = p2
  RuleDocs = {r1}
  Manual = {m1}
  Deletions = {k1, k2}
  TargetOf <- SameDocument
  Processes = {p1, p2}
  DbMayFail = TRUE
  MaxCrashes = 1
INVARIANTS
  RowsAreBacked
  AnswersHold
  UploadUndisturbed
  IndexingHasAReason
PROPERTIES
  ImplementsRegistry
  EveryRequestEnds
CHECK_DEADLOCK FALSE
