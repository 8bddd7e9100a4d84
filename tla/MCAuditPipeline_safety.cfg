SPECIFICATION Spec
CONSTANTS
  d1 = d1
  d2 = d2
  a1 = a1
  a2 = a2
  Docs = {d1, d2}
  Audits = {a1, a2}
  DocOf <- SharedDocument
  AdminDocs = {d2}
  FindingSets <- AllOutcomes
  Reranking = TRUE
  DbMayFail = TRUE
  MaxCrashes = 2
SYMMETRY AuditSymmetry
CONSTRAINT SmallCrowd
INVARIANTS
  ReportsHold
  NoStrandedDocument
  CleanedMeansGone
  IngestedBeforeRetrieval
  IInv
PROPERTIES
  StatusMovesForward
CHECK_DEADLOCK FALSE
