SPECIFICATION FairSpec
CONSTANTS
  d1 = d1
  d2 = d2
  a1 = a1
  a2 = a2
  Docs = {d1, d2}
  Audits = {a1}
  DocOf <- OneAudit
  AdminDocs = {d2}
  FindingSets <- TwoOutcomes
  Reranking = FALSE
  DbMayFail = TRUE
  MaxCrashes = 1
PROPERTIES
  ImplementsLifecycle
  EveryAuditSettles
  ExpiredForGood
CHECK_DEADLOCK FALSE
