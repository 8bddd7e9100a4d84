SPECIFICATION FairSpec
CONSTANTS
  d1 = d1
  d2 = d2
  a1 = a1
  a2 = a2
  Docs = {d1}
  Audits = {a1}
  DocOf <- OneAudit
  AdminDocs = {}
  FindingSets <- NoFindings
  Reranking = FALSE
  DbMayFail = TRUE
  MaxCrashes = 0
PROPERTY
  SweptAfterRetention
CHECK_DEADLOCK FALSE
