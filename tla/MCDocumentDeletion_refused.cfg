SPECIFICATION DeletionSpec
CONSTANTS
  d1 = d1
  a1 = a1
  a2 = a2
  r1 = r1
  r2 = r2
  Docs = {d1}
  Audits = {a1}
  DocOf <- OneAudit
  AdminDocs = {d1}
  FindingSets <- Something
  Reranking = FALSE
  DbMayFail = FALSE
  MaxCrashes = 0
  Requests = {r1}
INVARIANTS
  RefusedKeepsUpload
CHECK_DEADLOCK FALSE
