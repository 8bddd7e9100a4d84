SPECIFICATION DeletionSpec
CONSTANTS
  d1 = d1
  a1 = a1
  a2 = a2
  r1 = r1
  r2 = r2
  Docs = {d1}
  Audits = {a1, a2}
  DocOf <- TwoAudits
  AdminDocs = {}
  FindingSets <- Something
  Reranking = FALSE
  DbMayFail = TRUE
  MaxCrashes = 1
  Requests = {r1, r2}
SYMMETRY Symmetry
CONSTRAINT FewThings
INVARIANTS
  DeletionIsComplete
  RefusedOnlyForAudits
  ReportsKeepFiles
  RowsStayConsistent
  DeletionIsFinal
PROPERTY
  ImplementsDeletableLifecycle
CHECK_DEADLOCK FALSE
