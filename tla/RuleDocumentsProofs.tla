------------------------ MODULE RuleDocumentsProofs ------------------------
(***************************************************************************)
(* The safety of the rule library, for any number of documents, rules,     *)
(* deletions and processes, with and without database errors, for any      *)
(* number of crashes; and that it implements RuleRegistry.                 *)
(***************************************************************************)
EXTENDS RuleDocuments, TLAPS

\* What a job of each kind can be at.
Kinds ==
  /\ \A r \in RuleDocs :
       step[r] \in {"new", "ok", "refused", "unreadable", "unindexed", "broken", "lost"}
                   \cup UploadSteps
  /\ \A m \in Manual : step[m] \in {"new", "ok", "broken", "lost"} \cup ManualSteps

\* A job has a process from its acceptance on, and an upload under way holds
\* the event loop of its own.
Hosted ==
  /\ \A j \in Jobs : step[j] = "new" <=> host[j] = NoHost
  /\ \A r \in RuleDocs : step[r] \in UploadSteps => loop[host[r]] = r

\* The row and the stores, as far as the upload of r has come.
UploadInOrder(r) ==
  /\ step[r] \in {"new", "insert"} => status[r] = "absent"
  /\ step[r] = "insert" => r \in objects
  /\ step[r] \in {"parse", "index", "mark_failed", "register"} =>
       status[r] \in {"indexing", "absent"}
  /\ step[r] \in {"register", "reload", "ok"} => r \in vectors
  /\ step[r] \in {"reload", "ok"} => status[r] \in {"indexed", "absent"}
  /\ step[r] \in {"unreadable", "unindexed"} => status[r] \in {"failed", "absent"}
  /\ step[r] = "refused" => status[r] = "absent" \/ DbMayFail

\* A deletion begins when the row has been committed, on a process whose event
\* loop the upload does not hold, and takes the object before any row.
DeletionInOrder(k) ==
  LET r == TargetOf[k] IN
  /\ step[k] # "new" => step[r] \notin {"new", "insert"}
  /\ step[k] # "new" /\ step[r] \in UploadSteps => host[k] # host[r]
  /\ step[k] \in {"delete_rules", "delete_row", "deleted"} => r \notin objects
  /\ step[k] = "deleted" => status[r] = "absent"

\* A row that is not there was never seen by a deletion, or was deleted.
AbsentForAReason(r) ==
  status[r] = "absent" =>
    \/ Withdrawn(r)
    \/ /\ step[r] \in {"new", "insert", "refused", "lost"}
       /\ \A k \in Deletions : TargetOf[k] = r => step[k] = "new"

ManualInOrder(m) ==
  /\ step[m] \in {"index_manual", "ok"} => m \in listed
  /\ step[m] = "ok" => m \in vectors

RowBacked(r) ==
  /\ ListedIsIndexed(r)
  /\ Has(r) => r \in objects \/ ObjectTaken(r)

IInv ==
  /\ TypeOK /\ Kinds /\ Hosted
  /\ \A r \in RuleDocs : UploadInOrder(r)
  /\ \A k \in Deletions : DeletionInOrder(k)
  /\ \A r \in RuleDocs : AbsentForAReason(r)
  /\ \A m \in Manual : ManualInOrder(m)
  /\ \A r \in RuleDocs : RowBacked(r)
  /\ IndexingHasAReason
-----------------------------------------------------------------------------
\* An upload is taken by a process whose event loop is free.
LEMMA BeginUploadInv ==
  ASSUME IInv, NEW r \in RuleDocs, NEW p \in Processes, BeginUpload(r, p)
  PROVE  IInv'
<1>1. TypeOK'
  BY DEF IInv, TypeOK, BeginUpload, Goto, Accept, rows, Jobs, Steps, UploadSteps, Answers, Ends
<1>2. Kinds'
  BY JobsAssumption DEF IInv, Kinds, TypeOK, BeginUpload, Goto, Jobs, UploadSteps
<1>3. Hosted'
  BY NamesAssumption DEF IInv, Hosted, TypeOK, BeginUpload, Goto, Accept, Jobs, UploadSteps
<1>4. ASSUME NEW q \in RuleDocs PROVE UploadInOrder(q)'
  BY DEF IInv, UploadInOrder, TypeOK, BeginUpload, Goto, Accept, rows, Jobs
<1>5. ASSUME NEW d \in Deletions PROVE DeletionInOrder(d)'
  BY JobsAssumption, TargetOfAssumption
  DEF IInv, DeletionInOrder, TypeOK, BeginUpload, Goto, Accept, rows, Jobs
<1>6. ASSUME NEW q \in RuleDocs PROVE AbsentForAReason(q)'
  BY JobsAssumption DEF IInv, AbsentForAReason, Withdrawn, TypeOK, BeginUpload, Goto, rows, Jobs
<1>7. ASSUME NEW x \in Manual PROVE ManualInOrder(x)'
  BY DEF IInv, ManualInOrder, TypeOK, BeginUpload, Goto, rows, Jobs
<1>8. ASSUME NEW q \in RuleDocs PROVE RowBacked(q)'
  BY DEF IInv, RowBacked, ListedIsIndexed, ObjectTaken, Has, TypeOK, BeginUpload, Goto,
         Accept, rows, Jobs
<1>9. IndexingHasAReason'
  BY DEF IInv, IndexingHasAReason, UploadInOrder, TypeOK, BeginUpload, Goto, Accept, rows, Jobs
<1>10. QED BY <1>1, <1>2, <1>3, <1>4, <1>5, <1>6, <1>7, <1>8, <1>9 DEF IInv

\* The row of an upload is committed, or the request is refused.
LEMMA InsertRowInv ==
  ASSUME IInv, NEW r \in RuleDocs, InsertRow(r)
  PROVE  IInv'
<1>1. TypeOK'
  BY DEF IInv, TypeOK, InsertRow, Goto, Continue, Return, stores, Steps, UploadSteps,
         Answers, Ends, DocStatuses
<1>2. Kinds'
  BY DEF IInv, Kinds, TypeOK, InsertRow, Goto, Continue, Return, Jobs, UploadSteps, ManualSteps
<1>3. Hosted'
  BY DEF IInv, Hosted, TypeOK, InsertRow, Goto, Continue, Return, Jobs, UploadSteps
<1>4. ASSUME NEW q \in RuleDocs PROVE UploadInOrder(q)'
  BY DEF IInv, UploadInOrder, TypeOK, InsertRow, Goto, Continue, Return, stores, Jobs
<1>5. ASSUME NEW d \in Deletions PROVE DeletionInOrder(d)'
  BY TargetOfAssumption
  DEF IInv, DeletionInOrder, TypeOK, InsertRow, Goto, Continue, Return, stores, Jobs
<1>6. ASSUME NEW q \in RuleDocs PROVE AbsentForAReason(q)'
  BY DEF IInv, AbsentForAReason, Withdrawn, TypeOK, InsertRow, Goto, Continue, Return, Jobs
<1>7. ASSUME NEW x \in Manual PROVE ManualInOrder(x)'
  BY DEF IInv, ManualInOrder, TypeOK, InsertRow, Goto, Continue, Return, stores, Jobs
<1>8. ASSUME NEW q \in RuleDocs PROVE RowBacked(q)'
  BY DEF IInv, RowBacked, ListedIsIndexed, ObjectTaken, Has, UploadInOrder, TypeOK,
         InsertRow, Goto, Continue, Return, stores, Jobs
<1>9. IndexingHasAReason'
  BY DEF IInv, IndexingHasAReason, TypeOK, InsertRow, Goto, Continue, Return, Jobs, UploadSteps
<1>10. QED BY <1>1, <1>2, <1>3, <1>4, <1>5, <1>6, <1>7, <1>8, <1>9 DEF IInv

\* The text of an upload is read, or the row stays as it is.
LEMMA ParseInv ==
  ASSUME IInv, NEW r \in RuleDocs, Parse(r)
  PROVE  IInv'
<1>1. TypeOK'
  BY DEF IInv, TypeOK, Parse, Goto, Continue, Return, stores, Steps, UploadSteps, Answers,
         Ends, DocStatuses
<1>2. Kinds'
  BY DEF IInv, Kinds, TypeOK, Parse, Goto, Continue, Return, Jobs, UploadSteps, ManualSteps
<1>3. Hosted'
  BY DEF IInv, Hosted, TypeOK, Parse, Goto, Continue, Return, Jobs, UploadSteps
<1>4. ASSUME NEW q \in RuleDocs PROVE UploadInOrder(q)'
  BY DEF IInv, UploadInOrder, TypeOK, Parse, Goto, Continue, Return, stores, Jobs
<1>5. ASSUME NEW d \in Deletions PROVE DeletionInOrder(d)'
  BY TargetOfAssumption
  DEF IInv, DeletionInOrder, TypeOK, Has, Kinds, Parse, Goto, Continue, Return, stores,
      Jobs
<1>6. ASSUME NEW q \in RuleDocs PROVE AbsentForAReason(q)'
  BY DEF IInv, AbsentForAReason, Withdrawn, TypeOK, Parse, Goto, Continue, Return, Jobs
<1>7. ASSUME NEW x \in Manual PROVE ManualInOrder(x)'
  BY DEF IInv, ManualInOrder, TypeOK, Parse, Goto, Continue, Return, stores, Jobs
<1>8. ASSUME NEW q \in RuleDocs PROVE RowBacked(q)'
  BY DEF IInv, RowBacked, ListedIsIndexed, ObjectTaken, Has, UploadInOrder, TypeOK, Parse,
         Goto, Continue, Return, stores, Jobs
<1>9. IndexingHasAReason'
  BY DEF IInv, IndexingHasAReason, TypeOK, Parse, Goto, Continue, Return, Jobs, UploadSteps
<1>10. QED BY <1>1, <1>2, <1>3, <1>4, <1>5, <1>6, <1>7, <1>8, <1>9 DEF IInv

\* The vectors of an upload are stored, unless the call raises.
LEMMA IndexInv ==
  ASSUME IInv, NEW r \in RuleDocs, Index(r)
  PROVE  IInv'
<1>1. TypeOK'
  BY DEF IInv, TypeOK, Index, Goto, Continue, Upsert, UpsertRaises, rows, Steps, UploadSteps
<1>2. Kinds'
  BY DEF IInv, Kinds, TypeOK, Index, Goto, Continue, Jobs, UploadSteps, ManualSteps
<1>3. Hosted'
  BY DEF IInv, Hosted, TypeOK, Index, Goto, Continue, Jobs, UploadSteps
<1>4. ASSUME NEW q \in RuleDocs PROVE UploadInOrder(q)'
  BY DEF IInv, UploadInOrder, TypeOK, Index, Goto, Continue, Upsert, UpsertRaises, rows, Jobs
<1>5. ASSUME NEW d \in Deletions PROVE DeletionInOrder(d)'
  BY TargetOfAssumption
  DEF IInv, DeletionInOrder, TypeOK, Kinds, Index, Goto, Continue, rows, Jobs
<1>6. ASSUME NEW q \in RuleDocs PROVE AbsentForAReason(q)'
  BY DEF IInv, AbsentForAReason, Withdrawn, TypeOK, Index, Goto, Continue, rows, Jobs
<1>7. ASSUME NEW x \in Manual PROVE ManualInOrder(x)'
  BY DEF IInv, ManualInOrder, TypeOK, Index, Goto, Continue, Upsert, UpsertRaises, rows, Jobs
<1>8. ASSUME NEW q \in RuleDocs PROVE RowBacked(q)'
  BY DEF IInv, RowBacked, ListedIsIndexed, ObjectTaken, Has, TypeOK, Index, Goto, Continue,
         Upsert, UpsertRaises, rows, Jobs
<1>9. IndexingHasAReason'
  BY DEF IInv, IndexingHasAReason, TypeOK, Index, Goto, Continue, rows, Jobs, UploadSteps
<1>10. QED BY <1>1, <1>2, <1>3, <1>4, <1>5, <1>6, <1>7, <1>8, <1>9 DEF IInv

\* The handler of an upload marks its row as failed.
LEMMA MarkFailedInv ==
  ASSUME IInv, NEW r \in RuleDocs, MarkFailed(r)
  PROVE  IInv'
<1>1. TypeOK'
  BY DEF IInv, TypeOK, MarkFailed, Goto, Return, stores, Steps, Answers, Ends, DocStatuses
<1>2. Kinds'
  BY DEF IInv, Kinds, TypeOK, MarkFailed, Goto, Return, Jobs, ManualSteps
<1>3. Hosted'
  BY DEF IInv, Hosted, TypeOK, MarkFailed, Goto, Return, Jobs, UploadSteps
<1>4. ASSUME NEW q \in RuleDocs PROVE UploadInOrder(q)'
  BY DEF IInv, UploadInOrder, TypeOK, MarkFailed, Goto, Return, stores, Jobs
<1>5. ASSUME NEW d \in Deletions PROVE DeletionInOrder(d)'
  BY TargetOfAssumption
  DEF IInv, DeletionInOrder, TypeOK, Has, Kinds, MarkFailed, Goto, Return, stores, Jobs
<1>6. ASSUME NEW q \in RuleDocs PROVE AbsentForAReason(q)'
  BY DEF IInv, AbsentForAReason, Withdrawn, TypeOK, MarkFailed, Goto, Return, Jobs
<1>7. ASSUME NEW x \in Manual PROVE ManualInOrder(x)'
  BY DEF IInv, ManualInOrder, TypeOK, MarkFailed, Goto, Return, stores, Jobs
<1>8. ASSUME NEW q \in RuleDocs PROVE RowBacked(q)'
  BY DEF IInv, RowBacked, ListedIsIndexed, ObjectTaken, Has, UploadInOrder, TypeOK,
         MarkFailed, Goto, Return, stores, Jobs
<1>9. IndexingHasAReason'
  BY DEF IInv, IndexingHasAReason, TypeOK, MarkFailed, Goto, Return, Jobs
<1>10. QED BY <1>1, <1>2, <1>3, <1>4, <1>5, <1>6, <1>7, <1>8, <1>9 DEF IInv

\* The rule of an upload is listed and its row becomes indexed.
LEMMA RegisterInv ==
  ASSUME IInv, NEW r \in RuleDocs, Register(r)
  PROVE  IInv'
<1>1. TypeOK'
  BY DEF IInv, TypeOK, Register, Goto, Continue, Return, rows, stores, Steps, UploadSteps,
         Ends, DocStatuses
<1>2. Kinds'
  BY DEF IInv, Kinds, TypeOK, Register, Goto, Continue, Return, Jobs, UploadSteps, ManualSteps
<1>3. Hosted'
  BY DEF IInv, Hosted, TypeOK, Register, Goto, Continue, Return, Jobs, UploadSteps
<1>4. ASSUME NEW q \in RuleDocs PROVE UploadInOrder(q)'
  BY DEF IInv, UploadInOrder, TypeOK, Register, Goto, Continue, Return, rows, stores, Jobs
<1>5. ASSUME NEW d \in Deletions PROVE DeletionInOrder(d)'
  BY TargetOfAssumption
  DEF IInv, DeletionInOrder, TypeOK, Has, Kinds, Register, Goto, Continue, Return, rows,
      stores, Jobs
<1>6. ASSUME NEW q \in RuleDocs PROVE AbsentForAReason(q)'
  BY DEF IInv, AbsentForAReason, Withdrawn, TypeOK, Register, Goto, Continue, Return, rows, Jobs
<1>7. ASSUME NEW x \in Manual PROVE ManualInOrder(x)'
  BY DEF IInv, ManualInOrder, TypeOK, Register, Goto, Continue, Return, rows, stores, Jobs
<1>8. ASSUME NEW q \in RuleDocs PROVE RowBacked(q)'
  BY DEF IInv, RowBacked, ListedIsIndexed, ObjectTaken, Has, UploadInOrder, TypeOK,
         Register, Goto, Continue, Return, rows, stores, Jobs
<1>9. IndexingHasAReason'
  BY DEF IInv, IndexingHasAReason, TypeOK, Register, Goto, Continue, Return, rows, Jobs
<1>10. QED BY <1>1, <1>2, <1>3, <1>4, <1>5, <1>6, <1>7, <1>8, <1>9 DEF IInv

\* The upload reads its row back and gives up the event loop.
LEMMA ReloadInv ==
  ASSUME IInv, NEW r \in RuleDocs, Reload(r)
  PROVE  IInv'
<1>1. TypeOK'
  BY DEF IInv, TypeOK, Reload, Goto, Return, rows, stores, Steps, Answers, Ends
<1>2. Kinds'
  BY DEF IInv, Kinds, TypeOK, Reload, Goto, Return, Jobs
<1>3. Hosted'
  BY DEF IInv, Hosted, TypeOK, Reload, Goto, Return, Jobs, UploadSteps
<1>4. ASSUME NEW q \in RuleDocs PROVE UploadInOrder(q)'
  BY DEF IInv, UploadInOrder, TypeOK, Reload, Goto, Return, rows, stores, Jobs
<1>5. ASSUME NEW d \in Deletions PROVE DeletionInOrder(d)'
  BY TargetOfAssumption
  DEF IInv, DeletionInOrder, TypeOK, Kinds, Reload, Goto, Return, rows, stores, Jobs
<1>6. ASSUME NEW q \in RuleDocs PROVE AbsentForAReason(q)'
  BY DEF IInv, AbsentForAReason, Withdrawn, TypeOK, Reload, Goto, Return, rows, Jobs
<1>7. ASSUME NEW x \in Manual PROVE ManualInOrder(x)'
  BY JobsAssumption DEF IInv, ManualInOrder, TypeOK, Reload, Goto, Return, rows, stores, Jobs
<1>8. ASSUME NEW q \in RuleDocs PROVE RowBacked(q)'
  BY DEF IInv, RowBacked, ListedIsIndexed, ObjectTaken, Has, TypeOK, Reload, Goto, Return,
         rows, stores, Jobs
<1>9. IndexingHasAReason'
  BY DEF IInv, IndexingHasAReason, TypeOK, Reload, Goto, Return, rows, Jobs
<1>10. QED BY <1>1, <1>2, <1>3, <1>4, <1>5, <1>6, <1>7, <1>8, <1>9 DEF IInv

\* A rule entered by hand is taken by a process.
LEMMA BeginManualInv ==
  ASSUME IInv, NEW m \in Manual, NEW p \in Processes, BeginManual(m, p)
  PROVE  IInv'
<1>1. TypeOK'
  BY DEF IInv, TypeOK, BeginManual, Goto, Accept, rows, stores, Steps, ManualSteps
<1>2. Kinds'
  BY JobsAssumption DEF IInv, Kinds, BeginManual, Goto, ManualSteps
<1>3. Hosted'
  BY NamesAssumption DEF IInv, Hosted, TypeOK, BeginManual, Goto, Accept, UploadSteps
<1>4. ASSUME NEW q \in RuleDocs PROVE UploadInOrder(q)'
  BY DEF IInv, UploadInOrder, BeginManual, Goto, rows, stores
<1>5. ASSUME NEW d \in Deletions PROVE DeletionInOrder(d)'
  BY JobsAssumption DEF IInv, DeletionInOrder, BeginManual, Goto, Accept, rows, stores
<1>6. ASSUME NEW q \in RuleDocs PROVE AbsentForAReason(q)'
  BY JobsAssumption DEF IInv, AbsentForAReason, Withdrawn, BeginManual, Goto, rows
<1>7. ASSUME NEW x \in Manual PROVE ManualInOrder(x)'
  BY DEF IInv, ManualInOrder, BeginManual, Goto, rows, stores
<1>8. ASSUME NEW q \in RuleDocs PROVE RowBacked(q)'
  BY DEF IInv, RowBacked, ListedIsIndexed, ObjectTaken, Has, BeginManual, Goto, Accept,
         rows, stores
<1>9. IndexingHasAReason'
  BY DEF IInv, IndexingHasAReason, UploadInOrder, BeginManual, Goto, Accept, rows
<1>10. QED BY <1>1, <1>2, <1>3, <1>4, <1>5, <1>6, <1>7, <1>8, <1>9 DEF IInv

\* A rule entered by hand is committed.
LEMMA InsertManualInv ==
  ASSUME IInv, NEW m \in Manual, InsertManual(m)
  PROVE  IInv'
<1>1. TypeOK'
  BY DEF IInv, TypeOK, InsertManual, Goto, stores, Steps, ManualSteps, Ends
<1>2. Kinds'
  BY DEF IInv, Kinds, TypeOK, InsertManual, Goto, Jobs, UploadSteps, ManualSteps
<1>3. Hosted'
  BY DEF IInv, Hosted, TypeOK, InsertManual, Goto, Jobs, UploadSteps
<1>4. ASSUME NEW q \in RuleDocs PROVE UploadInOrder(q)'
  BY DEF IInv, UploadInOrder, TypeOK, InsertManual, Goto, stores, Jobs
<1>5. ASSUME NEW d \in Deletions PROVE DeletionInOrder(d)'
  BY TargetOfAssumption
  DEF IInv, DeletionInOrder, TypeOK, Kinds, InsertManual, Goto, stores, Jobs
<1>6. ASSUME NEW q \in RuleDocs PROVE AbsentForAReason(q)'
  BY DEF IInv, AbsentForAReason, Withdrawn, TypeOK, InsertManual, Goto, Jobs
<1>7. ASSUME NEW x \in Manual PROVE ManualInOrder(x)'
  BY DEF IInv, ManualInOrder, TypeOK, InsertManual, Goto, stores, Jobs
<1>8. ASSUME NEW q \in RuleDocs PROVE RowBacked(q)'
  BY JobsAssumption
  DEF IInv, RowBacked, ListedIsIndexed, ObjectTaken, Has, TypeOK, InsertManual, Goto,
      stores, Jobs
<1>9. IndexingHasAReason'
  BY DEF IInv, IndexingHasAReason, TypeOK, InsertManual, Goto, Jobs, UploadSteps
<1>10. QED BY <1>1, <1>2, <1>3, <1>4, <1>5, <1>6, <1>7, <1>8, <1>9 DEF IInv

\* A rule entered by hand is indexed after its commit.
LEMMA IndexManualInv ==
  ASSUME IInv, NEW m \in Manual, IndexManual(m)
  PROVE  IInv'
<1>1. TypeOK'
  BY DEF IInv, TypeOK, IndexManual, Goto, Upsert, UpsertRaises, rows, Steps, Answers, Ends
<1>2. Kinds'
  BY DEF IInv, Kinds, TypeOK, IndexManual, Goto, Jobs
<1>3. Hosted'
  BY DEF IInv, Hosted, TypeOK, IndexManual, Goto, Jobs, UploadSteps
<1>4. ASSUME NEW q \in RuleDocs PROVE UploadInOrder(q)'
  BY JobsAssumption
  DEF IInv, UploadInOrder, TypeOK, IndexManual, Goto, Upsert, UpsertRaises, rows, Jobs
<1>5. ASSUME NEW d \in Deletions PROVE DeletionInOrder(d)'
  BY TargetOfAssumption DEF IInv, DeletionInOrder, TypeOK, Kinds, IndexManual, Goto, rows, Jobs
<1>6. ASSUME NEW q \in RuleDocs PROVE AbsentForAReason(q)'
  BY DEF IInv, AbsentForAReason, Withdrawn, TypeOK, IndexManual, Goto, rows, Jobs
<1>7. ASSUME NEW x \in Manual PROVE ManualInOrder(x)'
  BY DEF IInv, ManualInOrder, TypeOK, IndexManual, Goto, Upsert, UpsertRaises, rows, Jobs
<1>8. ASSUME NEW q \in RuleDocs PROVE RowBacked(q)'
  BY DEF IInv, RowBacked, ListedIsIndexed, ObjectTaken, Has, TypeOK, IndexManual, Goto,
         Upsert, UpsertRaises, rows, Jobs
<1>9. IndexingHasAReason'
  BY DEF IInv, IndexingHasAReason, TypeOK, IndexManual, Goto, rows, Jobs, UploadSteps
<1>10. QED BY <1>1, <1>2, <1>3, <1>4, <1>5, <1>6, <1>7, <1>8, <1>9 DEF IInv

\* A deletion is taken once the row has been committed.
LEMMA BeginDeletionInv ==
  ASSUME IInv, NEW k \in Deletions, NEW p \in Processes, BeginDeletion(k, p)
  PROVE  IInv'
<1>1. TypeOK'
  BY DEF IInv, TypeOK, BeginDeletion, Goto, Accept, rows, stores, Steps, DeletionSteps
<1>2. Kinds'
  BY JobsAssumption DEF IInv, Kinds, BeginDeletion, Goto
<1>3. Hosted'
  BY NamesAssumption DEF IInv, Hosted, TypeOK, BeginDeletion, Goto, Accept, UploadSteps
<1>4. ASSUME NEW q \in RuleDocs PROVE UploadInOrder(q)'
  BY DEF IInv, UploadInOrder, BeginDeletion, Goto, rows, stores
<1>5. ASSUME NEW d \in Deletions PROVE DeletionInOrder(d)'
  BY TargetOfAssumption, NamesAssumption
  DEF IInv, DeletionInOrder, UploadInOrder, Hosted, TypeOK, Has, BeginDeletion, Goto,
      Accept, rows, stores
<1>6. ASSUME NEW q \in RuleDocs PROVE AbsentForAReason(q)'
  BY JobsAssumption DEF IInv, AbsentForAReason, Withdrawn, Has, BeginDeletion, Goto, rows
<1>7. ASSUME NEW x \in Manual PROVE ManualInOrder(x)'
  BY DEF IInv, ManualInOrder, BeginDeletion, Goto, rows, stores
<1>8. ASSUME NEW q \in RuleDocs PROVE RowBacked(q)'
  BY DEF IInv, RowBacked, ListedIsIndexed, ObjectTaken, Has, BeginDeletion, Goto, Accept,
         rows, stores
<1>9. IndexingHasAReason'
  BY DEF IInv, IndexingHasAReason, UploadInOrder, BeginDeletion, Goto, Accept, rows
<1>10. QED BY <1>1, <1>2, <1>3, <1>4, <1>5, <1>6, <1>7, <1>8, <1>9 DEF IInv

\* A deletion looks for the row.
LEMMA LookupInv ==
  ASSUME IInv, NEW k \in Deletions, Lookup(k)
  PROVE  IInv'
<1>1. TypeOK'
  BY DEF IInv, TypeOK, Lookup, Goto, rows, stores, Steps, DeletionSteps, Answers, Ends
<1>2. Kinds'
  BY DEF IInv, Kinds, TypeOK, Lookup, Goto, Jobs, UploadSteps, ManualSteps
<1>3. Hosted'
  BY DEF IInv, Hosted, TypeOK, Lookup, Goto, Jobs, UploadSteps
<1>4. ASSUME NEW q \in RuleDocs PROVE UploadInOrder(q)'
  BY DEF IInv, UploadInOrder, TypeOK, Lookup, Goto, rows, stores, Jobs
<1>5. ASSUME NEW d \in Deletions PROVE DeletionInOrder(d)'
  BY TargetOfAssumption
  DEF IInv, DeletionInOrder, TypeOK, Kinds, Lookup, Goto, rows, stores, Jobs
<1>6. ASSUME NEW q \in RuleDocs PROVE AbsentForAReason(q)'
  BY DEF IInv, AbsentForAReason, Withdrawn, TypeOK, Lookup, Goto, rows, Jobs
<1>7. ASSUME NEW x \in Manual PROVE ManualInOrder(x)'
  BY DEF IInv, ManualInOrder, TypeOK, Lookup, Goto, rows, stores, Jobs
<1>8. ASSUME NEW q \in RuleDocs PROVE RowBacked(q)'
  BY DEF IInv, RowBacked, ListedIsIndexed, ObjectTaken, Has, TypeOK, Lookup, Goto, rows,
         stores, Jobs
<1>9. IndexingHasAReason'
  BY DEF IInv, IndexingHasAReason, TypeOK, Lookup, Goto, rows, Jobs, UploadSteps
<1>10. QED BY <1>1, <1>2, <1>3, <1>4, <1>5, <1>6, <1>7, <1>8, <1>9 DEF IInv

\* A deletion removes the object before any row.
LEMMA DeleteObjectInv ==
  ASSUME IInv, NEW k \in Deletions, DeleteObject(k)
  PROVE  IInv'
<1>1. TypeOK'
  BY DEF IInv, TypeOK, DeleteObject, Goto, rows, Steps, DeletionSteps, Ends
<1>2. Kinds'
  BY DEF IInv, Kinds, TypeOK, DeleteObject, Goto, Jobs, UploadSteps, ManualSteps
<1>3. Hosted'
  BY DEF IInv, Hosted, TypeOK, DeleteObject, Goto, Jobs, UploadSteps
<1>4. ASSUME NEW q \in RuleDocs PROVE UploadInOrder(q)'
  BY DEF IInv, UploadInOrder, DeletionInOrder, TypeOK, DeleteObject, Goto, rows, Jobs
<1>5. ASSUME NEW d \in Deletions PROVE DeletionInOrder(d)'
  BY TargetOfAssumption DEF IInv, DeletionInOrder, TypeOK, Kinds, DeleteObject, Goto, rows, Jobs
<1>6. ASSUME NEW q \in RuleDocs PROVE AbsentForAReason(q)'
  BY DEF IInv, AbsentForAReason, Withdrawn, TypeOK, DeleteObject, Goto, rows, Jobs
<1>7. ASSUME NEW x \in Manual PROVE ManualInOrder(x)'
  BY DEF IInv, ManualInOrder, TypeOK, DeleteObject, Goto, rows, Jobs
<1>8. ASSUME NEW q \in RuleDocs PROVE RowBacked(q)'
  BY DEF IInv, RowBacked, ListedIsIndexed, ObjectTaken, Has, TypeOK, DeleteObject, Goto,
         rows, Jobs
<1>9. IndexingHasAReason'
  BY DEF IInv, IndexingHasAReason, TypeOK, DeleteObject, Goto, rows, Jobs, UploadSteps
<1>10. QED BY <1>1, <1>2, <1>3, <1>4, <1>5, <1>6, <1>7, <1>8, <1>9 DEF IInv

\* A deletion deletes the listed rule, or waits for another one.
LEMMA DeleteRulesInv ==
  ASSUME IInv, NEW k \in Deletions, DeleteRules(k)
  PROVE  IInv'
<1>1. TypeOK'
  BY DEF IInv, TypeOK, DeleteRules, Goto, rows, stores, Steps, DeletionSteps, Ends
<1>2. Kinds'
  BY DEF IInv, Kinds, TypeOK, DeleteRules, Goto, Jobs, UploadSteps, ManualSteps
<1>3. Hosted'
  BY DEF IInv, Hosted, TypeOK, DeleteRules, Goto, Jobs, UploadSteps
<1>4. ASSUME NEW q \in RuleDocs PROVE UploadInOrder(q)'
  BY DEF IInv, UploadInOrder, TypeOK, DeleteRules, Goto, rows, stores, Jobs
<1>5. ASSUME NEW d \in Deletions PROVE DeletionInOrder(d)'
  BY TargetOfAssumption
  DEF IInv, DeletionInOrder, TypeOK, Kinds, DeleteRules, Goto, rows, stores, Jobs
<1>6. ASSUME NEW q \in RuleDocs PROVE AbsentForAReason(q)'
  BY DEF IInv, AbsentForAReason, Withdrawn, TypeOK, DeleteRules, Goto, rows, Jobs
<1>7. ASSUME NEW x \in Manual PROVE ManualInOrder(x)'
  BY DEF IInv, ManualInOrder, TypeOK, DeleteRules, Goto, rows, stores, Jobs
<1>8. ASSUME NEW q \in RuleDocs PROVE RowBacked(q)'
  BY DEF IInv, RowBacked, ListedIsIndexed, ObjectTaken, Has, TypeOK, DeleteRules, Goto,
         rows, stores, Jobs
<1>9. IndexingHasAReason'
  BY DEF IInv, IndexingHasAReason, TypeOK, DeleteRules, Goto, rows, Jobs, UploadSteps
<1>10. QED BY <1>1, <1>2, <1>3, <1>4, <1>5, <1>6, <1>7, <1>8, <1>9 DEF IInv

\* A deletion commits, or fails on a rule committed since.
LEMMA DeleteRowInv ==
  ASSUME IInv, NEW k \in Deletions, DeleteRow(k)
  PROVE  IInv'
<1>1. TypeOK'
  BY DEF IInv, TypeOK, DeleteRow, Goto, rows, stores, Steps, Answers, Ends, DocStatuses
<1>2. Kinds'
  BY DEF IInv, Kinds, TypeOK, DeleteRow, Goto, Jobs, UploadSteps, ManualSteps
<1>3. Hosted'
  BY DEF IInv, Hosted, TypeOK, DeleteRow, Goto, Jobs, UploadSteps
<1>4. ASSUME NEW q \in RuleDocs PROVE UploadInOrder(q)'
  BY DEF IInv, UploadInOrder, TypeOK, DeleteRow, Goto, rows, stores, Jobs
<1>5. ASSUME NEW d \in Deletions PROVE DeletionInOrder(d)'
  BY TargetOfAssumption
  DEF IInv, DeletionInOrder, TypeOK, Kinds, DeleteRow, Goto, rows, stores, Jobs
<1>6. ASSUME NEW q \in RuleDocs PROVE AbsentForAReason(q)'
  BY DEF IInv, AbsentForAReason, Withdrawn, TypeOK, DeleteRow, Goto, rows, Jobs
<1>7. ASSUME NEW x \in Manual PROVE ManualInOrder(x)'
  BY JobsAssumption, TargetOfAssumption
  DEF IInv, ManualInOrder, TypeOK, DeleteRow, Goto, rows, stores, Jobs
<1>8. ASSUME NEW q \in RuleDocs PROVE RowBacked(q)'
  BY DEF IInv, RowBacked, ListedIsIndexed, ObjectTaken, Has, TypeOK, DeleteRow, Goto, rows,
         stores, Jobs
<1>9. IndexingHasAReason'
  BY DEF IInv, IndexingHasAReason, TypeOK, DeleteRow, Goto, rows, Jobs, UploadSteps
<1>10. QED BY <1>1, <1>2, <1>3, <1>4, <1>5, <1>6, <1>7, <1>8, <1>9 DEF IInv

\* The end of a process cuts its jobs off.
LEMMA CrashInv ==
  ASSUME IInv, NEW p \in Processes, Crash(p)
  PROVE  IInv'
<1>1. TypeOK'
  BY MaxCrashesAssumption DEF IInv, TypeOK, Crash, rows, stores, Steps, Ends
<1>2. Kinds'
  BY DEF IInv, Kinds, Crash, Jobs
<1>3. Hosted'
  BY NamesAssumption DEF IInv, Hosted, Crash, Jobs, UploadSteps, Answers, Ends
<1>4. ASSUME NEW q \in RuleDocs PROVE UploadInOrder(q)'
  BY DEF IInv, UploadInOrder, Crash, rows, stores, Jobs
<1>5. ASSUME NEW d \in Deletions PROVE DeletionInOrder(d)'
  BY TargetOfAssumption, NamesAssumption
  DEF IInv, DeletionInOrder, Hosted, Kinds, Crash, rows, stores, Jobs, Answers, Ends
<1>6. ASSUME NEW q \in RuleDocs PROVE AbsentForAReason(q)'
  BY NamesAssumption
  DEF IInv, AbsentForAReason, Withdrawn, Hosted, Crash, rows, Jobs, Answers, Ends
<1>7. ASSUME NEW x \in Manual PROVE ManualInOrder(x)'
  BY DEF IInv, ManualInOrder, Crash, rows, stores, Jobs
<1>8. ASSUME NEW q \in RuleDocs PROVE RowBacked(q)'
  BY DEF IInv, RowBacked, ListedIsIndexed, ObjectTaken, Has, Crash, rows, stores, Jobs
<1>9. IndexingHasAReason'
  BY DEF IInv, IndexingHasAReason, Crash, rows, Jobs
<1>10. QED BY <1>1, <1>2, <1>3, <1>4, <1>5, <1>6, <1>7, <1>8, <1>9 DEF IInv

-----------------------------------------------------------------------------
\* In the first state nothing has been asked for.
LEMMA InitInv == Init => IInv
<1> SUFFICES ASSUME Init PROVE IInv
  OBVIOUS
<1>1. TypeOK
  BY MaxCrashesAssumption DEF Init, TypeOK, Steps, DocStatuses
<1>2. Kinds /\ Hosted
  BY JobsAssumption DEF Init, Kinds, Hosted, Jobs, UploadSteps
<1>3. ASSUME NEW r \in RuleDocs
      PROVE  UploadInOrder(r) /\ AbsentForAReason(r) /\ RowBacked(r)
  BY DEF Init, UploadInOrder, AbsentForAReason, RowBacked, ListedIsIndexed, Has, Jobs
<1>4. ASSUME NEW k \in Deletions PROVE DeletionInOrder(k)
  BY DEF Init, DeletionInOrder, Jobs
<1>5. ASSUME NEW m \in Manual PROVE ManualInOrder(m)
  BY DEF Init, ManualInOrder, Jobs
<1>6. IndexingHasAReason
  BY DEF Init, IndexingHasAReason
<1> QED BY <1>1, <1>2, <1>3, <1>4, <1>5, <1>6 DEF IInv

\* Every step keeps the invariant.
LEMMA StepKeepsInv == IInv /\ [Next]_vars => IInv'
<1> SUFFICES ASSUME IInv, [Next]_vars PROVE IInv'
  OBVIOUS
<1>1. CASE UNCHANGED vars
  <2>1. TypeOK' /\ Kinds' /\ Hosted' /\ IndexingHasAReason'
    BY <1>1 DEF vars, rows, stores, IInv, TypeOK, Kinds, Hosted, IndexingHasAReason
  <2>2. ASSUME NEW r \in RuleDocs
        PROVE  UploadInOrder(r)' /\ AbsentForAReason(r)' /\ RowBacked(r)'
    BY <1>1 DEF vars, rows, stores, IInv, UploadInOrder, AbsentForAReason, Withdrawn,
                RowBacked, ListedIsIndexed, Has, ObjectTaken
  <2>3. ASSUME NEW k \in Deletions PROVE DeletionInOrder(k)'
    BY <1>1 DEF vars, rows, stores, IInv, DeletionInOrder
  <2>4. ASSUME NEW m \in Manual PROVE ManualInOrder(m)'
    BY <1>1 DEF vars, rows, stores, IInv, ManualInOrder
  <2> QED BY <2>1, <2>2, <2>3, <2>4 DEF IInv
<1>2. ASSUME NEW p \in Processes, NEW r \in RuleDocs, BeginUpload(r, p) PROVE IInv'
  BY <1>2, BeginUploadInv
<1>3. ASSUME NEW p \in Processes, NEW m \in Manual, BeginManual(m, p) PROVE IInv'
  BY <1>3, BeginManualInv
<1>4. ASSUME NEW p \in Processes, NEW k \in Deletions, BeginDeletion(k, p) PROVE IInv'
  BY <1>4, BeginDeletionInv
<1>5. ASSUME NEW p \in Processes, Crash(p) PROVE IInv'
  BY <1>5, CrashInv
<1>6. ASSUME NEW r \in RuleDocs, UploadStep(r) PROVE IInv'
  BY <1>6, InsertRowInv, ParseInv, IndexInv, MarkFailedInv, RegisterInv, ReloadInv
     DEF UploadStep
<1>7. ASSUME NEW m \in Manual, ManualStep(m) PROVE IInv'
  BY <1>7, InsertManualInv, IndexManualInv DEF ManualStep
<1>8. ASSUME NEW k \in Deletions, DeletionStep(k) PROVE IInv'
  BY <1>8, LookupInv, DeleteObjectInv, DeleteRulesInv, DeleteRowInv DEF DeletionStep
<1> QED BY <1>1, <1>2, <1>3, <1>4, <1>5, <1>6, <1>7, <1>8 DEF Next

(***************************************************************************)
(* The invariant holds in every state the library can reach, whatever      *)
(* uploads, manual rules, deletions and crashes it meets.                  *)
(***************************************************************************)
THEOREM Inductive == Spec => []IInv
<1> QED BY InitInv, StepKeepsInv, PTL DEF Spec

(***************************************************************************)
(* A document is listed exactly while it is "indexed", retrievable then,   *)
(* and a row has its object until a deletion has been begun                *)
(* (upload_and_index_rule, delete_rule).                                   *)
(***************************************************************************)
THEOREM RowsAreBackedAlways == Spec => []RowsAreBacked
<1>1. IInv => RowsAreBacked
  BY DEF IInv, RowBacked, RowsAreBacked
<1> QED BY <1>1, Inductive, PTL

(***************************************************************************)
(* What a caller was told of an upload, a manual rule or a deletion holds  *)
(* from then on (the answers of upload_rule, create_manual_rule and        *)
(* delete_rule).                                                           *)
(***************************************************************************)
THEOREM AnswersAlwaysHold == Spec => []AnswersHold
<1>1. IInv => AnswersHold
  <2> SUFFICES ASSUME IInv PROVE AnswersHold
    OBVIOUS
  <2>1. ASSUME NEW r \in RuleDocs
        PROVE  /\ step[r] = "ok" => r \in vectors
               /\ step[r] \in {"unreadable", "unindexed"} =>
                    r \notin listed /\ status[r] \in {"failed", "absent"}
    BY DEF IInv, UploadInOrder, RowBacked, ListedIsIndexed
  <2>2. ASSUME NEW m \in Manual, step[m] = "ok"
        PROVE  m \in listed /\ m \in vectors
    BY <2>2 DEF IInv, ManualInOrder
  <2>3. ASSUME NEW k \in Deletions, step[k] = "deleted"
        PROVE  ~Has(TargetOf[k]) /\ TargetOf[k] \notin listed \cup objects
    BY <2>3, TargetOfAssumption DEF IInv, DeletionInOrder, RowBacked, ListedIsIndexed, Has
  <2> QED BY <2>1, <2>2, <2>3 DEF AnswersHold
<1> QED BY <1>1, Inductive, PTL

(***************************************************************************)
(* An upload keeps its row while it is under way, as long as its deletion  *)
(* has been asked of no other process: the event loop it holds protects it *)
(* (upload_and_index_rule awaits nothing).                                 *)
(***************************************************************************)
THEOREM UploadsAreUndisturbed == Spec => []UploadUndisturbed
<1>1. IInv => UploadUndisturbed
  <2> SUFFICES ASSUME IInv, NEW r \in RuleDocs, OneProcessFor(r),
                      step[r] \in UploadSteps \ {"insert"}
               PROVE  status[r] # "absent"
    BY DEF IInv, UploadInOrder, UploadUndisturbed, UploadSteps
  <2>1. ASSUME status[r] = "absent" PROVE Withdrawn(r)
    BY <2>1 DEF IInv, AbsentForAReason, UploadSteps
  <2>2. ASSUME NEW k \in Deletions, TargetOf[k] = r PROVE step[k] # "deleted"
    <3>1. step[k] # "new" => host[k] # host[r] /\ host[k] # NoHost
      BY <2>2 DEF IInv, DeletionInOrder, Hosted, Jobs
    <3> QED BY <2>2, <3>1 DEF OneProcessFor
  <2> QED BY <2>1, <2>2 DEF Withdrawn
<1> QED BY <1>1, Inductive, PTL

(***************************************************************************)
(* A document shows "indexing" only while its upload is under way, or when *)
(* it was cut off where rule_service has no handler                        *)
(* (upload_and_index_rule).                                                *)
(***************************************************************************)
THEOREM IndexingAlwaysHasAReason == Spec => []IndexingHasAReason
<1>1. IInv => IndexingHasAReason
  BY DEF IInv
<1> QED BY <1>1, Inductive, PTL

-----------------------------------------------------------------------------
\* Where the registry sees no document change.
LEMMA SamePhases ==
  ASSUME UNCHANGED status, \A k \in Deletions : step'[k] = "deleted" <=> step[k] = "deleted"
  PROVE  Phases' = Phases
<1>1. \A r \in RuleDocs : Withdrawn(r)' <=> Withdrawn(r)
  BY DEF Withdrawn
<1> QED BY <1>1 DEF Phases, Phase

\* What the registry sees when the row of one document changes, or one
\* deletion of it ends.
LEMMA OnePhaseChanges ==
  ASSUME NEW r \in RuleDocs,
         \A q \in RuleDocs \ {r} : status'[q] = status[q],
         \A k \in Deletions : TargetOf[k] # r => (step'[k] = "deleted" <=> step[k] = "deleted")
  PROVE  Phases' = [Phases EXCEPT ![r] = Phase(r)']
<1>1. \A q \in RuleDocs \ {r} : Withdrawn(q)' <=> Withdrawn(q)
  BY DEF Withdrawn
<1>2. \A q \in RuleDocs \ {r} : Phase(q)' = Phase(q)
  BY <1>1 DEF Phase
<1> QED BY <1>2 DEF Phases

\* A document that has never had a row was not deleted either.
LEMMA UploadPhases ==
  ASSUME IInv, NEW r \in RuleDocs
  PROVE  /\ step[r] = "insert" => Phase(r) = "unknown"
         /\ step[r] \in UploadSteps \ {"insert"} => Phase(r) # "unknown"
<1>1. ASSUME step[r] = "insert" PROVE ~Withdrawn(r)
  BY <1>1 DEF IInv, DeletionInOrder, Withdrawn
<1>2. status[r] \in DocStatuses
  BY DEF IInv, TypeOK
<1>3. ASSUME step[r] \in UploadSteps \ {"insert"}, status[r] = "absent" PROVE Withdrawn(r)
  BY <1>3 DEF IInv, AbsentForAReason, UploadSteps
<1> QED BY <1>1, <1>2, <1>3 DEF IInv, UploadInOrder, Phase, DocStatuses

\* An upload's step, as the registry sees it.
LEMMA UploadStepRefines ==
  ASSUME IInv, NEW r \in RuleDocs, UploadStep(r)
  PROVE  Registry!Next \/ UNCHANGED <<Phases, Findable>>
<1>1. \A k \in Deletions : step'[k] = step[k]
  BY JobsAssumption DEF IInv, TypeOK, UploadStep, InsertRow, Parse, Index, MarkFailed, Register,
     Reload, Continue, Return, Goto, Jobs
<1>2. UNCHANGED status => Phases' = Phases
  BY <1>1, SamePhases
<1>3. status \in [RuleDocs -> DocStatuses] /\ Phases[r] = Phase(r)
  BY DEF IInv, TypeOK, Phases
<1>4. ASSUME NEW s, status' = [status EXCEPT ![r] = s]
      PROVE  Phases' = [Phases EXCEPT ![r] = Phase(r)'] /\ status'[r] = s
  BY <1>1, <1>3, <1>4, OnePhaseChanges
<1>5. CASE InsertRow(r)
  <2>1. UNCHANGED Findable
    BY <1>5 DEF InsertRow, stores, Findable
  <2>2. CASE UNCHANGED status
    BY <1>2, <2>1, <2>2
  <2>3. CASE status' = [status EXCEPT ![r] = "indexing"]
    <3>1. Phases' = [Phases EXCEPT ![r] = "pending"] /\ Phases[r] = "unknown"
      BY <1>3, <1>4, <1>5, <2>3, UploadPhases DEF InsertRow, Phase
    <3> QED BY <2>1, <3>1 DEF Registry!Next, Registry!Submit
  <2> QED BY <1>5, <2>2, <2>3 DEF InsertRow
<1>6. CASE Parse(r) \/ MarkFailed(r)
  <2>1. UNCHANGED Findable
    BY <1>6 DEF Parse, MarkFailed, stores, Findable
  <2>2. CASE UNCHANGED status
    BY <1>2, <2>1, <2>2
  <2>3. CASE Has(r) /\ status' = [status EXCEPT ![r] = "failed"]
    <3>1. status[r] = "indexing"
      BY <1>6, <2>3 DEF IInv, UploadInOrder, Parse, MarkFailed, Has
    <3>2. Phases' = [Phases EXCEPT ![r] = "rejected"] /\ Phases[r] = "pending"
      BY <1>3, <1>4, <2>3, <3>1 DEF Phase
    <3> QED BY <2>1, <3>2 DEF Registry!Next, Registry!Reject
  <2> QED BY <1>6, <2>2, <2>3 DEF Parse, MarkFailed
<1>7. CASE Index(r)
  <2>1. Phases' = Phases /\ (UNCHANGED vectors \/ vectors' = vectors \cup {r})
    BY <1>2, <1>7 DEF Index, rows, Upsert, UpsertRaises
  <2>2. Findable' = Findable \/ Findable' = Findable \cup {r}
    BY <2>1 DEF Findable
  <2>3. Phases[r] # "unknown"
    BY <1>3, <1>7, UploadPhases DEF Index, UploadSteps
  <2> QED BY <2>1, <2>2, <2>3 DEF Registry!Next, Registry!Index
<1>8. CASE Register(r)
  <2>1. UNCHANGED Findable
    BY <1>8 DEF Register, stores, Findable
  <2>2. CASE UNCHANGED rows
    BY <1>2, <2>1, <2>2 DEF rows
  <2>3. CASE Has(r) /\ status' = [status EXCEPT ![r] = "indexed"]
    <3>1. status[r] = "indexing" /\ r \in vectors
      BY <1>8, <2>3 DEF IInv, UploadInOrder, Register, Has
    <3>2. Phases' = [Phases EXCEPT ![r] = "published"] /\ Phases[r] = "pending"
      BY <1>3, <1>4, <2>3, <3>1 DEF Phase
    <3>3. r \in Findable
      BY <3>1 DEF Findable
    <3> QED BY <2>1, <3>2, <3>3 DEF Registry!Next, Registry!Publish
  <2> QED BY <1>8, <2>2, <2>3 DEF Register
<1>9. CASE Reload(r)
  BY <1>2, <1>9 DEF Reload, rows, stores, Findable
<1> QED BY <1>5, <1>6, <1>7, <1>8, <1>9 DEF UploadStep

\* The last step of a deletion, as the registry sees it.
LEMMA DeleteRowRefines ==
  ASSUME IInv, NEW k \in Deletions, DeleteRow(k)
  PROVE  Registry!Next \/ UNCHANGED <<Phases, Findable>>
<1> DEFINE r == TargetOf[k]
<1>1. r \in RuleDocs /\ UNCHANGED Findable
  BY TargetOfAssumption DEF DeleteRow, stores, Findable
<1>2. step \in [Jobs -> Steps] /\ status \in [RuleDocs -> DocStatuses] /\ k \in Jobs
  BY DEF IInv, TypeOK, Jobs
<1>3. Phases[r] = Phase(r)
  BY <1>1 DEF Phases
<1>4. CASE step' = [step EXCEPT ![k] = "broken"] /\ UNCHANGED rows
  <2>1. \A d \in Deletions : step'[d] = "deleted" <=> step[d] = "deleted"
    BY <1>2, <1>4 DEF DeleteRow, Jobs
  <2> QED BY <1>1, <1>4, <2>1, SamePhases DEF rows
<1>5. CASE step' = [step EXCEPT ![k] = "deleted"] /\ status' = [status EXCEPT ![r] = "absent"]
  <2>1. \A d \in Deletions : TargetOf[d] # r => step'[d] = step[d]
    BY <1>2, <1>5 DEF Jobs
  <2>2. step'[k] = "deleted" /\ status'[r] = "absent"
    BY <1>1, <1>2, <1>5
  <2>3. Phase(r)' = "withdrawn"
    BY <2>2 DEF Phase, Withdrawn
  <2>4. Phases' = [Phases EXCEPT ![r] = "withdrawn"]
    BY <1>1, <1>2, <1>5, <2>1, <2>3, OnePhaseChanges
  <2>5. CASE status[r] = "absent"
    <3>1. Phases[r] = "withdrawn"
      BY <1>1, <1>3, <2>5 DEF IInv, AbsentForAReason, DeleteRow, Phase
    <3> QED BY <1>1, <2>4, <3>1 DEF Phases
  <2>6. CASE status[r] # "absent"
    <3>1. Phases[r] \in {"pending", "published", "rejected"}
      BY <1>1, <1>2, <1>3, <2>6 DEF DocStatuses, Phase
    <3> QED BY <1>1, <2>4, <3>1 DEF Registry!Next, Registry!Withdraw
  <2> QED BY <2>5, <2>6
<1> QED BY <1>4, <1>5 DEF DeleteRow, Goto

\* Every step of the library is a step of the registry or not seen by it.
LEMMA NextRefines ==
  ASSUME IInv, [Next]_vars
  PROVE  Registry!Next \/ UNCHANGED <<Phases, Findable>>
<1>1. ASSUME UNCHANGED <<status, vectors>>,
             \A k \in Deletions : step'[k] = "deleted" <=> step[k] = "deleted"
      PROVE  UNCHANGED <<Phases, Findable>>
  BY <1>1, SamePhases DEF Findable
<1>2. step \in [Jobs -> Steps]
  BY DEF IInv, TypeOK
<1>3. ASSUME NEW p \in Processes, NEW r \in RuleDocs, BeginUpload(r, p)
      PROVE  UNCHANGED <<Phases, Findable>>
  BY <1>1, <1>2, <1>3, JobsAssumption DEF BeginUpload, Goto, rows, Jobs
<1>4. ASSUME NEW p \in Processes, NEW m \in Manual, BeginManual(m, p)
      PROVE  UNCHANGED <<Phases, Findable>>
  BY <1>1, <1>2, <1>4, JobsAssumption DEF BeginManual, Goto, rows, stores, Jobs
<1>5. ASSUME NEW p \in Processes, NEW k \in Deletions, BeginDeletion(k, p)
      PROVE  UNCHANGED <<Phases, Findable>>
  BY <1>1, <1>2, <1>5 DEF BeginDeletion, Accept, Goto, rows, stores, Jobs
<1>6. ASSUME NEW p \in Processes, Crash(p)
      PROVE  UNCHANGED <<Phases, Findable>>
  BY <1>1, <1>2, <1>6 DEF Crash, rows, stores, Jobs, Ends, Answers
<1>7. ASSUME NEW m \in Manual, ManualStep(m)
      PROVE  UNCHANGED <<Phases, Findable>>
  <2>1. UNCHANGED status /\ \A k \in Deletions : step'[k] = step[k]
    BY <1>2, <1>7, JobsAssumption DEF ManualStep, InsertManual, IndexManual, Goto, rows, Jobs
  <2>2. UNCHANGED Findable
    BY <1>7, JobsAssumption DEF ManualStep, InsertManual, IndexManual, Upsert, UpsertRaises,
       stores, Findable
  <2> QED BY <2>1, <2>2, SamePhases
<1>8. ASSUME NEW k \in Deletions, Lookup(k) \/ DeleteObject(k) \/ DeleteRules(k)
      PROVE  UNCHANGED <<Phases, Findable>>
  BY <1>1, <1>2, <1>8 DEF Lookup, DeleteObject, DeleteRules, Goto, rows, stores, Jobs
<1>9. CASE UNCHANGED vars
  BY <1>1, <1>9 DEF vars, rows, stores
<1> QED
  BY <1>3, <1>4, <1>5, <1>6, <1>7, <1>8, <1>9, UploadStepRefines, DeleteRowRefines
  DEF Next, DeletionStep

(***************************************************************************)
(* The library implements the registry: a document is pending, then        *)
(* published or rejected, published only when audits can find it, and      *)
(* withdrawn for good (upload_and_index_rule, delete_rule).                *)
(***************************************************************************)
THEOREM LibraryImplementsRegistry == Spec => ImplementsRegistry
<1>1. Init => Registry!Init
  BY DEF Init, Registry!Init, Phases, Phase, Findable, Withdrawn, Jobs
<1>2. IInv /\ [Next]_vars => [Registry!Next]_<<Phases, Findable>>
  BY NextRefines
<1> QED
  BY <1>1, <1>2, Inductive, PTL DEF Spec, ImplementsRegistry, Registry!Spec
=============================================================================
