-------------------------- MODULE DocumentDeletion --------------------------
(***************************************************************************)
(* An administrator deletes uploaded documents (admin.py, delete_document) *)
(* while their audits run.  One request is one transaction: it selects the *)
(* document's audits and what belongs to them, deletes the rows, empties   *)
(* Qdrant and S3, which no rollback brings back, and commits last.         *)
(*                                                                         *)
(* AuditPipeline supplies the audits, the uploads, the sweep and crashes.  *)
(* Until a deletion commits, other sessions still see its rows, but a      *)
(* session that writes them, or inserts a row that refers to them, waits;  *)
(* and a deletion waits for the rows others have written or referred to    *)
(* and not committed.  PostgreSQL checks foreign keys when a row goes, and *)
(* waits at a row that refers to it and is being deleted; of transactions  *)
(* that wait for each other it aborts one.                                 *)
(***************************************************************************)
EXTENDS AuditPipeline

CONSTANT Requests   \* the deletion requests administrators make

VARIABLE deletion   \* deletion[r]: _delete_uploaded_document of request r

allVars == <<vars, deletion>>

(***************************************************************************)
(* What a request holds: the step it takes next; its document; the audits  *)
(* it selected, those of them with a report, and the chunk rows its delete *)
(* has seen; and, for the properties, whether an audit was under way when  *)
(* it selected and whether it has begun to empty the stores.               *)
(***************************************************************************)
Deleting == {"rows", "chunks", "vectors", "objects", "commit", "check"}
Ends == {"deleted", "refused", "raised", "lost"}

Deletions == [at : {"none"} \cup Deleting \cup Ends, document : SUBSET Docs,
              known : SUBSET Audits, filed : SUBSET Audits,
              cleared : SUBSET Audits, busy : BOOLEAN, emptied : BOOLEAN]
NoDeletion == [at |-> "none", document |-> {}, known |-> {}, filed |-> {},
               cleared |-> {}, busy |-> FALSE, emptied |-> FALSE]

DeletionTypeOK == TypeOK /\ deletion \in [Requests -> Deletions]

DeletionInit == Init /\ deletion = [r \in Requests |-> NoDeletion]

-----------------------------------------------------------------------------
AuditsOf(d) == {a \in Audits : DocOf[a] = d}
Present(d) == {a \in AuditsOf(d) : auditStatus[a] # "absent"}
FiledOf(d) == {a \in AuditsOf(d) : report[a].filed}
UnderWay(a) == pc[a] \in Running \cup {"scheduled"}

\* The transaction of a has inserted findings and not ended: it refers to the
\* rows of its audit and its document.
Flushed(a) ==
  /\ pc[a] \in {"store_markdown", "store_json", "commit_report"}
  /\ run[a].analysis.drafts # {}

\* r has deleted the row of a, the documents row of d, or its uploaded_documents
\* row, and not ended.  What another deletion had removed before, it did not find.
HoldsAudit(r, a) ==
  /\ deletion[r].at \in Deleting \ {"rows"}
  /\ a \in deletion[r].known /\ auditStatus[a] # "absent"
HoldsRecord(r, d) ==
  /\ deletion[r].at \in Deleting \ {"rows", "chunks"}
  /\ d \in deletion[r].document /\ docStatus[d] # "absent"
HoldsUpload(r, d) == deletion[r].at = "check" /\ HoldsRecord(r, d)

DeletedByOther(r, a) == \E other \in Requests \ {r} : HoldsAudit(other, a)

\* The delete of a, of chunk rows that r has deleted, has found them locked.
HoldsChunks(r, a) ==
  HoldsRecord(r, DocOf[a]) /\ run[a].doomed \cap deletion[r].cleared # {}

Move(r, next) == deletion' = [deletion EXCEPT ![r].at = next]

(* Mutants: plausible bugs in the definitions below. *)

\* DeleteRows, committing statement by statement.
DeleteRowsAtOnce(r, d) ==
  /\ deletion[r].at = "rows"
  /\ deletion' = [deletion EXCEPT ![r].at = "chunks", ![r].cleared = chunkRows[d]]
  /\ findings' = [a \in Audits |-> IF DocOf[a] = d THEN {} ELSE findings[a]]
  /\ UNCHANGED <<docStatus, cleaned, chunkRows, auditStatus, overallRisk, report,
                 storeVars, uploading, pc, run, sweepVars, envVars>>

\* DeleteRows, leaving the chunk rows.
DeleteRowsButChunks(r, d) ==
  /\ deletion[r].at = "rows"
  /\ Move(r, "chunks")
  /\ UNCHANGED vars

\* DeleteVectors, going on when Qdrant does not answer.
DeleteVectorsOrNot(r, d) ==
  /\ deletion[r].at = "vectors"
  /\ vectors' \in {vectors, vectors \ {d}}
  /\ Move(r, "objects")
  /\ UNCHANGED <<dbVars, uploads, reportObjects, uploading, pc, run, sweepVars, envVars>>

\* DeleteObjects, by the prefix of the user.
DeleteObjectsOfAll(r, d) ==
  /\ deletion[r].at = "objects"
  /\ uploads' = uploads \ {d}
  /\ reportObjects' = [a \in Audits |-> {}]
  /\ deletion' = [deletion EXCEPT ![r].at = "commit", ![r].emptied = TRUE]
  /\ UNCHANGED <<dbVars, vectors, uploading, pc, run, sweepVars, envVars>>

\* DeleteObjects, by the prefixes only.
DeleteObjectsByPrefix(r, d) ==
  /\ deletion[r].at = "objects"
  /\ uploads' = uploads \ {d}
  /\ \E kept \in SUBSET deletion[r].known :
       reportObjects' = [a \in Audits |->
         IF a \in deletion[r].known \ kept THEN {} ELSE reportObjects[a]]
  /\ deletion' = [deletion EXCEPT ![r].at = "commit", ![r].emptied = TRUE]
  /\ UNCHANGED <<dbVars, vectors, uploading, pc, run, sweepVars, envVars>>

\* DeleteObjects, going on when S3 does not answer.
DeleteObjectsOrNot(r, d) ==
  /\ deletion[r].at = "objects"
  /\ uploads' \in {uploads, uploads \ {d}}
  /\ deletion' = [deletion EXCEPT ![r].at = "commit", ![r].emptied = TRUE]
  /\ UNCHANGED <<dbVars, reportObjects, vectors, uploading, pc, run, sweepVars, envVars>>

-----------------------------------------------------------------------------
(***************************************************************************)
(* The waits.  A request waits at a delete for those that have written or  *)
(* deleted the rows or refer to them; a thread waits for a request at the  *)
(* statement that would write one of its rows or refer to it, or delete    *)
(* the same chunk rows.  Statements that run one after another with no     *)
(* call between them are one step.                                         *)
(***************************************************************************)
RowsWait(r, d) ==
  \E a \in AuditsOf(d) :
    \/ a \in deletion[r].known /\ Flushed(a)
    \/ (a \in deletion[r].known \/ report[a].filed) /\ DeletedByOther(r, a)

ChunksWait(r, d) ==
  \/ \E a \in AuditsOf(d) : run[a].doomed \cap deletion[r].cleared # {}
  \/ \E other \in Requests \ {r} : HoldsRecord(other, d)

UploadWaits(d) == \E a \in AuditsOf(d) : Flushed(a)

\* The steps whose statement writes the rows of the audit and of its document.
Writing == {"extract", "mark_chunking", "chunk", "mark_retrieving", "mark_reranking",
            "mark_analyzing", "mark_generating", "complete", "failing"}

WaitsFor(a, r) ==
  \/ /\ HoldsAudit(r, a) \/ HoldsUpload(r, DocOf[a])
     /\ \/ pc[a] \in Writing \cup {"commit_report"}
        \/ pc[a] = "flush_findings" /\ run[a].analysis.drafts # {}
  \/ HoldsRecord(r, DocOf[a]) /\ pc[a] = "commit_report"
  \/ (HoldsChunks(r, a) \/ HoldsUpload(r, DocOf[a])) /\ pc[a] = "store_chunks"

RunWaits(a) == \E r \in Requests : WaitsFor(a, r)

\* Another session's statement about the uploaded_documents row of d waits.
UploadHeld(d) == \E r \in Requests : HoldsUpload(r, d)

\* The transaction ends without a commit: refused with 409 or raised.
Fail(r, end) == Move(r, end)

(***************************************************************************)
(* delete_document finds the row and reads, in one glance, what depends on *)
(* it.  That a run of the document is under way is not looked at.          *)
(***************************************************************************)
Select(r, d) ==
  /\ deletion[r].at = "none"
  /\ docStatus[d] # "absent"
  /\ deletion' = [deletion EXCEPT ![r] =
       [at |-> "rows", document |-> {d}, known |-> Present(d), filed |-> FiledOf(d),
        cleared |-> {}, busy |-> \E a \in AuditsOf(d) : UnderWay(a), emptied |-> FALSE]]
  /\ UNCHANGED vars

\* Reports filed since the selection, but for those another deletion has deleted:
\* their result rows were not selected and refer to the documents row.
NewReports(r, d) == FiledOf(d) \ deletion[r].filed
FiledSince(r, d) == \E a \in NewReports(r, d) : ~DeletedByOther(r, a)

\* Evidence, findings, reports, results, and the audits themselves.  The delete of
\* chunk rows follows at once: it hits those committed at this moment.
DeleteRows(r, d) ==
  /\ deletion[r].at = "rows"
  /\ ~RowsWait(r, d)
  /\ \/ /\ NewReports(r, d) = {}
        /\ deletion' = [deletion EXCEPT ![r].at = "chunks", ![r].cleared = chunkRows[d]]
     \/ FiledSince(r, d) /\ Fail(r, "refused")
     \/ DbMayFail /\ Fail(r, "raised")
  /\ UNCHANGED vars

\* That delete ends, and the documents row is deleted.
DeleteChunks(r, d) ==
  /\ deletion[r].at = "chunks"
  /\ ~ChunksWait(r, d)
  /\ \/ NewReports(r, d) = {} /\ Move(r, "vectors")
     \/ FiledSince(r, d) /\ Fail(r, "refused")
     \/ DbMayFail /\ Fail(r, "raised")
  /\ UNCHANGED vars

\* _delete_qdrant_document_chunks; a delete that timed out may have been done.
DeleteVectors(r, d) ==
  /\ deletion[r].at = "vectors"
  /\ \/ vectors' = vectors \ {d} /\ Move(r, "objects")
     \/ vectors' \in {vectors, vectors \ {d}} /\ Fail(r, "raised")
  /\ UNCHANGED <<dbVars, uploads, reportObjects, uploading, pc, run, sweepVars, envVars>>

\* _delete_s3_document_artifacts: the objects the rows name, which are the upload and
\* the files of the selected reports; then, by their prefixes, what else the selected
\* audits stored.  What delete_objects says it could not delete is not looked at, so
\* any of the latter may stay; an exception leaves any part of everything.
DeleteObjects(r, d) ==
  /\ deletion[r].at = "objects"
  /\ reportObjects' \in [Audits -> SUBSET {"md", "json"}]
  /\ \A a \in Audits : /\ reportObjects'[a] \subseteq reportObjects[a]
                       /\ a \notin deletion[r].known => reportObjects'[a] = reportObjects[a]
  /\ \E next \in {"commit", "raised"} :
       /\ deletion' = [deletion EXCEPT ![r].at = next, ![r].emptied = TRUE]
       /\ uploads' = uploads \ {d} \/ (next = "raised" /\ UNCHANGED uploads)
       /\ next = "commit" => \A a \in deletion[r].filed : reportObjects'[a] = {}
  /\ UNCHANGED <<dbVars, vectors, uploading, pc, run, sweepVars, envVars>>

\* db.delete(document): the commit sends the last DELETE.
DeleteUpload(r, d) ==
  /\ deletion[r].at = "commit"
  /\ ~UploadWaits(d)
  /\ Move(r, "check") \/ (DbMayFail /\ Fail(r, "raised"))
  /\ UNCHANGED vars

\* Rows that still refer to the document: audits made since the selection and
\* chunks stored since the delete.  Those of them that another transaction has
\* deleted may come back or not.
NewAudits(r, d) == Present(d) \ deletion[r].known
NewChunks(r, d) == chunkRows[d] \ deletion[r].cleared

Referring(r, d) ==
  \/ \E a \in NewAudits(r, d) : ~DeletedByOther(r, a)
  \/ \E c \in NewChunks(r, d) :
       \A a \in AuditsOf(d) : c \in run[a].doomed => HoldsChunks(r, a)

\* The check of the foreign keys, which waits for such rows, and the commit.  A row
\* another deletion has removed meanwhile is no error.
CommitDeletion(r, d) ==
  /\ deletion[r].at = "check"
  /\ \/ /\ NewAudits(r, d) \cup NewChunks(r, d) = {}
        /\ Move(r, "deleted")
        /\ docStatus' = [docStatus EXCEPT ![d] = "absent"]
        /\ cleaned' = cleaned \ {d}
        /\ chunkRows' = [chunkRows EXCEPT ![d] = {}]
        /\ auditStatus' = [a \in Audits |-> IF DocOf[a] = d THEN "absent" ELSE auditStatus[a]]
        /\ overallRisk' = [a \in Audits |-> IF DocOf[a] = d THEN "none" ELSE overallRisk[a]]
        /\ findings' = [a \in Audits |-> IF DocOf[a] = d THEN {} ELSE findings[a]]
        /\ report' = [a \in Audits |-> IF DocOf[a] = d THEN NoReport ELSE report[a]]
     \/ Referring(r, d) /\ Fail(r, "refused") /\ UNCHANGED dbVars
     \/ DbMayFail /\ Fail(r, "raised") /\ UNCHANGED dbVars
  /\ UNCHANGED <<storeVars, uploading, pc, run, sweepVars, envVars>>

(***************************************************************************)
(* A request and the run of a wait for each other, and the database aborts *)
(* one: a has inserted its result, which refers to the documents row, and  *)
(* goes on to its audit's row; or it has flushed findings, which refer to  *)
(* the document, and goes on to the documents row; or it has deleted chunk *)
(* rows that the last check finds, and goes on to insert its own.          *)
(***************************************************************************)
CircleWithRun(r, d, a) ==
  \/ deletion[r].at = "chunks" /\ HoldsAudit(r, a) /\ pc[a] = "commit_report"
  \/ deletion[r].at = "commit" /\ Flushed(a) /\ pc[a] = "commit_report"
  \/ /\ deletion[r].at = "check" /\ pc[a] = "store_chunks"
     /\ run[a].doomed \cap NewChunks(r, d) # {}

BreakDeadlock(r, d, a) ==
  /\ DocOf[a] = d
  /\ CircleWithRun(r, d, a)
  /\ \/ Fail(r, "raised") /\ UNCHANGED <<pc, run>>
     \/ Raise(a) /\ UNCHANGED deletion
  /\ UNCHANGED <<dbVars, storeVars, uploading, sweepVars, envVars>>

(***************************************************************************)
(* Two requests wait for each other: one has deleted results, audits or    *)
(* chunk rows that refer to what r is deleting, and goes on to the         *)
(* documents row.                                                          *)
(***************************************************************************)
CircleWithDeletion(r, d, other) ==
  /\ deletion[other].at = "chunks"
  /\ \/ /\ deletion[r].at = "chunks"
        /\ \E a \in NewReports(r, d) : HoldsAudit(other, a)
     \/ /\ deletion[r].at = "check"
        /\ \/ \E a \in NewAudits(r, d) : HoldsAudit(other, a)
           \/ deletion[other].cleared \cap NewChunks(r, d) # {}

BreakDeletions(r, d, other) ==
  /\ deletion[other].document = {d}
  /\ CircleWithDeletion(r, d, other) \/ CircleWithDeletion(other, d, r)
  /\ Fail(r, "raised")
  /\ UNCHANGED vars

DeletionStep(r) ==
  \E d \in deletion[r].document :
    \/ DeleteRows(r, d) \/ DeleteChunks(r, d) \/ DeleteVectors(r, d)
    \/ DeleteObjects(r, d) \/ DeleteUpload(r, d) \/ CommitDeletion(r, d)
    \/ \E a \in Audits : BreakDeadlock(r, d, a)
    \/ \E other \in Requests \ {r} : BreakDeletions(r, d, other)
-----------------------------------------------------------------------------
\* A thread that waits gets an exception or stays where it is; a request for an
\* audit, and the sweep's mark, wait for the document's row or fail.
AuditMoves(a) ==
  /\ WorkflowStep(a)
  /\ RunWaits(a) => pc'[a] \in {"failing", "escaped"}
  /\ UNCHANGED deletion

AuditMade(a) ==
  /\ CreateAudit(a)
  /\ ~UploadHeld(DocOf[a])
  /\ UNCHANGED deletion

SweepMoves ==
  /\ SweepStep
  /\ \A d \in Docs : UploadHeld(d) =>
       docStatus'[d] = docStatus[d] /\ (d \in cleaned' <=> d \in cleaned)
  /\ UNCHANGED deletion

CrashAll ==
  /\ Crash
  /\ deletion' = [r \in Requests |->
       IF deletion[r].at \in Deleting THEN [deletion[r] EXCEPT !.at = "lost"] ELSE deletion[r]]

DeletionNext ==
  \/ \E r \in Requests : (\E d \in Docs : Select(r, d)) \/ DeletionStep(r)
  \/ \E a \in Audits : AuditMoves(a) \/ AuditMade(a)
  \/ \E d \in Docs : (StoreUpload(d) \/ InsertDocument(d) \/ Expire(d)) /\ UNCHANGED deletion
  \/ SweepMoves
  \/ CrashAll

DeletionSpec == DeletionInit /\ [][DeletionNext]_allVars
-----------------------------------------------------------------------------
(* Properties *)

Undisturbed(r) ==
  /\ ~deletion[r].busy
  /\ \A a \in Audits : DocOf[a] \in deletion[r].document /\ pc[a] # "none" => a \in deletion[r].known

(***************************************************************************)
(* After a deletion that no audit ran beside, nothing is left of what the  *)
(* rows named: no object, no vectors, no file of a report that was filed.  *)
(* (Files of audits that filed none are reached by their prefix only, and  *)
(* may stay.)                                                              *)
(***************************************************************************)
DeletionIsComplete ==
  \A r \in Requests : deletion[r].at = "deleted" /\ Undisturbed(r) =>
    \A d \in deletion[r].document :
      /\ d \notin uploads \cup vectors
      /\ \A a \in deletion[r].filed : reportObjects[a] = {}

(***************************************************************************)
(* A deletion is refused only because an audit was under way or was made   *)
(* since it began: what it deletes itself covers every foreign key.        *)
(***************************************************************************)
RefusedOnlyForAudits ==
  \A r \in Requests : deletion[r].at = "refused" => ~Undisturbed(r)

(***************************************************************************)
(* A report keeps the files it names but for a deletion that selected its  *)
(* audit, emptied S3 and then did not commit.  Deletions touch no report   *)
(* of an audit they did not select.                                        *)
(***************************************************************************)
ReportsKeepFiles ==
  \A a \in Audits : report[a].filed /\ report[a].json =>
    \/ {"md", "json"} \subseteq reportObjects[a]
    \/ \E r \in Requests : deletion[r].emptied /\ a \in deletion[r].known

(***************************************************************************)
(* An object without a row, which no sweep and no deletion will find, is   *)
(* one whose insert has not been made or has failed (upload_document):     *)
(* deletions leave none behind.                                            *)
(***************************************************************************)
UploadsHaveRows ==
  \A d \in uploads : docStatus[d] = "absent" => uploading[d] \in {"stored", "failed"}

(***************************************************************************)
(* Deletions leave no row astray: a report and its findings still agree, a *)
(* document shows a stage only for a run that is under way or was cut off, *)
(* and no object loses its row but by an upload.                           *)
(***************************************************************************)
RowsStayConsistent ==
  DeletionTypeOK /\ ReportMatchesFindings /\ NoStrandedDocument /\ UploadsHaveRows

(***************************************************************************)
(* A deletion is final: no run that was under way and no sweep brings a    *)
(* row of the document back, or the object, after the commit.              *)
(***************************************************************************)
DeletionIsFinal ==
  \A r \in Requests : deletion[r].at = "deleted" =>
    \A d \in deletion[r].document :
      /\ docStatus[d] = "absent" /\ chunkRows[d] = {} /\ d \notin uploads
      /\ \A a \in AuditsOf(d) :
           auditStatus[a] = "absent" /\ findings[a] = {} /\ ~report[a].filed

(***************************************************************************)
(* Where documents are deleted, what the audits API shows of an audit is a *)
(* behaviour of DeletableLifecycle: it goes at once with its report and    *)
(* its risk, whatever its run was doing, and nothing shows it again.       *)
(***************************************************************************)
VisiblePhase(a) == IF auditStatus[a] = "absent" /\ pc[a] # "none" THEN "gone" ELSE Phase(a)

VisiblePhases == [a \in Audits |-> VisiblePhase(a)]

Deletable == INSTANCE DeletableLifecycle WITH
  phase <- VisiblePhases,
  filed <- FiledRisks,
  shown <- overallRisk,
  None <- "none",
  LateFailure <- DbMayFail

ImplementsDeletableLifecycle == Deletable!DeletableSpec

(***************************************************************************)
(* "Document cannot be deleted because dependent audit records still       *)
(* exist." (the 409 of admin.py, shown by the administrators' page): the   *)
(* rows are still there, but the file they were made from may be gone.     *)
(***************************************************************************)
RefusedKeepsUpload ==
  \A r \in Requests : deletion[r].at = "refused" =>
    \A d \in deletion[r].document : docStatus[d] # "absent" => d \in uploads
=============================================================================
