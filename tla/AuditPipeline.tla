--------------------------- MODULE AuditPipeline ---------------------------
(***************************************************************************)
(* The audit pipeline of the backend: uploads, audit runs and the          *)
(* retention sweep, over one SQL database and two external stores.         *)
(*                                                                         *)
(*   upload   S3 object, then the uploaded_documents row                   *)
(*   audit    row created by the request, then a background thread runs    *)
(*            AuditWorkflow.run in a session of its own: extract, chunk,   *)
(*            index, retrieve, analyse, report, complete, with a commit    *)
(*            of the status before each stage                              *)
(*   sweep    the cleanup loop: select expired user documents, delete each *)
(*            object, mark each row                                        *)
(*                                                                         *)
(* Any number of audits of one document run at once, the sweep runs beside *)
(* them, every commit and every external call may fail, and the process    *)
(* may die between two steps.  A step below is one commit, one external    *)
(* call or one statement another session can observe; what a thread does   *)
(* in its own memory is part of the step that follows it.                  *)
(*                                                                         *)
(* The database is read committed with foreign keys enforced (PostgreSQL). *)
(* status, upload_status and processing_stage of a document are always     *)
(* assigned together: docStatus stands for the three.                      *)
(***************************************************************************)
EXTENDS Naturals

CONSTANTS
  Docs,         \* ids of the documents users upload
  Audits,       \* ids of the audit runs
  DocOf,        \* AuditRun.document_id, set when the row is made
  AdminDocs,    \* documents whose role_type is "ADMIN"
  FindingSets,  \* the findings an analysis may draft, each a set of risk levels
  Reranking,    \* settings.enable_reranking
  DbMayFail,    \* whether statements and commits may raise
  MaxCrashes    \* bound: how often the process dies and restarts

Risks == {"LOW", "MEDIUM", "HIGH"}

ASSUME DocOfAssumption == DocOf \in [Audits -> Docs]
ASSUME AdminDocsAssumption == AdminDocs \subseteq Docs
ASSUME FindingSetsAssumption == FindingSets \subseteq SUBSET Risks
ASSUME SwitchesAssumption == Reranking \in BOOLEAN /\ DbMayFail \in BOOLEAN
ASSUME MaxCrashesAssumption == MaxCrashes \in Nat

Stages == {"extracting", "chunking", "embedding", "retrieving_rules",
           "reranking", "analyzing", "generating_report"}
Terminal == {"completed", "failed"}
AuditStatuses == {"absent", "uploaded"} \cup Stages \cup Terminal
DocStatuses == AuditStatuses \cup {"expired"}

\* What the payload of an analysis says of the model call (llm_status).
LlmStatuses == {"generated", "degraded", "skipped"}

NoReport == [filed |-> FALSE]
Reports == [filed : {TRUE}, risk : Risks, findings : SUBSET Risks,
            llm : LlmStatuses, json : BOOLEAN]

\* The step a workflow thread takes next, or how it ended.
Waiting == {"none", "scheduled"}
Running == {"extract", "read", "mark_chunking", "chunk", "index",
            "clear_chunks", "store_chunks", "mark_retrieving", "retrieve",
            "mark_reranking", "mark_analyzing", "evaluate", "mark_generating",
            "flush_findings", "store_markdown", "store_json",
            "commit_report", "complete", "refresh", "failing"}
Interrupted == {"escaped", "lost"}    \* it raised; the process died
Steps == Waiting \cup Running \cup Interrupted \cup {"finished"}

VARIABLES
  (* PostgreSQL, committed *)
  docStatus,      \* uploaded_documents.status, "absent" while there is no row
  cleaned,        \* documents with cleanup_status = "deleted"
  chunkRows,      \* chunkRows[d]: audits whose document_chunks rows are stored
  auditStatus,    \* audit_runs.status, "absent" while there is no row
  overallRisk,    \* audit_runs.overall_risk, "none" while it is null
  findings,       \* findings[a]: risk levels of the findings rows of a
  report,         \* the audit_results, audit_reports and reports rows of a
  (* S3 and Qdrant *)
  uploads,        \* documents whose object is stored
  reportObjects,  \* reportObjects[a]: files under the report prefix of a
  vectors,        \* documents with points in the upload collection
  (* threads of the process *)
  uploading,      \* upload_document, per document
  pc,             \* AuditWorkflow.run, per audit: the step it takes next
  run,            \* AuditWorkflow.run, per audit: its locals and its session
  sweeper,        \* temp_file_cleanup_loop
  due,            \* documents the sweep selected and has not handled
  target,         \* the document whose object the sweep deleted last
  stale,          \* the sweep's session rolled back and expired its objects
  (* environment *)
  elapsed,        \* documents whose expires_at has passed
  crashes

dbVars    == <<docStatus, cleaned, chunkRows, auditStatus, overallRisk,
               findings, report>>
storeVars == <<uploads, reportObjects, vectors>>
sweepVars == <<sweeper, due, target, stale>>
envVars   == <<elapsed, crashes>>
vars == <<dbVars, storeVars, uploading, pc, run, sweepVars, envVars>>

(***************************************************************************)
(* What a run holds in memory: the document status its session last read   *)
(* or wrote, whether retrieval returned a rule, the analysis, whether      *)
(* report_uri is set, and the chunk rows its open transaction deleted.     *)
(***************************************************************************)
Analyses == [drafts : SUBSET Risks, llm : LlmStatuses]
Skipped == [drafts |-> {}, llm |-> "skipped"]

Locals == [seen : DocStatuses, rules : BOOLEAN, analysis : Analyses,
           json : BOOLEAN, doomed : SUBSET Audits]
Fresh == [seen |-> "absent", rules |-> FALSE, analysis |-> Skipped,
          json |-> FALSE, doomed |-> {}]

TypeOK ==
  /\ docStatus \in [Docs -> DocStatuses]
  /\ cleaned \in SUBSET Docs
  /\ chunkRows \in [Docs -> SUBSET Audits]
  /\ auditStatus \in [Audits -> AuditStatuses]
  /\ overallRisk \in [Audits -> Risks \cup {"none"}]
  /\ findings \in [Audits -> SUBSET Risks]
  /\ report \in [Audits -> Reports \cup {NoReport}]
  /\ uploads \in SUBSET Docs
  /\ reportObjects \in [Audits -> SUBSET {"md", "json"}]
  /\ vectors \in SUBSET Docs
  /\ uploading \in [Docs -> {"new", "stored", "done", "failed"}]
  /\ pc \in [Audits -> Steps]
  /\ run \in [Audits -> Locals]
  /\ sweeper \in {"asleep", "sweeping", "marking", "dead"}
  /\ due \in SUBSET Docs
  /\ target \in SUBSET Docs
  /\ stale \in BOOLEAN
  /\ elapsed \in SUBSET Docs
  /\ crashes \in 0..MaxCrashes

Init ==
  /\ docStatus = [d \in Docs |-> "absent"]
  /\ cleaned = {}
  /\ chunkRows = [d \in Docs |-> {}]
  /\ auditStatus = [a \in Audits |-> "absent"]
  /\ overallRisk = [a \in Audits |-> "none"]
  /\ findings = [a \in Audits |-> {}]
  /\ report = [a \in Audits |-> NoReport]
  /\ uploads = {}
  /\ reportObjects = [a \in Audits |-> {}]
  /\ vectors = {}
  /\ uploading = [d \in Docs |-> "new"]
  /\ pc = [a \in Audits |-> "none"]
  /\ run = [a \in Audits |-> Fresh]
  /\ sweeper = "asleep"
  /\ due = {}
  /\ target = {}
  /\ stale = FALSE
  /\ elapsed = {}
  /\ crashes = 0
-----------------------------------------------------------------------------
(***************************************************************************)
(* Uploads (document_service.upload_document): the object first, then the  *)
(* row.  A failed insert leaves the object behind; once the row is         *)
(* committed the upload is done, whatever the client is told.              *)
(***************************************************************************)
StoreUpload(d) ==
  /\ uploading[d] = "new"
  /\ uploading' = [uploading EXCEPT ![d] = "stored"]
  /\ uploads' = uploads \cup {d}
  /\ UNCHANGED <<dbVars, reportObjects, vectors, pc, run, sweepVars, envVars>>

InsertDocument(d) ==
  /\ uploading[d] = "stored"
  /\ \/ /\ uploading' = [uploading EXCEPT ![d] = "done"]
        /\ docStatus' = [docStatus EXCEPT ![d] = "uploaded"]
     \/ /\ DbMayFail
        /\ uploading' = [uploading EXCEPT ![d] = "failed"]
        /\ UNCHANGED docStatus
  /\ UNCHANGED <<cleaned, chunkRows, auditStatus, overallRisk, findings, report,
                 storeVars, pc, run, sweepVars, envVars>>

\* expires_at <= now from here on.
Expire(d) ==
  /\ docStatus[d] # "absent"
  /\ d \notin elapsed
  /\ elapsed' = elapsed \cup {d}
  /\ UNCHANGED <<dbVars, storeVars, uploading, pc, run, sweepVars, crashes>>
-----------------------------------------------------------------------------
(***************************************************************************)
(* Creating an audit: the document only has to exist and be accessible; its *)
(* status and its expiry are not looked at.  The background task runs in    *)
(* the same process.  When the row is committed and reading it back fails,  *)
(* the request fails too and no task is scheduled.                          *)
(***************************************************************************)
CreateAudit(a) ==
  /\ pc[a] = "none"
  /\ docStatus[DocOf[a]] # "absent"
  /\ auditStatus' = [auditStatus EXCEPT ![a] = "uploaded"]
  /\ \/ pc' = [pc EXCEPT ![a] = "scheduled"]
     \/ DbMayFail /\ pc' = [pc EXCEPT ![a] = "escaped"]
  /\ UNCHANGED <<docStatus, cleaned, chunkRows, overallRisk, findings, report,
                 storeVars, uploading, run, sweepVars, envVars>>

RowsPresent(a) == auditStatus[a] # "absent" /\ docStatus[DocOf[a]] # "absent"

\* A statement or commit of a fails: the database raises, or a row is gone.
DbRaises(a) == DbMayFail \/ ~RowsPresent(a)

\* The run goes on, or leaves its stage by an exception, or is over.
Goto(a, step) == pc' = [pc EXCEPT ![a] = step]
Raise(a) == Goto(a, "failing") /\ run' = [run EXCEPT ![a] = Fresh]
Leave(a, end) == Goto(a, end) /\ run' = [run EXCEPT ![a] = Fresh]

\* What steps that touch only part of the state leave alone.
RestOfDb == <<cleaned, chunkRows, overallRisk, findings, report>>
RestOfSystem == <<uploading, sweepVars, envVars>>

-----------------------------------------------------------------------------
(***************************************************************************)
(* Mutants: plausible bugs in the code below, each put in the place of the *)
(* definition it distorts to see that a property notices.  No action uses  *)
(* them.                                                                   *)
(***************************************************************************)
\* MarkFailed, forgetting the document's row.
MarkFailedAuditOnly(a) ==
  /\ pc[a] = "failing"
  /\ auditStatus' = [auditStatus EXCEPT ![a] = "failed"]
  /\ Leave(a, "finished")
  /\ UNCHANGED <<docStatus, RestOfDb, storeVars, RestOfSystem>>

\* MarkFailed, handing the audit back as new with nobody to take it.
Requeue(a) ==
  /\ pc[a] = "failing"
  /\ auditStatus' = [auditStatus EXCEPT ![a] = "uploaded"]
  /\ docStatus' = [docStatus EXCEPT ![DocOf[a]] = "failed"]
  /\ Leave(a, "finished")
  /\ UNCHANGED <<RestOfDb, storeVars, RestOfSystem>>

\* MarkFailed, merging the rows it remembers: a deleted one is inserted again.
MarkFailedAnyway(a) ==
  /\ pc[a] = "failing"
  /\ auditStatus' = [auditStatus EXCEPT ![a] = "failed"]
  /\ docStatus' = [docStatus EXCEPT ![DocOf[a]] = "failed"]
  /\ Leave(a, "finished")
  /\ UNCHANGED <<RestOfDb, storeVars, RestOfSystem>>

\* ClearChunks, committing the delete before the insert.
ClearChunksAtOnce(a) ==
  /\ pc[a] = "clear_chunks"
  /\ chunkRows' = [chunkRows EXCEPT ![DocOf[a]] = {}]
  /\ Goto(a, "store_chunks")
  /\ UNCHANGED <<docStatus, cleaned, auditStatus, overallRisk, findings, report,
                 storeVars, run, RestOfSystem>>

\* FlushFindings, committing.
CommitFindings(a) ==
  /\ pc[a] = "flush_findings"
  /\ findings' = [findings EXCEPT ![a] = run[a].analysis.drafts]
  /\ Goto(a, "store_markdown")
  /\ UNCHANGED <<docStatus, cleaned, chunkRows, auditStatus, overallRisk, report,
                 storeVars, run, RestOfSystem>>

\* StoreMarkdown, giving up the report with the upload.
StoreMarkdownOrSkip(a) ==
  /\ pc[a] = "store_markdown"
  /\ Goto(a, "complete")
  /\ UNCHANGED <<dbVars, storeVars, run, RestOfSystem>>

\* StoreJson, keeping the URI of an upload that failed.
StoreJsonOrNot(a) ==
  /\ pc[a] = "store_json"
  /\ run' = [run EXCEPT ![a].json = TRUE]
  /\ Goto(a, "commit_report")
  /\ UNCHANGED <<dbVars, storeVars, RestOfSystem>>

\* Sweepable: of any role; judged by cleanup_status.
SweepableAnyRole == {d \in elapsed : docStatus[d] \notin {"absent", "expired"}}
SweepableUncleaned == {d \in elapsed \ (AdminDocs \cup cleaned) : docStatus[d] # "absent"}

\* SweepObject, marking the row whether or not the object could be deleted.
SweepObjectOrNot(d) ==
  /\ sweeper = "sweeping"
  /\ d \in due
  /\ due' = due \ {d}
  /\ target' = {d}
  /\ sweeper' = "marking"
  /\ UNCHANGED <<dbVars, storeVars, uploading, pc, run, stale, envVars>>

\* SweepMark, by an insert or update.
SweepMarkAnyway(d) ==
  /\ sweeper = "marking"
  /\ d \in target
  /\ docStatus' = [docStatus EXCEPT ![d] = "expired"]
  /\ cleaned' = cleaned \cup {d}
  /\ target' = {}
  /\ sweeper' = "sweeping"
  /\ UNCHANGED <<chunkRows, auditStatus, overallRisk, findings, report, storeVars,
                 uploading, pc, run, due, stale, envVars>>
-----------------------------------------------------------------------------
(***************************************************************************)
(* AuditWorkflow.run loads both rows outside its try block: an exception   *)
(* there leaves the audit as it is.                                        *)
(***************************************************************************)
LoadRun(a) ==
  /\ pc[a] = "scheduled"
  /\ \/ /\ RowsPresent(a)
        /\ run' = [run EXCEPT ![a].seen = docStatus[DocOf[a]]]
        /\ Goto(a, "extract")
     \/ DbRaises(a) /\ Leave(a, "escaped")
  /\ UNCHANGED <<dbVars, storeVars, RestOfSystem>>

(***************************************************************************)
(* Assign the status to both rows and commit.  No status is read first, so *)
(* whatever another audit or the sweep wrote is overwritten, except that   *)
(* the session sends no UPDATE for a value equal to the one it last saw.   *)
(***************************************************************************)
WriteStatus(a, status) ==
  /\ auditStatus' = [auditStatus EXCEPT ![a] = status]
  /\ docStatus' = [docStatus EXCEPT ![DocOf[a]] =
                     IF run[a].seen = status THEN @ ELSE status]
  /\ run' = [run EXCEPT ![a].seen = status]

\* _set_status and _mark_stage; a failed commit rolls back and raises.
SetStatus(a, status, next) ==
  \/ RowsPresent(a) /\ WriteStatus(a, status) /\ Goto(a, next)
  \/ DbRaises(a) /\ Raise(a) /\ UNCHANGED <<auditStatus, docStatus>>

BeginExtraction(a) ==
  /\ pc[a] = "extract"
  /\ SetStatus(a, "extracting", "read")
  /\ UNCHANGED <<RestOfDb, storeVars, RestOfSystem>>

\* process_upload marks "extracting" again, which writes nothing, reads the
\* object and parses it: a missing object and an unreadable one both raise.
ReadUpload(a) ==
  /\ pc[a] = "read"
  /\ \/ DocOf[a] \in uploads /\ Goto(a, "mark_chunking") /\ UNCHANGED run
     \/ Raise(a)
  /\ UNCHANGED <<dbVars, storeVars, RestOfSystem>>

BeginChunking(a) ==
  /\ pc[a] = "mark_chunking"
  /\ SetStatus(a, "chunking", "chunk")
  /\ UNCHANGED <<RestOfDb, storeVars, RestOfSystem>>

\* chunk_pages, then extracted_text and the next status in one commit.
Chunk(a) ==
  /\ pc[a] = "chunk"
  /\ \/ SetStatus(a, "embedding", "index")
     \/ Raise(a) /\ UNCHANGED <<auditStatus, docStatus>>
  /\ UNCHANGED <<RestOfDb, storeVars, RestOfSystem>>

\* embed_texts and upsert_chunks.  Point ids are a function of the document, so
\* an upsert replaces; one that times out may have been applied.
Index(a) ==
  /\ pc[a] = "index"
  /\ \/ /\ vectors' = vectors \cup {DocOf[a]}
        /\ Goto(a, "clear_chunks")
        /\ UNCHANGED run
     \/ vectors' \in {vectors, vectors \cup {DocOf[a]}} /\ Raise(a)
  /\ UNCHANGED <<dbVars, uploads, reportObjects, RestOfSystem>>

\* DELETE FROM document_chunks: hits the rows committed at this moment.
ClearChunks(a) ==
  /\ pc[a] = "clear_chunks"
  /\ \/ /\ run' = [run EXCEPT ![a].doomed = chunkRows[DocOf[a]]]
        /\ Goto(a, "store_chunks")
     \/ DbMayFail /\ Raise(a)
  /\ UNCHANGED <<dbVars, storeVars, RestOfSystem>>

\* The new rows are inserted and the delete takes effect in one commit.
StoreChunks(a) ==
  /\ pc[a] = "store_chunks"
  /\ \/ /\ RowsPresent(a)
        /\ chunkRows' = [chunkRows EXCEPT ![DocOf[a]] = (@ \ run[a].doomed) \cup {a}]
        /\ run' = [run EXCEPT ![a].doomed = {}]
        /\ Goto(a, "mark_retrieving")
     \/ DbRaises(a) /\ Raise(a) /\ UNCHANGED chunkRows
  /\ UNCHANGED <<docStatus, cleaned, auditStatus, overallRisk, findings, report,
                 storeVars, RestOfSystem>>

BeginRetrieval(a) ==
  /\ pc[a] = "mark_retrieving"
  /\ SetStatus(a, "retrieving_rules", "retrieve")
  /\ UNCHANGED <<RestOfDb, storeVars, RestOfSystem>>

\* retrieve_rules: rules, or none (also when both searches failed and hybrid
\* retrieval swallowed it), or an exception.  The reranker has run by then.
Retrieve(a) ==
  /\ pc[a] = "retrieve"
  /\ \/ /\ \E found \in BOOLEAN : run' = [run EXCEPT ![a].rules = found]
        /\ Goto(a, IF Reranking THEN "mark_reranking" ELSE "mark_analyzing")
     \/ Raise(a)
  /\ UNCHANGED <<dbVars, storeVars, RestOfSystem>>

MarkReranking(a) ==
  /\ pc[a] = "mark_reranking"
  /\ SetStatus(a, "reranking", "mark_analyzing")
  /\ UNCHANGED <<RestOfDb, storeVars, RestOfSystem>>

BeginAnalysis(a) ==
  /\ pc[a] = "mark_analyzing"
  /\ SetStatus(a, "analyzing", "evaluate")
  /\ UNCHANGED <<RestOfDb, storeVars, RestOfSystem>>

\* evaluate_analysis: without rules no model is called; with rules the reply
\* carries findings and a status, or every attempt failed and it raises.
Evaluate(a) ==
  /\ pc[a] = "evaluate"
  /\ \/ ~run[a].rules /\ Goto(a, "mark_generating") /\ UNCHANGED run
     \/ /\ run[a].rules
        /\ \E drafts \in FindingSets, llm \in {"generated", "degraded"} :
             run' = [run EXCEPT ![a].analysis = [drafts |-> drafts, llm |-> llm]]
        /\ Goto(a, "mark_generating")
     \/ run[a].rules /\ Raise(a)
  /\ UNCHANGED <<dbVars, storeVars, RestOfSystem>>

\* _assert_analysis_finalizable
Finalizable(a) == run[a].analysis.drafts # {} \/ run[a].analysis.llm # "degraded"

BeginReport(a) ==
  /\ pc[a] = "mark_generating"
  /\ \/ Finalizable(a) /\ SetStatus(a, "generating_report", "flush_findings")
     \/ ~Finalizable(a) /\ Raise(a) /\ UNCHANGED <<auditStatus, docStatus>>
  /\ UNCHANGED <<RestOfDb, storeVars, RestOfSystem>>

\* _persist_findings inserts and flushes each finding; nothing is committed yet,
\* and without findings nothing is sent.
FlushFindings(a) ==
  /\ pc[a] = "flush_findings"
  /\ \/ /\ run[a].analysis.drafts = {} \/ RowsPresent(a)
        /\ Goto(a, "store_markdown")
        /\ UNCHANGED run
     \/ run[a].analysis.drafts # {} /\ DbRaises(a) /\ Raise(a)
  /\ UNCHANGED <<dbVars, storeVars, RestOfSystem>>

\* Two uploads in one try block: when either raises the report is filed
\* without a URI.
StoreMarkdown(a) ==
  /\ pc[a] = "store_markdown"
  /\ \/ /\ reportObjects' = [reportObjects EXCEPT ![a] = @ \cup {"md"}]
        /\ Goto(a, "store_json")
     \/ Goto(a, "commit_report") /\ UNCHANGED reportObjects
  /\ UNCHANGED <<dbVars, uploads, vectors, run, RestOfSystem>>

StoreJson(a) ==
  /\ pc[a] = "store_json"
  /\ \/ /\ reportObjects' = [reportObjects EXCEPT ![a] = @ \cup {"json"}]
        /\ run' = [run EXCEPT ![a].json = TRUE]
     \/ UNCHANGED <<reportObjects, run>>
  /\ Goto(a, "commit_report")
  /\ UNCHANGED <<dbVars, uploads, vectors, RestOfSystem>>

\* _overall_risk and _overall_risk_from_drafts
OverallRisk(risks) ==
  CASE "HIGH" \in risks -> "HIGH"
    [] "HIGH" \notin risks /\ "MEDIUM" \in risks -> "MEDIUM"
    [] OTHER -> "LOW"

\* _persist_report: findings, result, report in one commit.
CommitReport(a) ==
  /\ pc[a] = "commit_report"
  /\ \/ /\ RowsPresent(a)
        /\ findings' = [findings EXCEPT ![a] = run[a].analysis.drafts]
        /\ report' = [report EXCEPT ![a] =
             [filed |-> TRUE, risk |-> OverallRisk(run[a].analysis.drafts),
              findings |-> run[a].analysis.drafts,
              llm |-> run[a].analysis.llm, json |-> run[a].json]]
        /\ Goto(a, "complete")
        /\ UNCHANGED run
     \/ DbRaises(a) /\ Raise(a) /\ UNCHANGED <<findings, report>>
  /\ UNCHANGED <<docStatus, cleaned, chunkRows, auditStatus, overallRisk,
                 storeVars, RestOfSystem>>

\* _complete_audit: a second transaction, over the findings just persisted.
Complete(a) ==
  /\ pc[a] = "complete"
  /\ \/ /\ RowsPresent(a)
        /\ WriteStatus(a, "completed")
        /\ overallRisk' = [overallRisk EXCEPT ![a] = OverallRisk(run[a].analysis.drafts)]
        /\ Goto(a, "refresh")
     \/ DbRaises(a) /\ Raise(a) /\ UNCHANGED <<auditStatus, docStatus, overallRisk>>
  /\ UNCHANGED <<cleaned, chunkRows, findings, report, storeVars, RestOfSystem>>

\* db.refresh(audit) at the end of run() is still inside its try block.
Refresh(a) ==
  /\ pc[a] = "refresh"
  /\ \/ RowsPresent(a) /\ Leave(a, "finished")
     \/ DbRaises(a) /\ Raise(a)
  /\ UNCHANGED <<dbVars, storeVars, RestOfSystem>>

\* The except block: rollback, re-read both rows, mark them failed, commit.  An
\* exception here leaves run() and the rows as they are.
MarkFailed(a) ==
  /\ pc[a] = "failing"
  /\ \/ /\ RowsPresent(a)
        /\ auditStatus' = [auditStatus EXCEPT ![a] = "failed"]
        /\ docStatus' = [docStatus EXCEPT ![DocOf[a]] = "failed"]
        /\ Leave(a, "finished")
     \/ DbRaises(a) /\ Leave(a, "escaped") /\ UNCHANGED <<auditStatus, docStatus>>
  /\ UNCHANGED <<RestOfDb, storeVars, RestOfSystem>>
-----------------------------------------------------------------------------
(***************************************************************************)
(* The cleanup loop.  An exception that leaves cleanup_expired_temp_files   *)
(* ends the loop for the life of the process.                               *)
(***************************************************************************)
Sweepable == {d \in elapsed \ AdminDocs : docStatus[d] \notin {"absent", "expired"}}

BeginSweep ==
  /\ sweeper = "asleep"
  /\ \/ sweeper' = "sweeping" /\ due' = Sweepable
     \/ DbMayFail /\ sweeper' = "dead" /\ UNCHANGED due
  /\ UNCHANGED <<dbVars, storeVars, uploading, pc, run, target, stale, envVars>>

\* delete_uri, whose exception is logged and leaves the row for the next sweep.
SweepObject(d) ==
  /\ sweeper = "sweeping"
  /\ d \in due
  /\ stale => docStatus[d] # "absent"
  /\ due' = due \ {d}
  /\ \/ uploads' = uploads \ {d} /\ target' = {d} /\ sweeper' = "marking"
     \/ UNCHANGED <<uploads, target, sweeper>>
  /\ UNCHANGED <<dbVars, reportObjects, vectors, uploading, pc, run, stale, envVars>>

\* The status is assigned and committed by the audit log write, which swallows
\* its own failure with a rollback that also reverts the assignment.
SweepMark(d) ==
  /\ sweeper = "marking"
  /\ d \in target
  /\ \/ /\ docStatus[d] # "absent"
        /\ docStatus' = [docStatus EXCEPT ![d] = "expired"]
        /\ cleaned' = cleaned \cup {d}
        /\ UNCHANGED stale
     \/ /\ DbMayFail \/ docStatus[d] = "absent"
        /\ stale' = TRUE
        /\ UNCHANGED <<docStatus, cleaned>>
  /\ target' = {}
  /\ sweeper' = "sweeping"
  /\ UNCHANGED <<chunkRows, auditStatus, overallRisk, findings, report, storeVars,
                 uploading, pc, run, due, envVars>>

EndSweep ==
  /\ sweeper = "sweeping"
  /\ due = {}
  /\ sweeper' = "asleep"
  /\ stale' = FALSE
  /\ UNCHANGED <<dbVars, storeVars, uploading, pc, run, due, target, envVars>>

RowsGone == \E d \in due : docStatus[d] = "absent"

\* The final commit raises; or, after a rollback, a selected row is read again
\* before use, in the try block and, for the log line, in its handler too.
SweepDies ==
  /\ sweeper = "sweeping"
  /\ \/ DbMayFail /\ (due = {} \/ stale)
     \/ stale /\ RowsGone
  /\ sweeper' = "dead"
  /\ due' = {}
  /\ stale' = FALSE
  /\ UNCHANGED <<dbVars, storeVars, uploading, pc, run, target, envVars>>
-----------------------------------------------------------------------------
(***************************************************************************)
(* The process dies and starts again: open transactions roll back, threads *)
(* and scheduled background tasks are gone, the loop starts over.  Nothing *)
(* looks for audits that were running.                                     *)
(***************************************************************************)
Crash ==
  /\ crashes < MaxCrashes
  /\ crashes' = crashes + 1
  /\ pc' = [a \in Audits |->
              IF pc[a] \in Running \cup {"scheduled"} THEN "lost" ELSE pc[a]]
  /\ run' = [a \in Audits |-> Fresh]
  /\ uploading' = [d \in Docs |->
                     IF uploading[d] = "stored" THEN "failed" ELSE uploading[d]]
  /\ sweeper' = "asleep"
  /\ due' = {}
  /\ target' = {}
  /\ stale' = FALSE
  /\ UNCHANGED <<dbVars, storeVars, elapsed>>
-----------------------------------------------------------------------------
WorkflowStep(a) ==
  \/ LoadRun(a) \/ BeginExtraction(a) \/ ReadUpload(a) \/ BeginChunking(a)
  \/ Chunk(a) \/ Index(a) \/ ClearChunks(a) \/ StoreChunks(a)
  \/ BeginRetrieval(a) \/ Retrieve(a) \/ MarkReranking(a)
  \/ BeginAnalysis(a) \/ Evaluate(a)
  \/ BeginReport(a) \/ FlushFindings(a) \/ StoreMarkdown(a) \/ StoreJson(a)
  \/ CommitReport(a) \/ Complete(a) \/ Refresh(a) \/ MarkFailed(a)

SweepStep ==
  \/ BeginSweep \/ EndSweep \/ SweepDies
  \/ \E d \in Docs : SweepObject(d) \/ SweepMark(d)

Next ==
  \/ \E d \in Docs : StoreUpload(d) \/ InsertDocument(d) \/ Expire(d)
  \/ \E a \in Audits : CreateAudit(a) \/ WorkflowStep(a)
  \/ SweepStep
  \/ Crash

Spec == Init /\ [][Next]_vars

\* The thread pool runs every started thread and the event loop every timer;
\* a delete or a mark that is retried sweep after sweep succeeds in the end.
\* Requests, the clock and crashes are under no obligation.
SweepDeletes(d) == SweepObject(d) /\ target' = {d}
SweepMarks(d) == SweepMark(d) /\ docStatus'[d] = "expired"

Fairness ==
  /\ \A a \in Audits : WF_vars(WorkflowStep(a))
  /\ WF_vars(SweepStep)
  /\ \A d \in Docs : SF_vars(SweepDeletes(d)) /\ SF_vars(SweepMarks(d))

FairSpec == Spec /\ Fairness
-----------------------------------------------------------------------------
(* Properties *)

(***************************************************************************)
(* What the report of an audit says is what the findings table says, and   *)
(* neither is visible without the other (_persist_findings only flushes,   *)
(* _persist_report commits).                                               *)
(***************************************************************************)
ReportMatchesFindings ==
  \A a \in Audits :
    IF report[a].filed
    THEN /\ report[a].findings = findings[a]
         /\ report[a].risk = OverallRisk(findings[a])
    ELSE findings[a] = {}

(***************************************************************************)
(* A completed audit has its report, and the risk on its row, written by a *)
(* second transaction over other objects, is the risk of the report.       *)
(***************************************************************************)
CompletedIsBacked ==
  \A a \in Audits : auditStatus[a] = "completed" =>
    /\ report[a].filed
    /\ overallRisk[a] = report[a].risk

(***************************************************************************)
(* No report is filed over a failed model call with nothing found          *)
(* (_assert_analysis_finalizable).                                         *)
(***************************************************************************)
NoReportOfFailedAnalysis ==
  \A a \in Audits :
    ~(report[a].filed /\ report[a].findings = {} /\ report[a].llm = "degraded")

(***************************************************************************)
(* A report row that names a JSON object names one that was stored, with   *)
(* the markdown its payload names.                                         *)
(***************************************************************************)
ReportUriResolves ==
  \A a \in Audits : report[a].filed /\ report[a].json =>
    {"md", "json"} \subseteq reportObjects[a]

(***************************************************************************)
(* What is written of a report by two uploads and two transactions agrees: *)
(* findings, report, files and row (_persist_report, _complete_audit).     *)
(***************************************************************************)
ReportsHold ==
  /\ ReportMatchesFindings /\ CompletedIsBacked
  /\ NoReportOfFailedAnalysis /\ ReportUriResolves

(***************************************************************************)
(* A document shows a stage in progress only while one of its audits runs, *)
(* or after one was cut off by a crash or a database error outside its try *)
(* block: no order of audits and sweeps strands it.                        *)
(***************************************************************************)
InProgress(d) ==
  \E a \in Audits : DocOf[a] = d /\ pc[a] \in Running \cup Interrupted

NoStrandedDocument ==
  \A d \in Docs : docStatus[d] \in Stages => InProgress(d)

(***************************************************************************)
(* cleanup_status = "deleted" is the truth: the object is gone, and it was *)
(* an expired upload of a user (cleanup_expired_temp_files).               *)
(***************************************************************************)
CleanedMeansGone ==
  \A d \in cleaned : d \in elapsed \ AdminDocs /\ d \notin uploads

(***************************************************************************)
(* From rule retrieval on, the document of an audit has vectors and chunk  *)
(* rows: no concurrent replacement of the rows leaves it without any       *)
(* (process_upload).                                                       *)
(***************************************************************************)
PastIngestion == {"mark_retrieving", "retrieve", "mark_reranking",
                  "mark_analyzing", "evaluate", "mark_generating",
                  "flush_findings", "store_markdown", "store_json",
                  "commit_report", "complete", "refresh"}

IngestedBeforeRetrieval ==
  \A a \in Audits : pc[a] \in PastIngestion =>
    DocOf[a] \in vectors /\ chunkRows[DocOf[a]] # {}

(***************************************************************************)
(* The status of an audit moves along the pipeline and never back, and a   *)
(* settled audit is not touched again, with one exception: a database      *)
(* error while a completed audit is re-read turns it into a failed one.    *)
(***************************************************************************)
Rank == [absent |-> 0, uploaded |-> 1, extracting |-> 2, chunking |-> 3,
         embedding |-> 4, retrieving_rules |-> 5, reranking |-> 6,
         analyzing |-> 7, generating_report |-> 8, completed |-> 9, failed |-> 10]

StatusMovesForward ==
  [][\A a \in Audits :
       /\ Rank[auditStatus[a]] <= Rank[auditStatus'[a]]
       /\ auditStatus[a] = "completed" /\ auditStatus'[a] # "completed" => DbMayFail]_vars

(***************************************************************************)
(* The pipeline keeps the promise of AuditLifecycle: what the audits API   *)
(* shows of a run is a behaviour of that specification.                    *)
(***************************************************************************)
Phase(a) == CASE auditStatus[a] = "uploaded" -> "accepted"
              [] auditStatus[a] \in Stages -> "working"
              [] OTHER -> auditStatus[a]

Filed(a) == IF report[a].filed THEN report[a].risk ELSE "none"

Phases == [a \in Audits |-> Phase(a)]
FiledRisks == [a \in Audits |-> Filed(a)]

Lifecycle == INSTANCE AuditLifecycle WITH
  phase <- Phases,
  filed <- FiledRisks,
  shown <- overallRisk,
  None <- "none",
  LateFailure <- DbMayFail

ImplementsLifecycle == Lifecycle!Spec

(***************************************************************************)
(* Every accepted audit is decided, unless the process died, or the        *)
(* database failed the request that made it or its failure handler.        *)
(***************************************************************************)
EveryAuditSettles ==
  \A a \in Audits : (auditStatus[a] = "uploaded") ~>
    (auditStatus[a] \in Terminal \/ pc[a] \in Interrupted)

(***************************************************************************)
(* An expired user upload is gone for good in the end, object and status:  *)
(* audits overwrite the status and failed deletes leave the object, later  *)
(* sweeps put both right, unless the loop has died.                        *)
(***************************************************************************)
ExpiredForGood ==
  \A d \in Docs \ AdminDocs :
    (d \in elapsed) ~> (sweeper = "dead" \/ [](docStatus[d] = "expired" /\ d \notin uploads))
-----------------------------------------------------------------------------
(* What the repository's documents say and the code does not do *)

(***************************************************************************)
(* "User uploads are ... also swept by a cleanup worker after              *)
(* TEMP_DOCUMENT_RETENTION_HOURS" (README.md, Storage Lifecycle): one      *)
(* database error outside the per-document try block ends the loop for     *)
(* good.                                                                   *)
(***************************************************************************)
SweptAfterRetention ==
  \A d \in Docs \ AdminDocs : (d \in elapsed) ~> (d \notin uploads)
-----------------------------------------------------------------------------
(***************************************************************************)
(* The inductive invariant: what relates the rows, the step a thread is at *)
(* and what it holds in memory.  The safety properties above follow from   *)
(* it.                                                                     *)
(***************************************************************************)
RowsFollowRequests ==
  /\ \A d \in Docs : docStatus[d] # "absent" <=> uploading[d] = "done"
  /\ \A d \in elapsed : docStatus[d] # "absent"
  /\ \A a \in Audits : /\ auditStatus[a] # "absent" <=> pc[a] # "none"
                       /\ pc[a] # "none" => docStatus[DocOf[a]] # "absent"

Reporting == {"flush_findings", "store_markdown", "store_json", "commit_report",
              "complete"}

StatusFollowsStep(a) ==
  /\ pc[a] \in {"scheduled", "extract"} => auditStatus[a] = "uploaded"
  /\ pc[a] \in {"read", "mark_chunking"} => auditStatus[a] = "extracting"
  /\ pc[a] = "chunk" => auditStatus[a] = "chunking"
  /\ pc[a] \in {"index", "clear_chunks", "store_chunks", "mark_retrieving"} =>
       auditStatus[a] = "embedding"
  /\ pc[a] \in {"retrieve", "mark_reranking"} => auditStatus[a] = "retrieving_rules"
  /\ pc[a] = "mark_analyzing" => auditStatus[a] \in {"retrieving_rules", "reranking"}
  /\ pc[a] \in {"evaluate", "mark_generating"} => auditStatus[a] = "analyzing"
  /\ pc[a] \in Reporting => auditStatus[a] = "generating_report"
  /\ pc[a] = "refresh" => auditStatus[a] = "completed"
  /\ pc[a] = "failing" => auditStatus[a] # "failed"
  /\ pc[a] = "failing" /\ auditStatus[a] = "completed" => DbMayFail

\* From its first commit on, a session believes the document shows the status of
\* its own audit: at the end it cannot skip the final write.
SeenIsOwnStatus(a) ==
  pc[a] \in Running \ {"extract", "failing"} => run[a].seen = auditStatus[a]

ReportFollowsStep(a) ==
  /\ pc[a] \in Reporting \ {"complete"} => Finalizable(a)
  /\ pc[a] = "store_json" => "md" \in reportObjects[a]
  /\ run[a].json => {"md", "json"} \subseteq reportObjects[a]
  /\ pc[a] = "complete" => report[a].filed /\ report[a].findings = run[a].analysis.drafts

FiledAtTheEnd(a) ==
  report[a].filed => pc[a] \in {"complete", "refresh", "failing", "finished"} \cup Interrupted

IngestionFollowsStep(a) ==
  /\ pc[a] \in {"clear_chunks", "store_chunks"} \cup PastIngestion => DocOf[a] \in vectors
  /\ pc[a] \in PastIngestion => chunkRows[DocOf[a]] # {}

InStep(a) == /\ StatusFollowsStep(a) /\ SeenIsOwnStatus(a)
             /\ ReportFollowsStep(a) /\ FiledAtTheEnd(a)
             /\ IngestionFollowsStep(a)

SweepHoldsExpired ==
  /\ due \cup target \cup cleaned \subseteq elapsed \ AdminDocs
  /\ (target \cup cleaned) \cap uploads = {}

\* A run about to return has already written its final status over the stage.
Unfinished(a) == pc[a] \in (Running \ {"refresh"}) \cup Interrupted

StagesHaveAuthors ==
  \A d \in Docs : docStatus[d] \in Stages =>
    \E a \in Audits : DocOf[a] = d /\ Unfinished(a)

IInv ==
  /\ TypeOK
  /\ RowsFollowRequests
  /\ \A a \in Audits : InStep(a)
  /\ SweepHoldsExpired
  /\ StagesHaveAuthors
  /\ ReportMatchesFindings
  /\ CompletedIsBacked
  /\ NoReportOfFailedAnalysis
  /\ ReportUriResolves
=============================================================================
