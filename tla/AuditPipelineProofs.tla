------------------------- MODULE AuditPipelineProofs -------------------------
(***************************************************************************)
(* Proofs about AuditPipeline and DocumentDeletion, for every set of       *)
(* documents, audits and requests, every assignment of audits to           *)
(* documents, every set of analyses and every bound on crashes, in four    *)
(* parts: the safety of the pipeline, that it implements AuditLifecycle,   *)
(* the safety of deletions beside it, and what a deletion leaves.          *)
(***************************************************************************)
EXTENDS DocumentDeletion, TLAPS

(***************************************************************************)
(* Part 1: the pipeline.  Each part of the inductive invariant IInv has a  *)
(* lemma that every step keeps it; one about the steps of a run (Run...)   *)
(* comes before the one about all steps (Next...).                         *)
(***************************************************************************)
USE DocOfAssumption, AdminDocsAssumption, FindingSetsAssumption, MaxCrashesAssumption
    DEF DocOfAssumption, AdminDocsAssumption, FindingSetsAssumption, MaxCrashesAssumption

-----------------------------------------------------------------------------
(* Types *)

\* The locals of a thread that has not read anything are well typed.
LEMMA FreshType == Fresh \in Locals
  BY DEF Fresh, Skipped, Locals, Analyses, LlmStatuses, DocStatuses, AuditStatuses

\* Writing one field of a thread's locals keeps them well typed.
LEMMA FieldTypes ==
  ASSUME NEW r \in Locals
  PROVE  /\ \A s \in DocStatuses : [r EXCEPT !.seen = s] \in Locals
         /\ \A x \in BOOLEAN : [r EXCEPT !.rules = x] \in Locals /\ [r EXCEPT !.json = x] \in Locals
         /\ \A x \in Analyses : [r EXCEPT !.analysis = x] \in Locals
         /\ \A x \in SUBSET Audits : [r EXCEPT !.doomed = x] \in Locals
  BY DEF Locals

\* A step of a run moves the thread of that run, once requested, and no other.
LEMMA RunMovesOneThread ==
  ASSUME NEW a \in Audits, WorkflowStep(a)
  PROVE  /\ pc[a] # "none"
         /\ \E s \in Steps \ Waiting : pc' = [pc EXCEPT ![a] = s]
  BY DEF WorkflowStep, LoadRun, BeginExtraction, ReadUpload, BeginChunking, Chunk,
         Index, ClearChunks, StoreChunks, BeginRetrieval, Retrieve, MarkReranking,
         BeginAnalysis, Evaluate, BeginReport, FlushFindings, StoreMarkdown, StoreJson,
         CommitReport, Complete, Refresh, MarkFailed, SetStatus, Raise, Leave, Goto,
         Steps, Waiting, Running, Interrupted

\* A step of a run changes the locals of that run and no other.
LEMMA RunWritesOwnLocals ==
  ASSUME NEW a \in Audits, TypeOK, WorkflowStep(a)
  PROVE  \E r \in Locals : run' = [run EXCEPT ![a] = r]
<1> USE FreshType, FieldTypes DEF Raise, Leave
<1>0. run[a] \in Locals /\ run \in [Audits -> Locals]
  BY DEF TypeOK
<1>1. CASE LoadRun(a)
  BY <1>0, <1>1 DEF LoadRun, TypeOK
<1>2. CASE Evaluate(a)
  <2>1. \A drafts \in FindingSets, llm \in {"generated", "degraded"} :
          [drafts |-> drafts, llm |-> llm] \in Analyses
    BY DEF Analyses, LlmStatuses
  <2> QED BY <1>0, <1>2, <2>1 DEF Evaluate
<1>3. CASE ClearChunks(a) \/ StoreChunks(a) \/ Retrieve(a)
  BY <1>0, <1>3 DEF ClearChunks, StoreChunks, Retrieve, TypeOK
<1>4. CASE StoreJson(a)
  BY <1>0, <1>4 DEF StoreJson
<1>5. CASE Complete(a)
  BY <1>0, <1>5 DEF Complete, WriteStatus, DocStatuses, AuditStatuses, Terminal
<1>6. ASSUME NEW status \in Stages, NEW next, SetStatus(a, status, next)
      PROVE  \E r \in Locals : run' = [run EXCEPT ![a] = r]
  BY <1>0, <1>6 DEF SetStatus, WriteStatus, DocStatuses, AuditStatuses
<1>7. CASE \/ BeginExtraction(a) \/ BeginChunking(a) \/ Chunk(a) \/ BeginRetrieval(a)
           \/ MarkReranking(a) \/ BeginAnalysis(a) \/ BeginReport(a)
  BY <1>0, <1>6, <1>7 DEF BeginExtraction, BeginChunking, Chunk, BeginRetrieval,
     MarkReranking, BeginAnalysis, BeginReport, Stages
<1>8. CASE \/ ReadUpload(a) \/ Index(a) \/ FlushFindings(a) \/ StoreMarkdown(a)
           \/ CommitReport(a) \/ Refresh(a) \/ MarkFailed(a)
  BY <1>0, <1>8 DEF ReadUpload, Index, FlushFindings, StoreMarkdown, CommitReport,
     Refresh, MarkFailed
<1> QED
  BY <1>1, <1>2, <1>3, <1>4, <1>5, <1>7, <1>8 DEF WorkflowStep

\* A step of a run writes a stage or an outcome, in its own two rows only.
LEMMA RunWritesOwnRows ==
  ASSUME NEW a \in Audits, TypeOK, WorkflowStep(a)
  PROVE  /\ \/ UNCHANGED auditStatus
            \/ \E s \in Stages \cup Terminal : auditStatus' = [auditStatus EXCEPT ![a] = s]
         /\ \/ UNCHANGED docStatus
            \/ \E s \in Stages \cup Terminal : docStatus' = [docStatus EXCEPT ![DocOf[a]] = s]
<1> DEFINE Writes ==
      /\ \/ UNCHANGED auditStatus
         \/ \E s \in Stages \cup Terminal : auditStatus' = [auditStatus EXCEPT ![a] = s]
      /\ \/ UNCHANGED docStatus
         \/ \E s \in Stages \cup Terminal : docStatus' = [docStatus EXCEPT ![DocOf[a]] = s]
<1>1. ASSUME NEW status \in Stages \cup Terminal, WriteStatus(a, status)
      PROVE  Writes
  BY <1>1 DEF WriteStatus, TypeOK
<1>2. ASSUME NEW status \in Stages, NEW next, SetStatus(a, status, next)
      PROVE  Writes
  BY <1>1, <1>2 DEF SetStatus
<1>3. CASE \/ BeginExtraction(a) \/ BeginChunking(a) \/ Chunk(a) \/ BeginRetrieval(a)
           \/ MarkReranking(a) \/ BeginAnalysis(a) \/ BeginReport(a)
  BY <1>2, <1>3 DEF BeginExtraction, BeginChunking, Chunk, BeginRetrieval,
     MarkReranking, BeginAnalysis, BeginReport, Stages
<1>4. CASE Complete(a)
  BY <1>1, <1>4 DEF Complete, Terminal
<1>5. CASE MarkFailed(a)
  BY <1>5 DEF MarkFailed, Terminal
<1>6. CASE \/ LoadRun(a) \/ ReadUpload(a) \/ Index(a) \/ ClearChunks(a) \/ StoreChunks(a)
           \/ Retrieve(a) \/ Evaluate(a) \/ FlushFindings(a) \/ StoreMarkdown(a)
           \/ StoreJson(a) \/ CommitReport(a) \/ Refresh(a)
  BY <1>6 DEF LoadRun, ReadUpload, Index, ClearChunks, StoreChunks, Retrieve,
     Evaluate, FlushFindings, StoreMarkdown, StoreJson, CommitReport, Refresh, dbVars
<1> QED
  BY <1>3, <1>4, <1>5, <1>6 DEF WorkflowStep

\* The risk of a set of findings is a risk level.
LEMMA OverallRiskType == \A risks : OverallRisk(risks) \in Risks
  BY DEF OverallRisk, Risks

\* A step of a run leaves the sweep, the uploads and the environment alone.
LEMMA RunLeavesRest ==
  ASSUME NEW a \in Audits, WorkflowStep(a)
  PROVE  UNCHANGED <<cleaned, uploads, uploading, sweepVars, envVars>>
  BY DEF WorkflowStep, LoadRun, BeginExtraction, ReadUpload, BeginChunking, Chunk,
         Index, ClearChunks, StoreChunks, BeginRetrieval, Retrieve, MarkReranking,
         BeginAnalysis, Evaluate, BeginReport, FlushFindings, StoreMarkdown, StoreJson,
         CommitReport, Complete, Refresh, MarkFailed, dbVars, storeVars, RestOfDb,
         RestOfSystem

\* What a run stores outside its rows is well typed.
LEMMA RunStoresTypes ==
  ASSUME NEW a \in Audits, TypeOK, WorkflowStep(a)
  PROVE  /\ chunkRows' \in [Docs -> SUBSET Audits]
         /\ vectors' \in SUBSET Docs
         /\ reportObjects' \in [Audits -> SUBSET {"md", "json"}]
<1>1. CASE StoreChunks(a)
  BY <1>1 DEF TypeOK, StoreChunks, storeVars
<1>2. CASE Index(a)
  BY <1>2 DEF TypeOK, Index, dbVars
<1>3. CASE StoreMarkdown(a) \/ StoreJson(a)
  BY <1>3 DEF TypeOK, StoreMarkdown, StoreJson, dbVars
<1>4. CASE \/ LoadRun(a) \/ BeginExtraction(a) \/ ReadUpload(a) \/ BeginChunking(a)
           \/ Chunk(a) \/ ClearChunks(a) \/ BeginRetrieval(a) \/ Retrieve(a)
           \/ MarkReranking(a) \/ BeginAnalysis(a) \/ Evaluate(a) \/ BeginReport(a)
           \/ FlushFindings(a) \/ CommitReport(a) \/ Complete(a) \/ Refresh(a)
           \/ MarkFailed(a)
  BY <1>4 DEF TypeOK, LoadRun, BeginExtraction, ReadUpload, BeginChunking, Chunk,
     ClearChunks, BeginRetrieval, Retrieve, MarkReranking, BeginAnalysis, Evaluate,
     BeginReport, FlushFindings, CommitReport, Complete, Refresh, MarkFailed, dbVars,
     storeVars, RestOfDb
<1> QED
  BY <1>1, <1>2, <1>3, <1>4 DEF WorkflowStep

\* What a run concludes is well typed.
LEMMA RunConcludesTypes ==
  ASSUME NEW a \in Audits, TypeOK, WorkflowStep(a)
  PROVE  /\ overallRisk' \in [Audits -> Risks \cup {"none"}]
         /\ findings' \in [Audits -> SUBSET Risks]
         /\ report' \in [Audits -> Reports \cup {NoReport}]
<1>1. CASE CommitReport(a)
  <2>1. /\ run[a].json \in BOOLEAN
        /\ run[a].analysis.drafts \in SUBSET Risks
        /\ run[a].analysis.llm \in LlmStatuses
    BY DEF TypeOK, Locals, Analyses
  <2>2. [filed |-> TRUE, risk |-> OverallRisk(run[a].analysis.drafts),
         findings |-> run[a].analysis.drafts, llm |-> run[a].analysis.llm,
         json |-> run[a].json] \in Reports
    BY <2>1, OverallRiskType DEF Reports
  <2>3. \E r \in Reports : report' = [report EXCEPT ![a] = r] \/ UNCHANGED report
    BY <1>1, <2>2 DEF CommitReport
  <2>4. report' \in [Audits -> Reports \cup {NoReport}]
    BY <2>3 DEF TypeOK
  <2>5. findings' \in [Audits -> SUBSET Risks] /\ UNCHANGED overallRisk
    BY <1>1, <2>1 DEF CommitReport, TypeOK
  <2> QED
    BY <2>4, <2>5 DEF TypeOK
<1>2. CASE Complete(a)
  BY <1>2, OverallRiskType DEF TypeOK, Complete
<1>3. CASE \/ LoadRun(a) \/ BeginExtraction(a) \/ ReadUpload(a) \/ BeginChunking(a)
           \/ Chunk(a) \/ Index(a) \/ ClearChunks(a) \/ StoreChunks(a)
           \/ BeginRetrieval(a) \/ Retrieve(a) \/ MarkReranking(a) \/ BeginAnalysis(a)
           \/ Evaluate(a) \/ BeginReport(a) \/ FlushFindings(a) \/ StoreMarkdown(a)
           \/ StoreJson(a) \/ Refresh(a) \/ MarkFailed(a)
  BY <1>3 DEF TypeOK, LoadRun, BeginExtraction, ReadUpload, BeginChunking, Chunk, Index,
     ClearChunks, StoreChunks, BeginRetrieval, Retrieve, MarkReranking, BeginAnalysis,
     Evaluate, BeginReport, FlushFindings, StoreMarkdown, StoreJson, Refresh, MarkFailed,
     dbVars, RestOfDb
<1> QED
  BY <1>1, <1>2, <1>3 DEF WorkflowStep

\* A step of a run keeps the types.
LEMMA RunTypeOK ==
  ASSUME TypeOK, NEW a \in Audits, WorkflowStep(a)
  PROVE  TypeOK'
<1>1. auditStatus' \in [Audits -> AuditStatuses] /\ docStatus' \in [Docs -> DocStatuses]
  BY RunWritesOwnRows DEF TypeOK, AuditStatuses, DocStatuses
<1>2. pc' \in [Audits -> Steps]
  <2>1. PICK s \in Steps : pc' = [pc EXCEPT ![a] = s]
    BY RunMovesOneThread
  <2>2. pc \in [Audits -> Steps]
    BY DEF TypeOK
  <2> QED BY <2>1, <2>2
<1>3. run' \in [Audits -> Locals]
  <2>1. PICK r \in Locals : run' = [run EXCEPT ![a] = r]
    BY RunWritesOwnLocals
  <2>2. run \in [Audits -> Locals]
    BY DEF TypeOK
  <2> QED BY <2>1, <2>2
<1> QED
  BY <1>1, <1>2, <1>3, RunLeavesRest, RunStoresTypes, RunConcludesTypes
     DEF TypeOK, sweepVars, envVars
\* The initial state is well typed.
LEMMA InitTypeOK == Init => TypeOK
<1> SUFFICES ASSUME Init PROVE TypeOK
  OBVIOUS
<1> USE DEF Init
<1>1. docStatus \in [Docs -> DocStatuses] /\ auditStatus \in [Audits -> AuditStatuses]
  BY DEF DocStatuses, AuditStatuses
<1>2. overallRisk \in [Audits -> Risks \cup {"none"}] /\ findings \in [Audits -> SUBSET Risks]
  OBVIOUS
<1>3. report \in [Audits -> Reports \cup {NoReport}]
  OBVIOUS
<1>4. pc \in [Audits -> Steps] /\ run \in [Audits -> Locals]
  BY FreshType DEF Steps, Waiting
<1>5. crashes \in 0..MaxCrashes
  OBVIOUS
<1> QED
  BY <1>1, <1>2, <1>3, <1>4, <1>5 DEF TypeOK

\* Uploads and the clock keep the types.
LEMMA UploadTypeOK ==
  ASSUME TypeOK, NEW d \in Docs, StoreUpload(d) \/ InsertDocument(d) \/ Expire(d)
  PROVE  TypeOK'
  BY DEF TypeOK, StoreUpload, InsertDocument, Expire, dbVars, storeVars, sweepVars,
         envVars, DocStatuses, AuditStatuses

\* Requests keep the types.
LEMMA CreateTypeOK ==
  ASSUME TypeOK, NEW a \in Audits, CreateAudit(a)
  PROVE  TypeOK'
  BY DEF TypeOK, CreateAudit, storeVars, sweepVars, envVars, AuditStatuses, Steps, Waiting,
         Interrupted

\* The sweep keeps the types.
LEMMA SweepTypeOK ==
  ASSUME TypeOK, SweepStep
  PROVE  TypeOK'
<1> USE DEF TypeOK, dbVars, storeVars, sweepVars, envVars
<1>1. CASE BeginSweep
  BY <1>1 DEF BeginSweep, Sweepable
<1>2. ASSUME NEW d \in Docs, SweepObject(d) PROVE TypeOK'
  BY <1>2 DEF SweepObject
<1>3. ASSUME NEW d \in Docs, SweepMark(d) PROVE TypeOK'
  BY <1>3 DEF SweepMark, DocStatuses
<1>4. CASE EndSweep \/ SweepDies
  BY <1>4 DEF EndSweep, SweepDies
<1> QED
  BY <1>1, <1>2, <1>3, <1>4 DEF SweepStep

\* A crash keeps the types.
LEMMA CrashTypeOK ==
  ASSUME TypeOK, Crash
  PROVE  TypeOK'
<1>1. /\ pc' \in [Audits -> Steps]
      /\ run' \in [Audits -> Locals]
  BY FreshType DEF TypeOK, Crash, Steps, Interrupted
<1>2. crashes' \in 0..MaxCrashes
  BY DEF TypeOK, Crash
<1> QED
  BY <1>1, <1>2 DEF TypeOK, Crash, dbVars, storeVars
\* Every step keeps the types.
LEMMA NextTypeOK == TypeOK /\ [Next]_vars => TypeOK'
<1> SUFFICES ASSUME TypeOK, [Next]_vars PROVE TypeOK'
  OBVIOUS
<1>1. CASE UNCHANGED vars
  BY <1>1 DEF TypeOK, vars, dbVars, storeVars, sweepVars, envVars
<1> QED
  BY <1>1, UploadTypeOK, CreateTypeOK, RunTypeOK, SweepTypeOK, CrashTypeOK DEF Next

\* The fields of every row, object set and thread keep their types: statuses are
\* statuses, a filed report is whole (AuditPipeline, TypeOK).
THEOREM TypeCorrect == Spec => []TypeOK
  BY InitTypeOK, NextTypeOK, PTL DEF Spec

-----------------------------------------------------------------------------
(* The initial state *)

\* The inductive invariant holds initially.
LEMMA InitIInv == Init => IInv
<1> SUFFICES ASSUME Init PROVE IInv
  OBVIOUS
<1>1. TypeOK
  BY InitTypeOK
<1>2. \A a \in Audits : pc[a] = "none" /\ run[a] = Fresh /\ report[a].filed = FALSE
  BY DEF Init, NoReport
<1>3. RowsFollowRequests
  BY DEF Init, RowsFollowRequests
<1>4. \A a \in Audits : StatusFollowsStep(a) /\ SeenIsOwnStatus(a)
  BY <1>2 DEF StatusFollowsStep, SeenIsOwnStatus, Reporting, Running
<1>5. \A a \in Audits : ReportFollowsStep(a) /\ IngestionFollowsStep(a)
  BY <1>2 DEF ReportFollowsStep, IngestionFollowsStep, Reporting, PastIngestion, Fresh
<1>8. \A a \in Audits : FiledAtTheEnd(a)
  BY <1>2 DEF FiledAtTheEnd
<1>6. SweepHoldsExpired /\ StagesHaveAuthors
  BY DEF Init, SweepHoldsExpired, StagesHaveAuthors, Stages
<1>7. /\ ReportMatchesFindings /\ CompletedIsBacked
      /\ NoReportOfFailedAnalysis /\ ReportUriResolves
  BY <1>2 DEF Init, ReportMatchesFindings, CompletedIsBacked, NoReportOfFailedAnalysis,
     ReportUriResolves
<1> QED
  BY <1>1, <1>3, <1>4, <1>5, <1>6, <1>7, <1>8 DEF IInv, InStep

-----------------------------------------------------------------------------
(* Rows *)

\* Documents have rows once inserted, audits once requested, and no row goes.
LEMMA NextRowsFollowRequests ==
  ASSUME TypeOK, RowsFollowRequests, Next
  PROVE  RowsFollowRequests'
<1> USE DEF RowsFollowRequests, TypeOK
<1>1. ASSUME NEW d \in Docs, StoreUpload(d) \/ InsertDocument(d) \/ Expire(d)
      PROVE  RowsFollowRequests'
  BY <1>1 DEF StoreUpload, InsertDocument, Expire, dbVars, sweepVars, envVars
<1>2. ASSUME NEW a \in Audits, CreateAudit(a)
      PROVE  RowsFollowRequests'
  BY <1>2 DEF CreateAudit, envVars
<1>3. ASSUME NEW a \in Audits, WorkflowStep(a)
      PROVE  RowsFollowRequests'
  <2>1. UNCHANGED <<uploading, elapsed>>
    BY <1>3, RunLeavesRest DEF envVars
  <2> QED
    BY <1>3, <2>1, RunMovesOneThread, RunWritesOwnRows, SMTT(30) DEF Waiting, Stages, Terminal
<1>4. CASE SweepStep
  BY <1>4 DEF SweepStep, BeginSweep, SweepObject, SweepMark, EndSweep, SweepDies,
     dbVars, envVars
<1>5. CASE Crash
  BY <1>5 DEF Crash, dbVars, Running
<1> QED
  BY <1>1, <1>2, <1>3, <1>4, <1>5 DEF Next

-----------------------------------------------------------------------------
(* Retention *)

\* The sweep selects and cleans only expired user documents, and marks none whose
\* object is still stored.
LEMMA NextSweepHoldsExpired ==
  ASSUME TypeOK, RowsFollowRequests, SweepHoldsExpired, Next
  PROVE  SweepHoldsExpired'
<1> USE DEF SweepHoldsExpired
<1>1. ASSUME NEW d \in Docs, StoreUpload(d)
      PROVE  SweepHoldsExpired'
  <2>1. d \notin target \cup cleaned
    BY <1>1 DEF StoreUpload, RowsFollowRequests
  <2> QED
    BY <1>1, <2>1 DEF StoreUpload, dbVars, sweepVars, envVars
<1>2. ASSUME NEW d \in Docs, InsertDocument(d) \/ Expire(d)
      PROVE  SweepHoldsExpired'
  BY <1>2 DEF InsertDocument, Expire, dbVars, storeVars, sweepVars, envVars
<1>3. ASSUME NEW a \in Audits, CreateAudit(a)
      PROVE  SweepHoldsExpired'
  BY <1>3 DEF CreateAudit, storeVars, sweepVars, envVars
<1>4. ASSUME NEW a \in Audits, WorkflowStep(a)
      PROVE  SweepHoldsExpired'
  BY <1>4, RunLeavesRest DEF sweepVars, envVars
<1>5. CASE SweepStep
  BY <1>5 DEF SweepStep, BeginSweep, SweepObject, SweepMark, EndSweep, SweepDies,
     Sweepable, dbVars, storeVars, envVars
<1>6. CASE Crash
  BY <1>6 DEF Crash, dbVars, storeVars
<1> QED
  BY <1>1, <1>2, <1>3, <1>4, <1>5, <1>6 DEF Next

-----------------------------------------------------------------------------
(* What a step of a run does to its own thread, row and report *)

\* A step of a run leaves the row, the report and the thread of every other audit alone.
LEMMA RunDisturbsNoOther ==
  ASSUME TypeOK, NEW a \in Audits, WorkflowStep(a), NEW b \in Audits, b # a
  PROVE  /\ pc'[b] = pc[b] /\ run'[b] = run[b] /\ auditStatus'[b] = auditStatus[b]
         /\ overallRisk'[b] = overallRisk[b] /\ findings'[b] = findings[b]
         /\ report'[b] = report[b] /\ reportObjects'[b] = reportObjects[b]
<1>1. pc'[b] = pc[b] /\ run'[b] = run[b] /\ auditStatus'[b] = auditStatus[b]
  BY RunMovesOneThread, RunWritesOwnLocals, RunWritesOwnRows DEF TypeOK
<1>2. /\ overallRisk'[b] = overallRisk[b] /\ findings'[b] = findings[b]
      /\ report'[b] = report[b] /\ reportObjects'[b] = reportObjects[b]
  BY DEF WorkflowStep, TypeOK, LoadRun, BeginExtraction, ReadUpload, BeginChunking, Chunk,
         Index, ClearChunks, StoreChunks, BeginRetrieval, Retrieve, MarkReranking,
         BeginAnalysis, Evaluate, BeginReport, FlushFindings, StoreMarkdown, StoreJson,
         CommitReport, Complete, Refresh, MarkFailed, dbVars, storeVars, RestOfDb
<1> QED
  BY <1>1, <1>2

\* What SetStatus does to its own thread and row.
LEMMA SetStatusEffect ==
  ASSUME TypeOK, NEW a \in Audits, NEW status, NEW next, SetStatus(a, status, next)
  PROVE  \/ /\ pc'[a] = next /\ auditStatus'[a] = status /\ run'[a].seen = status
            /\ run'[a].analysis = run[a].analysis /\ run'[a].json = run[a].json
         \/ /\ pc'[a] = "failing" /\ auditStatus'[a] = auditStatus[a]
            /\ run'[a] = Fresh
  BY DEF SetStatus, WriteStatus, Raise, Goto, TypeOK, Locals

\* What the steps that write another field of the locals leave of them.
LEMMA LocalsKept ==
  ASSUME TypeOK, NEW a \in Audits
  PROVE  /\ LoadRun(a) => run'[a] = Fresh \/ run'[a].json = run[a].json
         /\ ClearChunks(a) \/ StoreChunks(a) \/ Retrieve(a) \/ Evaluate(a) =>
              \/ pc'[a] = "failing" /\ run'[a] = Fresh
              \/ run'[a].seen = run[a].seen /\ run'[a].json = run[a].json
         /\ StoreJson(a) =>
              /\ run'[a].seen = run[a].seen /\ run'[a].analysis = run[a].analysis
              /\ \/ run'[a].json = run[a].json /\ reportObjects'[a] = reportObjects[a]
                 \/ reportObjects'[a] = reportObjects[a] \cup {"json"}
<1> USE DEF TypeOK, Locals, Goto, Raise, Leave
<1> DEFINE Kept == \/ pc'[a] = "failing" /\ run'[a] = Fresh
                   \/ run'[a].seen = run[a].seen /\ run'[a].json = run[a].json
<1>1. ASSUME LoadRun(a) PROVE run'[a] = Fresh \/ run'[a].json = run[a].json
  BY <1>1 DEF LoadRun
<1>2. ASSUME ClearChunks(a) PROVE Kept
  BY <1>2 DEF ClearChunks
<1>3. ASSUME StoreChunks(a) PROVE Kept
  BY <1>3 DEF StoreChunks
<1>4. ASSUME Retrieve(a) PROVE Kept
  BY <1>4 DEF Retrieve
<1>5. ASSUME Evaluate(a) PROVE Kept
  BY <1>5 DEF Evaluate
<1>6. ASSUME StoreJson(a)
      PROVE  /\ run'[a].seen = run[a].seen /\ run'[a].analysis = run[a].analysis
             /\ \/ run'[a].json = run[a].json /\ reportObjects'[a] = reportObjects[a]
                \/ reportObjects'[a] = reportObjects[a] \cup {"json"}
  BY <1>6 DEF StoreJson
<1> HIDE DEF TypeOK, Locals, Goto, Raise, Leave, Kept
<1>7. ClearChunks(a) \/ StoreChunks(a) \/ Retrieve(a) \/ Evaluate(a) => Kept
  BY <1>2, <1>3, <1>4, <1>5
<1> QED
  BY <1>1, <1>6, <1>7 DEF Kept

\* What Complete does to its own thread and row.
LEMMA CompleteEffect ==
  ASSUME TypeOK, NEW a \in Audits, Complete(a)
  PROVE  /\ pc[a] = "complete"
         /\ \/ /\ pc'[a] = "refresh" /\ auditStatus'[a] = "completed"
               /\ run'[a].seen = "completed" /\ run'[a].json = run[a].json
            \/ /\ pc'[a] = "failing" /\ auditStatus'[a] = auditStatus[a]
               /\ run'[a] = Fresh
  BY DEF Complete, WriteStatus, Raise, Goto, TypeOK, Locals

-----------------------------------------------------------------------------
(* A run keeps in step with its rows *)

\* A step of a run keeps its status in line with the step it has reached, and its
\* session's view of the document's status with its own.
LEMMA RunStatusFollowsStep ==
  ASSUME TypeOK, NEW a \in Audits, RowsPresent(a),
         StatusFollowsStep(a), SeenIsOwnStatus(a), WorkflowStep(a)
  PROVE  StatusFollowsStep(a)' /\ SeenIsOwnStatus(a)'
<1>0. /\ run[a] \in Locals /\ run \in [Audits -> Locals] /\ pc \in [Audits -> Steps]
      /\ auditStatus \in [Audits -> AuditStatuses]
  BY DEF TypeOK
<1> USE <1>0 DEF StatusFollowsStep, SeenIsOwnStatus, Running, Reporting, Stages
<1>1. CASE LoadRun(a)
  BY <1>1 DEF LoadRun, Goto, Leave, dbVars
<1>2. CASE BeginExtraction(a)
  BY <1>2, SetStatusEffect DEF BeginExtraction
<1>3. CASE ReadUpload(a)
  BY <1>3 DEF ReadUpload, Goto, Raise, dbVars
<1>4. CASE BeginChunking(a)
  BY <1>4, SetStatusEffect DEF BeginChunking
<1>5. CASE Chunk(a)
  BY <1>5, SetStatusEffect DEF Chunk, Raise, Goto
<1>20. CASE Index(a)
  BY <1>20 DEF Index, Goto, Raise, dbVars
<1>6. CASE ClearChunks(a)
  BY <1>6, LocalsKept DEF ClearChunks, Goto, Raise, dbVars
<1>7. CASE StoreChunks(a)
  BY <1>7, LocalsKept DEF StoreChunks, Goto, Raise
<1>8. CASE BeginRetrieval(a)
  BY <1>8, SetStatusEffect DEF BeginRetrieval
<1>9. CASE Retrieve(a)
  BY <1>9, LocalsKept DEF Retrieve, Goto, Raise, dbVars
<1>10. CASE MarkReranking(a)
  BY <1>10, SetStatusEffect DEF MarkReranking
<1>11. CASE BeginAnalysis(a)
  BY <1>11, SetStatusEffect DEF BeginAnalysis
<1>12. CASE Evaluate(a)
  BY <1>12, LocalsKept DEF Evaluate, Goto, Raise, dbVars
<1>13. CASE BeginReport(a)
  BY <1>13, SetStatusEffect DEF BeginReport, Raise, Goto
<1>14. CASE FlushFindings(a)
  BY <1>14 DEF FlushFindings, Goto, Raise, dbVars
<1>15. CASE StoreMarkdown(a)
  BY <1>15 DEF StoreMarkdown, StoreJson, Goto, dbVars
<1>21. CASE StoreJson(a)
  BY <1>21, LocalsKept DEF StoreMarkdown, StoreJson, Goto, dbVars
<1>16. CASE CommitReport(a)
  BY <1>16 DEF CommitReport, Goto, Raise
<1>17. CASE Complete(a)
  BY <1>17, CompleteEffect
<1>18. CASE Refresh(a)
  BY <1>18 DEF Refresh, Goto, Raise, Leave, dbVars, DbRaises
<1>19. CASE MarkFailed(a)
  BY <1>19 DEF MarkFailed, Goto, Leave
<1> QED
  BY <1>1, <1>2, <1>3, <1>4, <1>5, <1>6, <1>7, <1>8, <1>9, <1>10, <1>11, <1>12, <1>13,
     <1>14, <1>15, <1>16, <1>17, <1>18, <1>19, <1>20, <1>21 DEF WorkflowStep

\* A step of a run keeps its report in line with the step it has reached: what it is
\* about to file is finalizable, and a URI it holds names stored objects.
LEMMA RunReportFollowsStep ==
  ASSUME TypeOK, NEW a \in Audits, ReportFollowsStep(a), WorkflowStep(a)
  PROVE  ReportFollowsStep(a)'
<1>0. /\ run[a] \in Locals /\ run \in [Audits -> Locals] /\ pc \in [Audits -> Steps]
      /\ reportObjects \in [Audits -> SUBSET {"md", "json"}]
      /\ report \in [Audits -> Reports \cup {NoReport}]
  BY DEF TypeOK
<1>f. Fresh.json = FALSE
  BY DEF Fresh
<1> USE <1>0, <1>f DEF ReportFollowsStep, Reporting, Finalizable
<1>1. CASE LoadRun(a) \/ ClearChunks(a)
  BY <1>1, LocalsKept DEF LoadRun, ClearChunks, Goto, Raise, Leave, dbVars, storeVars
<1>2. ASSUME NEW status, NEW next, next \notin Reporting, SetStatus(a, status, next),
             UNCHANGED reportObjects
      PROVE  ReportFollowsStep(a)'
  BY <1>2, SetStatusEffect
<1>3. CASE \/ BeginExtraction(a) \/ BeginChunking(a) \/ Chunk(a) \/ BeginRetrieval(a)
           \/ MarkReranking(a) \/ BeginAnalysis(a)
  BY <1>2, <1>3 DEF BeginExtraction, BeginChunking, Chunk, BeginRetrieval, MarkReranking,
     BeginAnalysis, storeVars, Raise, Goto
<1>4. CASE ReadUpload(a) \/ Index(a)
  BY <1>4 DEF ReadUpload, Index, Goto, Raise, storeVars
<1>5. CASE StoreChunks(a)
  BY <1>5, LocalsKept DEF StoreChunks, Goto, Raise, storeVars
<1>6. CASE Retrieve(a)
  BY <1>6, LocalsKept DEF Retrieve, Goto, Raise, storeVars
<1>7. CASE Evaluate(a)
  BY <1>7, LocalsKept DEF Evaluate, Goto, Raise, storeVars
<1>8. CASE BeginReport(a)
  BY <1>8, SetStatusEffect DEF BeginReport, storeVars, Raise, Goto
<1>9. CASE FlushFindings(a)
  BY <1>9 DEF FlushFindings, Goto, Raise, storeVars
<1>10. CASE StoreMarkdown(a)
  BY <1>10 DEF StoreMarkdown, Goto, dbVars
<1>11. CASE StoreJson(a)
  <2>1. pc[a] = "store_json" /\ pc'[a] = "commit_report"
    BY <1>11 DEF StoreJson, Goto
  <2>2. /\ run'[a].analysis = run[a].analysis
        /\ \/ run'[a].json = run[a].json /\ reportObjects'[a] = reportObjects[a]
           \/ reportObjects'[a] = reportObjects[a] \cup {"json"}
    BY <1>11, LocalsKept
  <2> QED
    BY <2>1, <2>2
<1>12. CASE CommitReport(a)
  BY <1>12 DEF CommitReport, Goto, Raise, storeVars
<1>13. CASE Complete(a)
  BY <1>13, CompleteEffect DEF Complete, storeVars
<1>14. CASE Refresh(a) \/ MarkFailed(a)
  BY <1>14 DEF Refresh, MarkFailed, Goto, Raise, Leave, storeVars
<1> QED
  BY <1>1, <1>3, <1>4, <1>5, <1>6, <1>7, <1>8, <1>9, <1>10, <1>11, <1>12, <1>13, <1>14
     DEF WorkflowStep

\* A run has its report on file only from the commit of the report on.
LEMMA RunFilesAtTheEnd ==
  ASSUME TypeOK, NEW a \in Audits, FiledAtTheEnd(a), WorkflowStep(a)
  PROVE  FiledAtTheEnd(a)'
<1>0. pc \in [Audits -> Steps] /\ report \in [Audits -> Reports \cup {NoReport}]
  BY DEF TypeOK
<1> USE <1>0 DEF FiledAtTheEnd, Interrupted, Goto, Raise, Leave
<1>1. CASE CommitReport(a)
  BY <1>1 DEF CommitReport
<1>2. CASE \/ BeginExtraction(a) \/ BeginChunking(a) \/ Chunk(a) \/ BeginRetrieval(a)
           \/ MarkReranking(a) \/ BeginAnalysis(a) \/ BeginReport(a)
  BY <1>2 DEF BeginExtraction, BeginChunking, Chunk, BeginRetrieval, MarkReranking,
     BeginAnalysis, BeginReport, RestOfDb
<1>3. CASE Complete(a)
  BY <1>3 DEF Complete
<1>4. CASE \/ LoadRun(a) \/ ReadUpload(a) \/ Index(a) \/ ClearChunks(a) \/ StoreChunks(a)
           \/ Retrieve(a) \/ Evaluate(a) \/ FlushFindings(a) \/ StoreMarkdown(a)
           \/ StoreJson(a) \/ Refresh(a) \/ MarkFailed(a)
  BY <1>4 DEF LoadRun, ReadUpload, Index, ClearChunks, StoreChunks, Retrieve, Evaluate,
     FlushFindings, StoreMarkdown, StoreJson, Refresh, MarkFailed, dbVars, RestOfDb
<1> QED
  BY <1>1, <1>2, <1>3, <1>4 DEF WorkflowStep

\* No step removes the vectors of a document or empties its chunk rows.
LEMMA RunKeepsIngested ==
  ASSUME TypeOK, NEW a \in Audits, WorkflowStep(a), NEW d \in Docs
  PROVE  /\ d \in vectors => d \in vectors'
         /\ chunkRows[d] # {} => chunkRows'[d] # {}
<1>1. CASE StoreChunks(a)
  <2>1. \/ UNCHANGED chunkRows
        \/ chunkRows' = [chunkRows EXCEPT ![DocOf[a]] = (@ \ run[a].doomed) \cup {a}]
    BY <1>1 DEF StoreChunks
  <2>2. chunkRows[d] # {} => chunkRows'[d] # {}
    <3>1. CASE d = DocOf[a]
      <4>1. \/ chunkRows'[d] = chunkRows[d]
            \/ chunkRows'[d] = (chunkRows[d] \ run[a].doomed) \cup {a}
        BY <2>1, <3>1 DEF TypeOK
      <4> QED
        BY <4>1
    <3>2. CASE d # DocOf[a]
      BY <2>1, <3>2 DEF TypeOK
    <3> QED
      BY <3>1, <3>2
  <2> QED
    BY <1>1, <2>2 DEF StoreChunks, storeVars
<1>2. CASE Index(a)
  BY <1>2 DEF TypeOK, Index, dbVars
<1>3. CASE \/ LoadRun(a) \/ BeginExtraction(a) \/ ReadUpload(a) \/ BeginChunking(a)
           \/ Chunk(a) \/ ClearChunks(a) \/ BeginRetrieval(a) \/ Retrieve(a)
           \/ MarkReranking(a) \/ BeginAnalysis(a) \/ Evaluate(a) \/ BeginReport(a)
           \/ FlushFindings(a) \/ StoreMarkdown(a) \/ StoreJson(a) \/ CommitReport(a)
           \/ Complete(a) \/ Refresh(a) \/ MarkFailed(a)
  BY <1>3 DEF LoadRun, BeginExtraction, ReadUpload, BeginChunking, Chunk, ClearChunks,
     BeginRetrieval, Retrieve, MarkReranking, BeginAnalysis, Evaluate, BeginReport,
     FlushFindings, StoreMarkdown, StoreJson, CommitReport, Complete, Refresh, MarkFailed,
     dbVars, storeVars, RestOfDb
<1> QED
  BY <1>1, <1>2, <1>3 DEF WorkflowStep

\* A step of a run reaches retrieval only through indexing and chunk rows.
LEMMA RunIngestionFollowsStep ==
  ASSUME TypeOK, NEW a \in Audits, IngestionFollowsStep(a), WorkflowStep(a)
  PROVE  IngestionFollowsStep(a)'
<1>0. /\ DocOf[a] \in Docs /\ pc \in [Audits -> Steps]
      /\ chunkRows \in [Docs -> SUBSET Audits]
      /\ DocOf[a] \in vectors => DocOf[a] \in vectors'
      /\ chunkRows[DocOf[a]] # {} => chunkRows'[DocOf[a]] # {}
  BY RunKeepsIngested DEF TypeOK
<1> USE <1>0 DEF IngestionFollowsStep, PastIngestion, Goto, Raise, Leave
<1>1. CASE \/ LoadRun(a) \/ ReadUpload(a) \/ ClearChunks(a) \/ Retrieve(a) \/ Evaluate(a)
           \/ FlushFindings(a) \/ StoreMarkdown(a) \/ StoreJson(a) \/ CommitReport(a)
           \/ Refresh(a) \/ MarkFailed(a)
  BY <1>1 DEF LoadRun, ReadUpload, ClearChunks, Retrieve, Evaluate, FlushFindings,
     StoreMarkdown, StoreJson, CommitReport, Refresh, MarkFailed
<1>2. CASE Index(a)
  BY <1>2 DEF Index
<1>3. CASE StoreChunks(a)
  BY <1>3 DEF StoreChunks
<1>4. CASE \/ BeginExtraction(a) \/ BeginChunking(a) \/ Chunk(a) \/ BeginRetrieval(a)
           \/ MarkReranking(a) \/ BeginAnalysis(a) \/ BeginReport(a)
  BY <1>4, SetStatusEffect DEF BeginExtraction, BeginChunking, Chunk, BeginRetrieval,
     MarkReranking, BeginAnalysis, BeginReport
<1>5. CASE Complete(a)
  BY <1>5, CompleteEffect
<1> QED
  BY <1>1, <1>2, <1>3, <1>4, <1>5 DEF WorkflowStep

-----------------------------------------------------------------------------
\* Every step keeps every audit in step with its rows.
LEMMA NextInStep ==
  ASSUME TypeOK, RowsFollowRequests, \A a \in Audits : InStep(a), Next,
         NEW b \in Audits
  PROVE  InStep(b)'
<1> USE DEF StatusFollowsStep, SeenIsOwnStatus, ReportFollowsStep, IngestionFollowsStep,
            FiledAtTheEnd, Finalizable
<1>1. ASSUME UNCHANGED <<pc, run, auditStatus, report, chunkRows, reportObjects, vectors>>
      PROVE  InStep(b)'
  BY <1>1 DEF InStep
<1>2. ASSUME NEW d \in Docs, StoreUpload(d) \/ InsertDocument(d) \/ Expire(d)
      PROVE  InStep(b)'
  BY <1>1, <1>2 DEF StoreUpload, InsertDocument, Expire, dbVars, storeVars
<1>3. CASE SweepStep
  BY <1>1, <1>3 DEF SweepStep, BeginSweep, SweepObject, SweepMark, EndSweep, SweepDies,
     dbVars, storeVars
<1>4. ASSUME NEW a \in Audits, CreateAudit(a)
      PROVE  InStep(b)'
  <2>1. CASE b # a
    BY <1>4, <2>1 DEF InStep, CreateAudit, TypeOK, storeVars
  <2>2. CASE b = a
    BY <1>4, <2>2 DEF InStep, CreateAudit, TypeOK, storeVars, Running, Reporting, PastIngestion,
       Interrupted
  <2> QED
    BY <2>1, <2>2
<1>5. ASSUME NEW a \in Audits, WorkflowStep(a)
      PROVE  InStep(b)'
  <2>1. CASE b = a
    <3>1. RowsPresent(a)
      BY <1>5, RunMovesOneThread DEF RowsFollowRequests, RowsPresent
    <3> QED
      BY <1>5, <2>1, <3>1, RunStatusFollowsStep, RunReportFollowsStep, RunFilesAtTheEnd,
         RunIngestionFollowsStep
         DEF InStep
  <2>2. CASE b # a
    <3>1. /\ pc'[b] = pc[b] /\ run'[b] = run[b] /\ auditStatus'[b] = auditStatus[b]
          /\ report'[b] = report[b] /\ reportObjects'[b] = reportObjects[b]
      BY <1>5, <2>2, RunDisturbsNoOther
    <3>2. /\ DocOf[b] \in vectors => DocOf[b] \in vectors'
          /\ chunkRows[DocOf[b]] # {} => chunkRows'[DocOf[b]] # {}
      BY <1>5, RunKeepsIngested
    <3> QED
      BY <3>1, <3>2 DEF InStep
  <2> QED
    BY <2>1, <2>2
<1>6. CASE Crash
  <2>1. pc[b] \in Steps /\ pc'[b] = IF pc[b] \in Running \cup {"scheduled"} THEN "lost" ELSE pc[b]
    BY <1>6 DEF Crash, TypeOK
  <2>2. pc'[b] \in {"none", "finished"} \cup Interrupted
    BY <2>1 DEF Steps, Waiting, Interrupted
  <2> QED
    BY <1>6, <2>2 DEF InStep, Crash, Running, Reporting, PastIngestion, Interrupted, Fresh,
       dbVars, storeVars
<1> QED
  BY <1>2, <1>3, <1>4, <1>5, <1>6 DEF Next

-----------------------------------------------------------------------------
(* Documents in progress *)

\* A run that is over, or about to return, shows no stage on its document; one that
\* is not is the author of whatever stage the document shows.
LEMMA RunKeepsAuthors ==
  ASSUME TypeOK, StagesHaveAuthors, NEW a \in Audits, WorkflowStep(a),
         pc[a] = "complete" => run[a].seen # "completed"
  PROVE  StagesHaveAuthors'
<1>1. /\ pc \in [Audits -> Steps] /\ docStatus \in [Docs -> DocStatuses]
      /\ DocOf[a] \in Docs
  BY DEF TypeOK
<1>2. ASSUME Unfinished(a)', \/ UNCHANGED docStatus
                             \/ \E s : docStatus' = [docStatus EXCEPT ![DocOf[a]] = s]
      PROVE  StagesHaveAuthors'
  BY <1>1, <1>2, RunMovesOneThread DEF StagesHaveAuthors, Unfinished
<1>3. ASSUME docStatus'[DocOf[a]] \notin Stages, \/ UNCHANGED docStatus
                             \/ \E s : docStatus' = [docStatus EXCEPT ![DocOf[a]] = s]
      PROVE  StagesHaveAuthors'
  BY <1>1, <1>3, RunMovesOneThread DEF StagesHaveAuthors, Unfinished
<1>4. \/ UNCHANGED docStatus
      \/ \E s : docStatus' = [docStatus EXCEPT ![DocOf[a]] = s]
  BY RunWritesOwnRows
<1>5. CASE Complete(a)
  <2>1. CASE pc'[a] = "failing"
    BY <1>2, <1>4, <2>1 DEF Unfinished, Running
  <2>2. CASE pc'[a] # "failing"
    <3>1. run[a].seen # "completed"
      BY <1>5 DEF Complete
    <3>2. docStatus'[DocOf[a]] = "completed"
      BY <1>1, <1>5, <2>2, <3>1 DEF Complete, WriteStatus, Raise, Goto
    <3> QED
      BY <1>3, <1>4, <3>2 DEF Stages
  <2> QED
    BY <2>1, <2>2
<1>6. CASE Refresh(a)
  <2>1. UNCHANGED docStatus /\ ~Unfinished(a) /\ DocOf[a] \in Docs
    BY <1>1, <1>6 DEF Refresh, dbVars, Unfinished, Interrupted
  <2> QED
    BY <1>1, <2>1, RunMovesOneThread DEF StagesHaveAuthors, Unfinished
<1>7. CASE MarkFailed(a)
  BY <1>1, <1>2, <1>3, <1>4, <1>7 DEF MarkFailed, Leave, Goto, Unfinished, Interrupted, Stages
<1>8. CASE LoadRun(a)
  BY <1>1, <1>2, <1>4, <1>8 DEF LoadRun, Leave, Goto, Unfinished, Running, Interrupted
<1>9. CASE \/ ReadUpload(a) \/ Index(a) \/ ClearChunks(a) \/ StoreChunks(a) \/ Retrieve(a)
           \/ Evaluate(a) \/ FlushFindings(a) \/ StoreMarkdown(a) \/ StoreJson(a)
           \/ CommitReport(a)
  BY <1>1, <1>2, <1>4, <1>9 DEF ReadUpload, Index, ClearChunks, StoreChunks, Retrieve,
     Evaluate, FlushFindings, StoreMarkdown, StoreJson, CommitReport, Raise, Goto,
     Unfinished, Running
<1>10. CASE \/ BeginExtraction(a) \/ BeginChunking(a) \/ Chunk(a) \/ BeginRetrieval(a)
            \/ MarkReranking(a) \/ BeginAnalysis(a) \/ BeginReport(a)
  BY <1>1, <1>2, <1>4, <1>10 DEF BeginExtraction, BeginChunking, Chunk, BeginRetrieval,
     MarkReranking, BeginAnalysis, BeginReport, SetStatus, Raise, Goto, Unfinished, Running
<1> QED
  BY <1>5, <1>6, <1>7, <1>8, <1>9, <1>10 DEF WorkflowStep

\* No step leaves a document in a stage without an unfinished audit.
LEMMA NextStagesHaveAuthors ==
  ASSUME TypeOK, RowsFollowRequests, StagesHaveAuthors, \A a \in Audits : InStep(a), Next
  PROVE  StagesHaveAuthors'
<1> USE DEF StagesHaveAuthors, Unfinished
<1>1. ASSUME NEW d \in Docs, StoreUpload(d) \/ InsertDocument(d) \/ Expire(d)
      PROVE  StagesHaveAuthors'
  BY <1>1 DEF StoreUpload, InsertDocument, Expire, TypeOK, dbVars, Stages
<1>2. ASSUME NEW a \in Audits, CreateAudit(a)
      PROVE  StagesHaveAuthors'
  BY <1>2 DEF CreateAudit, TypeOK, Running, Interrupted
<1>3. ASSUME NEW a \in Audits, WorkflowStep(a)
      PROVE  StagesHaveAuthors'
  <2>1. pc[a] = "complete" => run[a].seen # "completed"
    BY DEF InStep, SeenIsOwnStatus, StatusFollowsStep, Running, Reporting
  <2> QED
    BY <1>3, <2>1, RunKeepsAuthors
<1>4. CASE SweepStep
  BY <1>4 DEF SweepStep, BeginSweep, SweepObject, SweepMark, EndSweep, SweepDies, TypeOK,
     dbVars, Stages
<1>5. CASE Crash
  BY <1>5 DEF Crash, TypeOK, dbVars, Interrupted, Running
<1> QED
  BY <1>1, <1>2, <1>3, <1>4, <1>5 DEF Next

-----------------------------------------------------------------------------
(* Reports *)

\* Steps that file no report and complete no audit keep what holds of the reports.
LEMMA ReportsUndisturbed ==
  ASSUME ReportsHold, UNCHANGED <<findings, report, overallRisk>>,
         \A a \in Audits : /\ reportObjects[a] \subseteq reportObjects'[a]
                           /\ auditStatus'[a] = "completed" => auditStatus[a] = "completed"
  PROVE  ReportsHold'
  BY DEF ReportsHold, ReportMatchesFindings, CompletedIsBacked, NoReportOfFailedAnalysis,
         ReportUriResolves

\* A run files what it found once, and completes only over what it filed.
LEMMA RunKeepsReports ==
  ASSUME TypeOK, ReportsHold, NEW a \in Audits, InStep(a), WorkflowStep(a)
  PROVE  ReportsHold'
<1> USE DEF TypeOK
<1>1. CASE CommitReport(a)
  <2>1. CASE UNCHANGED <<findings, report>>
    BY <1>1, <2>1, ReportsUndisturbed DEF CommitReport, storeVars
  <2>2. CASE ~UNCHANGED <<findings, report>>
    <3>1. /\ auditStatus[a] # "completed" /\ UNCHANGED <<auditStatus, overallRisk, reportObjects>>
          /\ Finalizable(a)
          /\ run[a].json => {"md", "json"} \subseteq reportObjects[a]
      BY <1>1 DEF CommitReport, storeVars, InStep, StatusFollowsStep, ReportFollowsStep, Reporting
    <3>2. /\ findings'[a] = run[a].analysis.drafts
          /\ report'[a] = [filed |-> TRUE, risk |-> OverallRisk(run[a].analysis.drafts),
                           findings |-> run[a].analysis.drafts, llm |-> run[a].analysis.llm,
                           json |-> run[a].json]
          /\ \A b \in Audits \ {a} : findings'[b] = findings[b] /\ report'[b] = report[b]
      BY <1>1, <2>2 DEF CommitReport
    <3> QED
      BY <3>1, <3>2 DEF ReportsHold, ReportMatchesFindings, CompletedIsBacked,
         NoReportOfFailedAnalysis, ReportUriResolves, Finalizable
  <2> QED
    BY <2>1, <2>2
<1>2. CASE Complete(a)
  <2>1. CASE UNCHANGED <<auditStatus, overallRisk>>
    BY <1>2, <2>1, ReportsUndisturbed DEF Complete, storeVars
  <2>2. CASE ~UNCHANGED <<auditStatus, overallRisk>>
    <3>1. /\ report[a].filed /\ report[a].findings = run[a].analysis.drafts
          /\ UNCHANGED <<findings, report, reportObjects>>
      BY <1>2 DEF Complete, storeVars, InStep, ReportFollowsStep
    <3>2. /\ overallRisk'[a] = OverallRisk(run[a].analysis.drafts)
          /\ \A b \in Audits \ {a} : /\ overallRisk'[b] = overallRisk[b]
                                     /\ auditStatus'[b] = auditStatus[b]
      BY <1>2, <2>2 DEF Complete, WriteStatus
    <3> QED
      BY <3>1, <3>2 DEF ReportsHold, ReportMatchesFindings, CompletedIsBacked,
         NoReportOfFailedAnalysis, ReportUriResolves
  <2> QED
    BY <2>1, <2>2
<1>3. CASE StoreMarkdown(a) \/ StoreJson(a)
  BY <1>3, ReportsUndisturbed DEF StoreMarkdown, StoreJson, dbVars
<1>4. ASSUME NEW status \in Stages, NEW next, SetStatus(a, status, next)
      PROVE  \A b \in Audits : auditStatus'[b] = "completed" => auditStatus[b] = "completed"
  BY <1>4 DEF SetStatus, WriteStatus, Stages
<1>5. CASE \/ BeginExtraction(a) \/ BeginChunking(a) \/ Chunk(a) \/ BeginRetrieval(a)
           \/ MarkReranking(a) \/ BeginAnalysis(a) \/ BeginReport(a)
  BY <1>4, <1>5, ReportsUndisturbed DEF BeginExtraction, BeginChunking, Chunk,
     BeginRetrieval, MarkReranking, BeginAnalysis, BeginReport, Stages, RestOfDb, storeVars
<1>6. CASE \/ LoadRun(a) \/ ReadUpload(a) \/ Index(a) \/ ClearChunks(a) \/ StoreChunks(a)
           \/ Retrieve(a) \/ Evaluate(a) \/ FlushFindings(a) \/ Refresh(a) \/ MarkFailed(a)
  BY <1>6, ReportsUndisturbed DEF LoadRun, ReadUpload, Index, ClearChunks, StoreChunks,
     Retrieve, Evaluate, FlushFindings, Refresh, MarkFailed, RestOfDb, storeVars, dbVars
<1> QED
  BY <1>1, <1>2, <1>3, <1>5, <1>6 DEF WorkflowStep

\* Every step keeps what holds of the reports.
LEMMA NextReportsHold ==
  ASSUME TypeOK, RowsFollowRequests, ReportsHold, \A a \in Audits : InStep(a), Next
  PROVE  ReportsHold'
<1>1. ASSUME NEW d \in Docs, StoreUpload(d) \/ InsertDocument(d) \/ Expire(d)
      PROVE  ReportsHold'
  BY <1>1, ReportsUndisturbed DEF StoreUpload, InsertDocument, Expire, dbVars, storeVars
<1>2. ASSUME NEW a \in Audits, CreateAudit(a)
      PROVE  ReportsHold'
  BY <1>2, ReportsUndisturbed DEF CreateAudit, TypeOK, storeVars
<1>3. ASSUME NEW a \in Audits, WorkflowStep(a)
      PROVE  ReportsHold'
  BY <1>3, RunKeepsReports
<1>4. CASE SweepStep
  BY <1>4, ReportsUndisturbed DEF SweepStep, BeginSweep, SweepObject, SweepMark, EndSweep,
     SweepDies, dbVars, storeVars
<1>5. CASE Crash
  BY <1>5, ReportsUndisturbed DEF Crash, dbVars, storeVars
<1> QED
  BY <1>1, <1>2, <1>3, <1>4, <1>5 DEF Next

-----------------------------------------------------------------------------
(* The system *)

\* Every step keeps the inductive invariant.
LEMMA NextIInv == IInv /\ [Next]_vars => IInv'
<1> SUFFICES ASSUME IInv, [Next]_vars PROVE IInv'
  OBVIOUS
<1>1. TypeOK'
  BY NextTypeOK DEF IInv
<1>2. CASE Next
  <2>1. TypeOK /\ RowsFollowRequests /\ (\A a \in Audits : InStep(a)) /\ ReportsHold
    BY DEF IInv, ReportsHold
  <2>2. RowsFollowRequests'
    BY <1>2, <2>1, NextRowsFollowRequests
  <2>3. \A a \in Audits : InStep(a)'
    BY <1>2, <2>1, NextInStep
  <2>4. SweepHoldsExpired'
    BY <1>2, <2>1, NextSweepHoldsExpired DEF IInv
  <2>5. StagesHaveAuthors'
    BY <1>2, <2>1, NextStagesHaveAuthors DEF IInv
  <2>6. ReportsHold'
    BY <1>2, <2>1, NextReportsHold
  <2> QED
    BY <1>1, <2>2, <2>3, <2>4, <2>5, <2>6 DEF IInv, ReportsHold
<1>3. CASE UNCHANGED vars
  BY <1>1, <1>3 DEF vars, dbVars, storeVars, sweepVars, envVars, IInv, RowsFollowRequests,
     InStep, StatusFollowsStep, SeenIsOwnStatus, ReportFollowsStep, Finalizable,
     FiledAtTheEnd, IngestionFollowsStep, SweepHoldsExpired, StagesHaveAuthors, Unfinished,
     ReportMatchesFindings, CompletedIsBacked, NoReportOfFailedAnalysis, ReportUriResolves
<1> QED
  BY <1>2, <1>3

\* The inductive invariant holds of every behaviour of the pipeline.
THEOREM Inductive == Spec => []IInv
  BY InitIInv, NextIInv, PTL DEF Spec

\* Findings, report, files and row of an audit agree, whatever fails in between.
THEOREM ReportsAlwaysHold == Spec => []ReportsHold
<1>1. IInv => ReportsHold
  BY DEF IInv, ReportsHold
<1> QED
  BY <1>1, Inductive, PTL

\* The report of an audit and its findings appear together and agree.
THEOREM ReportsMatchFindings == Spec => []ReportMatchesFindings
<1>1. IInv => ReportMatchesFindings
  BY DEF IInv
<1> QED
  BY <1>1, Inductive, PTL

\* A completed audit has its report, and shows its risk.
THEOREM CompletionIsBacked == Spec => []CompletedIsBacked
<1>1. IInv => CompletedIsBacked
  BY DEF IInv
<1> QED
  BY <1>1, Inductive, PTL

\* No failed model call with nothing found is reported.
THEOREM FailedAnalysisUnreported == Spec => []NoReportOfFailedAnalysis
<1>1. IInv => NoReportOfFailedAnalysis
  BY DEF IInv
<1> QED
  BY <1>1, Inductive, PTL

\* The JSON object a report row names is stored.
THEOREM ReportUrisResolve == Spec => []ReportUriResolves
<1>1. IInv => ReportUriResolves
  BY DEF IInv
<1> QED
  BY <1>1, Inductive, PTL

\* Only a running or interrupted audit leaves its document in a stage.
THEOREM NoDocumentStranded == Spec => []NoStrandedDocument
<1>1. IInv => NoStrandedDocument
  BY DEF IInv, StagesHaveAuthors, NoStrandedDocument, InProgress, Unfinished
<1> QED
  BY <1>1, Inductive, PTL

\* A document marked as cleaned is expired, of a user, and without its object.
THEOREM CleanedAreGone == Spec => []CleanedMeansGone
<1>1. IInv => CleanedMeansGone
  BY DEF IInv, SweepHoldsExpired, CleanedMeansGone
<1> QED
  BY <1>1, Inductive, PTL

\* Rules are retrieved for a document only once it has vectors and chunk rows.
THEOREM RetrievalFollowsIngestion == Spec => []IngestedBeforeRetrieval
<1>1. IInv => IngestedBeforeRetrieval
  BY DEF IInv, InStep, IngestionFollowsStep, IngestedBeforeRetrieval
<1> QED
  BY <1>1, Inductive, PTL

-----------------------------------------------------------------------------
(* Status *)

Forward(a) ==
  /\ Rank[auditStatus[a]] <= Rank[auditStatus'[a]]
  /\ auditStatus[a] = "completed" /\ auditStatus'[a] # "completed" => DbMayFail

\* A status that stays is no move back.
LEMMA StaysForward ==
  ASSUME TypeOK, NEW a \in Audits, auditStatus'[a] = auditStatus[a]
  PROVE  Forward(a)
<1>1. auditStatus[a] \in AuditStatuses
  BY DEF TypeOK
<1>2. Rank[auditStatus[a]] \in Nat
  BY <1>1 DEF Rank, AuditStatuses, Stages, Terminal
<1> QED
  BY <1>2 DEF Forward

\* A step of a run moves its status forward.
LEMMA RunMovesForward ==
  ASSUME TypeOK, NEW a \in Audits, InStep(a), WorkflowStep(a)
  PROVE  Forward(a)
<1>0. /\ auditStatus \in [Audits -> AuditStatuses] /\ StatusFollowsStep(a)
      /\ auditStatus'[a] = auditStatus[a] => Forward(a)
  BY StaysForward DEF TypeOK, InStep
<1>1. ASSUME NEW status \in Stages, NEW next, SetStatus(a, status, next)
      PROVE  auditStatus'[a] = auditStatus[a] \/ auditStatus'[a] = status
  BY <1>1, SetStatusEffect
<1> USE <1>0 DEF StatusFollowsStep, Forward, Rank, Reporting
<1>2. CASE \/ BeginExtraction(a) \/ BeginChunking(a) \/ Chunk(a) \/ BeginRetrieval(a)
           \/ MarkReranking(a) \/ BeginAnalysis(a) \/ BeginReport(a)
  BY <1>1, <1>2 DEF BeginExtraction, BeginChunking, Chunk, BeginRetrieval, MarkReranking,
     BeginAnalysis, BeginReport, Stages
<1>3. CASE Complete(a)
  BY <1>3, CompleteEffect
<1>4. CASE MarkFailed(a)
  BY <1>4 DEF MarkFailed, AuditStatuses, Stages, Terminal
<1>5. CASE \/ LoadRun(a) \/ ReadUpload(a) \/ Index(a) \/ ClearChunks(a) \/ StoreChunks(a)
           \/ Retrieve(a) \/ Evaluate(a) \/ FlushFindings(a) \/ StoreMarkdown(a)
           \/ StoreJson(a) \/ CommitReport(a) \/ Refresh(a)
  BY <1>5 DEF LoadRun, ReadUpload, Index, ClearChunks, StoreChunks, Retrieve, Evaluate,
     FlushFindings, StoreMarkdown, StoreJson, CommitReport, Refresh, dbVars
<1> QED
  BY <1>2, <1>3, <1>4, <1>5 DEF WorkflowStep

\* Every step moves every status forward.
LEMMA NextMovesForward ==
  ASSUME IInv, [Next]_vars, NEW b \in Audits
  PROVE  Forward(b)
<1>0. TypeOK /\ RowsFollowRequests /\ InStep(b)
  BY DEF IInv
<1>1. ASSUME NEW a \in Audits, CreateAudit(a)
      PROVE  Forward(b)
  <2>1. CASE b # a
    BY <1>0, <1>1, <2>1, StaysForward DEF CreateAudit
  <2>2. CASE b = a
    <3>1. auditStatus[b] = "absent" /\ auditStatus'[b] = "uploaded"
      BY <1>0, <1>1, <2>2 DEF CreateAudit, RowsFollowRequests, TypeOK
    <3> QED
      BY <3>1 DEF Forward, Rank
  <2> QED
    BY <2>1, <2>2
<1>2. ASSUME NEW a \in Audits, WorkflowStep(a)
      PROVE  Forward(b)
  <2>1. CASE b # a
    BY <1>0, <1>2, <2>1, StaysForward, RunDisturbsNoOther
  <2>2. CASE b = a
    BY <1>0, <1>2, <2>2, RunMovesForward
  <2> QED
    BY <2>1, <2>2
<1>3. ASSUME UNCHANGED auditStatus
      PROVE  Forward(b)
  BY <1>0, <1>3, StaysForward
<1>4. ASSUME NEW d \in Docs, StoreUpload(d) \/ InsertDocument(d) \/ Expire(d)
      PROVE  Forward(b)
  BY <1>3, <1>4 DEF StoreUpload, InsertDocument, Expire, dbVars
<1>5. CASE SweepStep
  BY <1>3, <1>5 DEF SweepStep, BeginSweep, SweepObject, SweepMark, EndSweep, SweepDies, dbVars
<1>6. CASE Crash \/ UNCHANGED vars
  BY <1>3, <1>6 DEF Crash, vars, dbVars
<1> QED
  BY <1>1, <1>2, <1>4, <1>5, <1>6 DEF Next

\* The status of an audit never moves back, and a completed audit is unsettled only by
\* a database error.
THEOREM StatusNeverMovesBack == Spec => StatusMovesForward
<1>1. IInv /\ [Next]_vars =>
        [\A a \in Audits :
           /\ Rank[auditStatus[a]] <= Rank[auditStatus'[a]]
           /\ auditStatus[a] = "completed" /\ auditStatus'[a] # "completed" => DbMayFail]_vars
  BY NextMovesForward DEF Forward
<1> QED
  BY <1>1, Inductive, PTL DEF Spec, StatusMovesForward

-----------------------------------------------------------------------------
(***************************************************************************)
(* Part 2: AuditPipeline implements AuditLifecycle, for every value of the *)
(* constants.  From the inductive invariant, every step of the pipeline is *)
(* seen by AuditLifecycle as one move of one audit (Moves) or as nothing   *)
(* (Same).                                                                 *)
(***************************************************************************)
\* AuditLifecycle sees nothing happen to an audit.
Same(a) == Phase(a)' = Phase(a) /\ Filed(a)' = Filed(a) /\ overallRisk'[a] = overallRisk[a]

\* What one audit may do in a step, seen from AuditLifecycle.
Moves(a) ==
  \/ /\ Phase(a) = "absent" /\ Phase(a)' = "accepted"
     /\ Filed(a)' = Filed(a) /\ overallRisk'[a] = overallRisk[a]
  \/ /\ Phase(a) = "accepted" /\ Phase(a)' = "working"
     /\ Filed(a)' = Filed(a) /\ overallRisk'[a] = overallRisk[a]
  \/ /\ Phase(a) = "working" /\ Phase(a)' = "working"
     /\ Filed(a) = "none" /\ Filed(a)' \in Risks /\ overallRisk'[a] = overallRisk[a]
  \/ /\ Phase(a) = "working" /\ Phase(a)' = "completed"
     /\ Filed(a) # "none" /\ Filed(a)' = Filed(a) /\ overallRisk'[a] = Filed(a)
  \/ /\ Phase(a) \in {"accepted", "working"} \/ (DbMayFail /\ Phase(a) = "completed")
     /\ Phase(a)' = "failed"
     /\ Filed(a)' = Filed(a) /\ overallRisk'[a] = overallRisk[a]

\* A move of one audit, with the others as they are, is a step of AuditLifecycle.
LEMMA MovesAreSteps ==
  ASSUME TypeOK, TypeOK', NEW a \in Audits, Moves(a), \A b \in Audits \ {a} : Same(b)
  PROVE  Lifecycle!Next
<1>1. Phases' = [Phases EXCEPT ![a] = Phase(a)']
  BY DEF Same, Phases
<1>2. FiledRisks' = [FiledRisks EXCEPT ![a] = Filed(a)']
  BY DEF Same, FiledRisks
<1>3. overallRisk' = [overallRisk EXCEPT ![a] = overallRisk'[a]]
  BY DEF Same, TypeOK
<1>4. Phases[a] = Phase(a) /\ FiledRisks[a] = Filed(a)
  BY DEF Phases, FiledRisks
<1>5. Phase(a)' = Phase(a) => Phases' = Phases
  BY DEF Same, Phases
<1>6. Filed(a)' = Filed(a) => FiledRisks' = FiledRisks
  BY DEF Same, FiledRisks
<1>7. overallRisk'[a] = overallRisk[a] => overallRisk' = overallRisk
  BY DEF Same, TypeOK
<1>8. \/ /\ Phases[a] = "absent" /\ Phases' = [Phases EXCEPT ![a] = "accepted"]
         /\ FiledRisks' = FiledRisks /\ overallRisk' = overallRisk
      \/ /\ Phases[a] = "accepted" /\ Phases' = [Phases EXCEPT ![a] = "working"]
         /\ FiledRisks' = FiledRisks /\ overallRisk' = overallRisk
      \/ /\ Phases[a] = "working" /\ Phases' = Phases
         /\ FiledRisks[a] = "none"
         /\ \E risk \in Risks : FiledRisks' = [FiledRisks EXCEPT ![a] = risk]
         /\ overallRisk' = overallRisk
      \/ /\ Phases[a] = "working" /\ Phases' = [Phases EXCEPT ![a] = "completed"]
         /\ FiledRisks[a] # "none" /\ FiledRisks' = FiledRisks
         /\ overallRisk' = [overallRisk EXCEPT ![a] = FiledRisks[a]]
      \/ /\ Phases[a] \in {"accepted", "working"} \/ (DbMayFail /\ Phases[a] = "completed")
         /\ Phases' = [Phases EXCEPT ![a] = "failed"]
         /\ FiledRisks' = FiledRisks /\ overallRisk' = overallRisk
  BY <1>1, <1>2, <1>3, <1>4, <1>5, <1>6, <1>7 DEF Moves
<1> QED
  BY <1>8 DEF Lifecycle!Next, Lifecycle!Accept, Lifecycle!Start, Lifecycle!File,
     Lifecycle!Finish, Lifecycle!Fail

\* What the step of a run says of its rows, while they are there.
OnRecord(a) ==
  /\ RowsPresent(a) /\ StatusFollowsStep(a) /\ SeenIsOwnStatus(a) /\ FiledAtTheEnd(a)
  /\ pc[a] = "complete" => report[a].filed /\ report[a].findings = run[a].analysis.drafts

\* A step of a run is a move of its audit, or not seen.
LEMMA RunMovesOrNot ==
  ASSUME TypeOK, TypeOK', ReportMatchesFindings, NEW a \in Audits, OnRecord(a), WorkflowStep(a)
  PROVE  Moves(a) \/ Same(a)
<1>0. /\ auditStatus \in [Audits -> AuditStatuses] /\ auditStatus' \in [Audits -> AuditStatuses]
      /\ StatusFollowsStep(a) /\ auditStatus[a] # "absent"
  BY DEF TypeOK, OnRecord, RowsPresent
<1>1. ASSUME UNCHANGED <<auditStatus, report, overallRisk>>
      PROVE  Same(a)
  BY <1>1 DEF Same, Phase, Filed
<1>2. ASSUME NEW status \in Stages, NEW next, SetStatus(a, status, next),
             auditStatus[a] \in {"uploaded"} \cup Stages, UNCHANGED <<report, overallRisk>>
      PROVE  Moves(a) \/ Same(a)
  <2>1. auditStatus'[a] = auditStatus[a] \/ auditStatus'[a] = status
    BY <1>2, SetStatusEffect
  <2> QED
    BY <1>2, <2>1 DEF Moves, Same, Phase, Filed, Stages
<1>3. CASE \/ BeginExtraction(a) \/ BeginChunking(a) \/ Chunk(a) \/ BeginRetrieval(a)
           \/ MarkReranking(a) \/ BeginAnalysis(a) \/ BeginReport(a)
  <2>1. auditStatus[a] \in {"uploaded"} \cup Stages /\ UNCHANGED <<report, overallRisk>>
    BY <1>0, <1>3 DEF BeginExtraction, BeginChunking, Chunk, BeginRetrieval, MarkReranking,
       BeginAnalysis, BeginReport, StatusFollowsStep, Stages, RestOfDb
  <2> QED
    BY <1>1, <1>2, <1>3, <2>1 DEF BeginExtraction, BeginChunking, Chunk, BeginRetrieval,
       MarkReranking, BeginAnalysis, BeginReport, Stages
<1>4. CASE CommitReport(a)
  <2>1. CASE UNCHANGED report
    BY <1>1, <1>4, <2>1 DEF CommitReport
  <2>2. CASE ~UNCHANGED report
    <3>1. /\ auditStatus[a] = "generating_report" /\ ~report[a].filed
          /\ UNCHANGED <<auditStatus, overallRisk>>
      BY <1>4 DEF CommitReport, OnRecord, StatusFollowsStep, FiledAtTheEnd, Reporting, Interrupted
    <3>2. report'[a].filed /\ report'[a].risk = OverallRisk(run[a].analysis.drafts)
      BY <1>4, <2>2 DEF CommitReport, TypeOK
    <3> QED
      BY <3>1, <3>2, OverallRiskType DEF Moves, Phase, Filed, Stages
  <2> QED
    BY <2>1, <2>2
<1>5. CASE Complete(a)
  <2>1. CASE UNCHANGED <<auditStatus, overallRisk>>
    BY <1>1, <1>5, <2>1 DEF Complete
  <2>2. CASE ~UNCHANGED <<auditStatus, overallRisk>>
    <3>1. /\ auditStatus[a] = "generating_report" /\ report[a].filed /\ UNCHANGED report
          /\ report[a].risk = OverallRisk(run[a].analysis.drafts)
      BY <1>5 DEF Complete, OnRecord, StatusFollowsStep, Reporting, ReportMatchesFindings
    <3>2. /\ auditStatus'[a] = "completed"
          /\ overallRisk'[a] = OverallRisk(run[a].analysis.drafts)
      BY <1>5, <2>2 DEF Complete, WriteStatus, TypeOK
    <3>3. OverallRisk(run[a].analysis.drafts) # "none"
      BY DEF OverallRisk
    <3> QED
      BY <3>1, <3>2, <3>3 DEF Moves, Phase, Filed, Stages
  <2> QED
    BY <2>1, <2>2
<1>6. CASE MarkFailed(a)
  <2>1. UNCHANGED <<report, overallRisk>>
    BY <1>6 DEF MarkFailed, RestOfDb
  <2>2. CASE UNCHANGED auditStatus
    BY <1>1, <2>1, <2>2
  <2>3. CASE ~UNCHANGED auditStatus
    <3>1. /\ auditStatus[a] \in {"uploaded"} \cup Stages \/ (DbMayFail /\ auditStatus[a] = "completed")
          /\ auditStatus'[a] = "failed"
      BY <1>0, <1>6, <2>3 DEF MarkFailed, StatusFollowsStep, AuditStatuses, Terminal
    <3> QED
      BY <2>1, <3>1 DEF Moves, Phase, Filed, Stages
  <2> QED
    BY <2>2, <2>3
<1>7. CASE \/ LoadRun(a) \/ ReadUpload(a) \/ Index(a) \/ ClearChunks(a) \/ StoreChunks(a)
           \/ Retrieve(a) \/ Evaluate(a) \/ FlushFindings(a) \/ StoreMarkdown(a)
           \/ StoreJson(a) \/ Refresh(a)
  BY <1>1, <1>7 DEF LoadRun, ReadUpload, Index, ClearChunks, StoreChunks, Retrieve,
     Evaluate, FlushFindings, StoreMarkdown, StoreJson, Refresh, dbVars
<1> QED
  BY <1>3, <1>4, <1>5, <1>6, <1>7 DEF WorkflowStep

\* Audits that stay as they are, all of them, are a stutter of AuditLifecycle.
LEMMA SameIsStutter ==
  ASSUME TypeOK, TypeOK', \A b \in Audits : Same(b)
  PROVE  UNCHANGED <<Phases, FiledRisks, overallRisk>>
<1>1. UNCHANGED <<Phases, FiledRisks>>
  BY DEF Same, Phases, FiledRisks
<1>2. UNCHANGED overallRisk
  BY DEF Same, TypeOK
<1> QED
  BY <1>1, <1>2

\* Every step of the pipeline is a step of AuditLifecycle or not seen by it.
LEMMA NextRefines ==
  ASSUME IInv, IInv', [Next]_vars
  PROVE  \/ Lifecycle!Next
         \/ UNCHANGED <<Phases, FiledRisks, overallRisk>>
<1>0. /\ TypeOK /\ TypeOK' /\ RowsFollowRequests /\ ReportsHold
      /\ \A a \in Audits : InStep(a)
  BY DEF IInv, ReportsHold
<1>1. ASSUME UNCHANGED <<auditStatus, report, overallRisk>>
      PROVE  \A b \in Audits : Same(b)
  BY <1>1 DEF Same, Phase, Filed
<1>2. ASSUME NEW a \in Audits, CreateAudit(a)
      PROVE  Lifecycle!Next
  <2>1. auditStatus[a] = "absent"
    BY <1>0, <1>2 DEF CreateAudit, RowsFollowRequests
  <2>2. auditStatus' = [auditStatus EXCEPT ![a] = "uploaded"] /\ UNCHANGED <<report, overallRisk>>
    BY <1>2 DEF CreateAudit
  <2>3. auditStatus'[a] = "uploaded" /\ \A b \in Audits \ {a} : auditStatus'[b] = auditStatus[b]
    BY <1>0, <2>2 DEF TypeOK
  <2>4. Moves(a) /\ \A b \in Audits \ {a} : Same(b)
    BY <2>1, <2>2, <2>3 DEF Moves, Same, Phase, Filed, Stages
  <2> QED
    BY <1>0, <2>4, MovesAreSteps
<1>3. ASSUME NEW a \in Audits, WorkflowStep(a)
      PROVE  Lifecycle!Next \/ \A b \in Audits : Same(b)
  <2>1. \A b \in Audits \ {a} : Same(b)
    BY <1>0, <1>3, RunDisturbsNoOther DEF Same, Phase, Filed
  <2>2. OnRecord(a)
    BY <1>0, <1>3, RunMovesOneThread
       DEF OnRecord, InStep, ReportFollowsStep, RowsFollowRequests, RowsPresent
  <2>3. Moves(a) \/ Same(a)
    BY <1>0, <1>3, <2>2, RunMovesOrNot DEF ReportsHold
  <2> QED
    BY <1>0, <2>1, <2>3, MovesAreSteps
<1>4. ASSUME NEW d \in Docs, StoreUpload(d) \/ InsertDocument(d) \/ Expire(d)
      PROVE  \A b \in Audits : Same(b)
  BY <1>1, <1>4 DEF StoreUpload, InsertDocument, Expire, dbVars
<1>5. CASE SweepStep
  BY <1>0, <1>1, <1>5, SameIsStutter DEF SweepStep, BeginSweep, SweepObject, SweepMark,
     EndSweep, SweepDies, dbVars
<1>6. CASE Crash \/ UNCHANGED vars
  BY <1>0, <1>1, <1>6, SameIsStutter DEF Crash, vars, dbVars
<1> QED
  BY <1>0, <1>2, <1>3, <1>4, <1>5, <1>6, SameIsStutter DEF Next

\* The initial state is one of AuditLifecycle.
LEMMA InitRefines == Init => Lifecycle!Init
  BY DEF Init, Lifecycle!Init, Phases, FiledRisks, Phase, Filed, NoReport, Stages

\* The pipeline implements AuditLifecycle.
THEOREM PipelineImplementsLifecycle == Spec => ImplementsLifecycle
<1>1. IInv /\ IInv' /\ [Next]_vars =>
        [Lifecycle!Next]_<<Phases, FiledRisks, overallRisk>>
  BY NextRefines
<1> QED
  BY <1>1, InitRefines, Inductive, PTL DEF Spec, ImplementsLifecycle, Lifecycle!Spec

-----------------------------------------------------------------------------
(***************************************************************************)
(* Part 3: deletions beside audits, the sweep and crashes, for any number  *)
(* of documents, audits and requests.  Steps of the audits are taken from  *)
(* part 1; what is new is that rows go, so that a thread's position says   *)
(* less about its rows, and that a request that was not disturbed finds    *)
(* the document as it left it.                                             *)
(***************************************************************************)
\* A row was uploaded; an audit never asked for has left nothing.
RowsFollow ==
  /\ \A d \in Docs : docStatus[d] # "absent" => uploading[d] = "done"
  /\ \A a \in Audits : pc[a] = "none" =>
       auditStatus[a] = "absent" /\ ~report[a].filed /\ reportObjects[a] = {}

\* From its first commit on, a session believes that the document shows a stage.
SeesStage(a) ==
  pc[a] \in Running \ {"extract", "refresh", "failing"} => run[a].seen \in Stages

\* The files a thread has stored, or its report names, are there but for a
\* deletion that knew of the audit.
Emptied(a) == \E r \in Requests : deletion[r].emptied /\ a \in deletion[r].known

FilesFollow(a) ==
  \/ Emptied(a)
  \/ /\ pc[a] = "store_json" => "md" \in reportObjects[a]
     /\ run[a].json => {"md", "json"} \subseteq reportObjects[a]
     /\ report[a].filed /\ report[a].json => {"md", "json"} \subseteq reportObjects[a]

\* What a request holds, once it has selected.
Held(r) ==
  /\ \/ deletion[r] = NoDeletion
     \/ /\ deletion[r].at # "none"
        /\ \E d \in Docs : /\ deletion[r].document = {d} /\ uploading[d] = "done"
                           /\ \A a \in deletion[r].filed : DocOf[a] = d
  /\ \A a \in deletion[r].known : pc[a] # "none"

\* What a request that nothing disturbed has come to.
Settled(r, d) ==
  /\ \A a \in AuditsOf(d) : ~UnderWay(a)
  /\ FiledOf(d) \subseteq deletion[r].filed
  /\ deletion[r].at \in Deleting \ {"rows"} => chunkRows[d] \subseteq deletion[r].cleared
  /\ deletion[r].at \in {"objects", "commit", "check", "deleted"} => d \notin vectors
  /\ deletion[r].at \in {"commit", "check", "deleted"} =>
       /\ d \notin uploads
       /\ \A a \in AuditsOf(d) : a \in deletion[r].filed => reportObjects[a] = {}
  /\ deletion[r].at # "refused"

SettledRequests ==
  \A r \in Requests : Undisturbed(r) => \A d \in deletion[r].document : Settled(r, d)

DInv ==
  /\ DeletionTypeOK /\ RowsFollow /\ StagesHaveAuthors /\ ReportMatchesFindings
  /\ \A a \in Audits : SeesStage(a) /\ FilesFollow(a)
  /\ \A r \in Requests : Held(r)
  /\ SettledRequests
\* The steps of a run in which the database may abort it for a request.
Inserting == {"store_chunks", "commit_report"}
-----------------------------------------------------------------------------
(* What the steps of an audit and of a request do *)

\* A step of a run is one of a run under way, and touches only its own audit and
\* its own document's rows and vectors.
LEMMA RunEffect ==
  ASSUME TypeOK, NEW a \in Audits, WorkflowStep(a)
  PROVE  /\ UnderWay(a) /\ pc'[a] # "none"
         /\ \A b \in Audits : pc[b] # "none" => pc'[b] # "none"
         /\ \A d \in Docs \ {DocOf[a]} :
              chunkRows'[d] = chunkRows[d] /\ (d \in vectors' <=> d \in vectors)
<1>1. UnderWay(a)
  BY DEF UnderWay, WorkflowStep, LoadRun, BeginExtraction, ReadUpload, BeginChunking, Chunk,
         Index, ClearChunks, StoreChunks, BeginRetrieval, Retrieve, MarkReranking,
         BeginAnalysis, Evaluate, BeginReport, FlushFindings, StoreMarkdown, StoreJson,
         CommitReport, Complete, Refresh, MarkFailed, Running
<1>2. \A b \in Audits : pc[b] # "none" => pc'[b] # "none"
  BY RunMovesOneThread DEF TypeOK, Waiting
<1>3. pc[a] # "none"
  BY RunMovesOneThread
<1>4. \A d \in Docs \ {DocOf[a]} :
        chunkRows'[d] = chunkRows[d] /\ (d \in vectors' <=> d \in vectors)
  BY DEF WorkflowStep, TypeOK, LoadRun, BeginExtraction, ReadUpload, BeginChunking, Chunk,
         Index, ClearChunks, StoreChunks, BeginRetrieval, Retrieve, MarkReranking,
         BeginAnalysis, Evaluate, BeginReport, FlushFindings, StoreMarkdown, StoreJson,
         CommitReport, Complete, Refresh, MarkFailed, dbVars, storeVars, RestOfDb
<1> QED BY <1>1, <1>2, <1>3, <1>4

\* A run files its report and its findings together.
LEMMA RunFilesBoth ==
  ASSUME TypeOK, NEW a \in Audits, WorkflowStep(a)
  PROVE  \/ UNCHANGED <<findings, report>>
         \/ /\ pc[a] = "commit_report" /\ UNCHANGED <<run, reportObjects>>
            /\ findings'[a] = run[a].analysis.drafts
            /\ report'[a].filed /\ report'[a].findings = run[a].analysis.drafts
            /\ report'[a].risk = OverallRisk(run[a].analysis.drafts)
            /\ report'[a].json = run[a].json
<1>1. CASE CommitReport(a)
  BY <1>1 DEF CommitReport, TypeOK, storeVars
<1>2. CASE ~CommitReport(a)
  BY <1>2 DEF WorkflowStep, LoadRun, BeginExtraction, ReadUpload, BeginChunking, Chunk,
         Index, ClearChunks, StoreChunks, BeginRetrieval, Retrieve, MarkReranking,
         BeginAnalysis, Evaluate, BeginReport, FlushFindings, StoreMarkdown, StoreJson,
         Complete, Refresh, MarkFailed, dbVars, RestOfDb
<1> QED BY <1>1, <1>2

\* Request r goes on with what it selected, and no other request moves.
Moved(r) ==
  /\ \A q \in Requests \ {r} : deletion'[q] = deletion[q]
  /\ deletion'[r].document = deletion[r].document
  /\ deletion'[r].known = deletion[r].known
  /\ deletion'[r].filed = deletion[r].filed
  /\ deletion'[r].busy = deletion[r].busy
  /\ deletion[r].emptied => deletion'[r].emptied

\* Moving a request changes nothing else of it, and no other request.
LEMMA MoveEffect ==
  ASSUME DeletionTypeOK, NEW r \in Requests, NEW next \in Deleting \cup Ends, Move(r, next)
  PROVE  /\ deletion' \in [Requests -> Deletions]
         /\ Moved(r) /\ deletion'[r].at = next
         /\ deletion'[r].emptied = deletion[r].emptied
         /\ deletion'[r].cleared = deletion[r].cleared
<1>1. deletion \in [Requests -> Deletions]
  BY DEF DeletionTypeOK
<1>2. [deletion[r] EXCEPT !.at = next] \in Deletions
  BY <1>1 DEF Deletions
<1>3. deletion'[r] = [deletion[r] EXCEPT !.at = next]
  BY <1>1 DEF Move
<1>4. deletion' \in [Requests -> Deletions] /\ \A q \in Requests \ {r} : deletion'[q] = deletion[q]
  BY <1>1, <1>2 DEF Move
<1> QED BY <1>1, <1>3, <1>4 DEF Deletions, Moved

\* A request that nothing has disturbed stays settled under the steps of others.
LEMMA StaysSettled ==
  ASSUME SettledRequests, NEW r \in Requests, deletion'[r] = deletion[r],
         \A a \in Audits : pc[a] # "none" => pc'[a] # "none",
         Undisturbed(r)',
         \A d \in deletion[r].document :
           /\ \A a \in AuditsOf(d) : /\ UnderWay(a)' => UnderWay(a)
                                     /\ report'[a].filed => report[a].filed
                                     /\ reportObjects'[a] \subseteq reportObjects[a]
           /\ chunkRows'[d] \subseteq chunkRows[d]
           /\ d \in vectors' => d \in vectors
           /\ d \in uploads' => d \in uploads
  PROVE  \A d \in deletion'[r].document : Settled(r, d)'
<1>1. Undisturbed(r)
  BY DEF Undisturbed
<1>2. ASSUME NEW d \in deletion[r].document PROVE Settled(r, d)'
  <2>1. Settled(r, d)
    BY <1>1, <1>2 DEF SettledRequests
  <2> QED BY <1>2, <2>1 DEF Settled, AuditsOf, FiledOf
<1> QED BY <1>2

-----------------------------------------------------------------------------
LEMMA DeletionInitInv == DeletionInit => DInv
<1> SUFFICES ASSUME DeletionInit PROVE DInv
  OBVIOUS
<1>1. IInv /\ Init /\ \A r \in Requests : deletion[r] = NoDeletion
  BY InitIInv DEF DeletionInit
<1>2. DeletionTypeOK
  <2>1. NoDeletion \in Deletions
    BY DEF NoDeletion, Deletions
  <2> QED BY <1>1, <2>1, InitTypeOK DEF DeletionInit, DeletionTypeOK
<1>3. RowsFollow
  BY <1>1 DEF Init, RowsFollow, NoReport
<1>4. StagesHaveAuthors /\ ReportMatchesFindings
  BY <1>1 DEF IInv
<1>5. \A a \in Audits : SeesStage(a) /\ FilesFollow(a)
  BY <1>1 DEF Init, SeesStage, FilesFollow, Running, Fresh, NoReport
<1>6. \A r \in Requests : Held(r)
  BY <1>1 DEF Held, NoDeletion
<1>7. SettledRequests
  BY <1>1 DEF SettledRequests, NoDeletion
<1> QED BY <1>2, <1>3, <1>4, <1>5, <1>6, <1>7 DEF DInv

-----------------------------------------------------------------------------
(* Steps of the audits *)

\* A thread's view of its document's status.
LEMMA RunKeepsView ==
  ASSUME TypeOK, NEW a \in Audits, SeesStage(a), WorkflowStep(a)
  PROVE  SeesStage(a)'
<1> USE DEF SeesStage, Running
<1>1. ASSUME NEW status \in Stages, NEW next, SetStatus(a, status, next)
      PROVE  SeesStage(a)'
  BY <1>1, SetStatusEffect
<1>2. CASE \/ BeginExtraction(a) \/ BeginChunking(a) \/ Chunk(a) \/ BeginRetrieval(a)
           \/ MarkReranking(a) \/ BeginAnalysis(a) \/ BeginReport(a)
  <2>1. CASE pc'[a] = "failing"
    BY <2>1
  <2>2. CASE pc'[a] # "failing"
    <3>1. {"extracting", "chunking", "embedding", "retrieving_rules", "reranking",
           "analyzing", "generating_report"} \subseteq Stages
      BY DEF Stages
    <3>2. ~Raise(a)
      BY <2>2 DEF Raise, Goto, TypeOK
    <3> QED
      BY <1>1, <1>2, <3>1, <3>2 DEF BeginExtraction, BeginChunking, Chunk, BeginRetrieval,
         MarkReranking, BeginAnalysis, BeginReport
  <2> QED BY <2>1, <2>2
<1>3. CASE LoadRun(a) \/ Complete(a) \/ Refresh(a) \/ MarkFailed(a)
  BY <1>3 DEF LoadRun, Complete, Refresh, MarkFailed, Raise, Leave, Goto, TypeOK
<1>4. CASE ClearChunks(a) \/ StoreChunks(a) \/ Retrieve(a) \/ Evaluate(a) \/ StoreJson(a)
  <2>1. pc'[a] = "failing" \/ run'[a].seen = run[a].seen
    BY <1>4, LocalsKept
  <2>2. pc[a] \in Running \ {"extract", "refresh", "failing"}
    BY <1>4 DEF ClearChunks, StoreChunks, Retrieve, Evaluate, StoreJson
  <2> QED BY <2>1, <2>2
<1>5. CASE \/ ReadUpload(a) \/ Index(a) \/ FlushFindings(a) \/ StoreMarkdown(a)
           \/ CommitReport(a)
  BY <1>5 DEF ReadUpload, Index, FlushFindings, StoreMarkdown, CommitReport, Raise, Goto, TypeOK
<1> QED BY <1>2, <1>3, <1>4, <1>5 DEF WorkflowStep

\* A thread files only the names of files it has stored.
LEMMA RunKeepsFiles ==
  ASSUME TypeOK, NEW a \in Audits, FilesFollow(a), WorkflowStep(a), UNCHANGED deletion
  PROVE  FilesFollow(a)'
<1>1. CASE Emptied(a)
  BY <1>1 DEF Emptied, FilesFollow
<1> DEFINE Both == {"md", "json"} \subseteq reportObjects[a]
<1>2. CASE ~Emptied(a)
  <2>1. /\ pc[a] = "store_json" => "md" \in reportObjects[a]
        /\ run[a].json => Both
        /\ report[a].filed /\ report[a].json => Both
    BY <1>2 DEF FilesFollow
  <2>2. reportObjects[a] \subseteq reportObjects'[a]
    BY DEF WorkflowStep, LoadRun, BeginExtraction, ReadUpload, BeginChunking, Chunk,
       Index, ClearChunks, StoreChunks, BeginRetrieval, Retrieve, MarkReranking,
       BeginAnalysis, Evaluate, BeginReport, FlushFindings, StoreMarkdown, StoreJson,
       CommitReport, Complete, Refresh, MarkFailed, dbVars, storeVars, RestOfDb, TypeOK
  <2>3. pc'[a] = "store_json" => "md" \in reportObjects'[a]
    <3>1. ASSUME NEW status, NEW next, SetStatus(a, status, next)
          PROVE  pc'[a] \in {next, "failing"}
      BY <3>1, SetStatusEffect
    <3>2. CASE StoreMarkdown(a)
      BY <3>2 DEF StoreMarkdown, Goto, TypeOK
    <3>3. CASE \/ BeginExtraction(a) \/ BeginChunking(a) \/ Chunk(a) \/ BeginRetrieval(a)
               \/ MarkReranking(a) \/ BeginAnalysis(a) \/ BeginReport(a)
      BY <3>3 DEF BeginExtraction, BeginChunking, Chunk, BeginRetrieval,
         MarkReranking, BeginAnalysis, BeginReport, SetStatus, Raise, Goto, TypeOK
    <3>4. CASE \/ LoadRun(a) \/ ReadUpload(a) \/ Index(a) \/ ClearChunks(a) \/ StoreChunks(a)
               \/ Retrieve(a) \/ Evaluate(a) \/ FlushFindings(a) \/ StoreJson(a)
               \/ CommitReport(a) \/ Complete(a) \/ Refresh(a) \/ MarkFailed(a)
      BY <3>4 DEF LoadRun, ReadUpload, Index, ClearChunks, StoreChunks, Retrieve, Evaluate,
         FlushFindings, StoreJson, CommitReport, Complete, Refresh, MarkFailed, Raise, Leave,
         Goto, TypeOK
    <3> QED BY <3>2, <3>3, <3>4 DEF WorkflowStep
  <2>4. run'[a].json => {"md", "json"} \subseteq reportObjects'[a]
    <3>1. ASSUME run'[a] = Fresh \/ run'[a].json = run[a].json
          PROVE  run'[a].json => {"md", "json"} \subseteq reportObjects'[a]
      <4>1. CASE run'[a] = Fresh
        BY <4>1 DEF Fresh
      <4>2. CASE run'[a].json = run[a].json
        BY <2>1, <2>2, <4>2
      <4> QED BY <3>1, <4>1, <4>2
    <3>2. ASSUME NEW status, NEW next, SetStatus(a, status, next)
          PROVE  run'[a] = Fresh \/ run'[a].json = run[a].json
      BY <3>2, SetStatusEffect
    <3>3. Raise(a) => run'[a] = Fresh
      BY DEF Raise, TypeOK
    <3>4. CASE StoreJson(a)
      <4>1. pc[a] = "store_json"
        BY <3>4 DEF StoreJson
      <4> QED BY <2>1, <2>2, <3>1, <3>4, <4>1, LocalsKept
    <3>5. CASE \/ LoadRun(a) \/ ClearChunks(a) \/ StoreChunks(a) \/ Retrieve(a) \/ Evaluate(a)
      BY <3>1, <3>5, LocalsKept
    <3>6. CASE \/ BeginExtraction(a) \/ BeginChunking(a) \/ Chunk(a) \/ BeginRetrieval(a)
               \/ MarkReranking(a) \/ BeginAnalysis(a) \/ BeginReport(a)
      BY <3>1, <3>2, <3>3, <3>6 DEF BeginExtraction, BeginChunking, Chunk, BeginRetrieval,
         MarkReranking, BeginAnalysis, BeginReport
    <3>7. CASE Complete(a)
      BY <3>1, <3>7, CompleteEffect
    <3>8. CASE \/ ReadUpload(a) \/ Index(a) \/ FlushFindings(a) \/ StoreMarkdown(a)
               \/ CommitReport(a) \/ Refresh(a) \/ MarkFailed(a)
      <4>1. \A end : Leave(a, end) => run'[a] = Fresh
        BY DEF Leave, TypeOK
      <4>2. run'[a] = Fresh \/ run' = run
        BY <3>3, <3>8, <4>1 DEF ReadUpload, Index, FlushFindings, StoreMarkdown, CommitReport,
           Refresh, MarkFailed
      <4> QED BY <3>1, <4>2
    <3> QED BY <3>4, <3>5, <3>6, <3>7, <3>8 DEF WorkflowStep
  <2>5. report'[a].filed /\ report'[a].json => {"md", "json"} \subseteq reportObjects'[a]
    BY <2>1, <2>2, RunFilesBoth
  <2> QED BY <2>3, <2>4, <2>5 DEF FilesFollow
<1> QED BY <1>1, <1>2

\* A step of a run beside deletions.
LEMMA AuditInv ==
  ASSUME DInv, NEW a \in Audits, WorkflowStep(a), UNCHANGED deletion
  PROVE  DInv'
<1>1. TypeOK /\ deletion \in [Requests -> Deletions]
  BY DEF DInv, DeletionTypeOK
<1>2. DeletionTypeOK'
  BY <1>1, RunTypeOK DEF DeletionTypeOK
<1>3. UNCHANGED <<cleaned, uploads, uploading>>
  BY RunLeavesRest
<1>4. RowsFollow'
  <2>1. \A d \in Docs : docStatus'[d] # "absent" => uploading'[d] = "done"
    <3>1. docStatus[DocOf[a]] # "absent" \/ UNCHANGED docStatus
      BY DEF WorkflowStep, LoadRun, BeginExtraction, ReadUpload, BeginChunking, Chunk,
         Index, ClearChunks, StoreChunks, BeginRetrieval, Retrieve, MarkReranking,
         BeginAnalysis, Evaluate, BeginReport, FlushFindings, StoreMarkdown, StoreJson,
         CommitReport, Complete, Refresh, MarkFailed, dbVars, SetStatus, RowsPresent
    <3> QED BY <1>1, <1>3, <3>1, RunWritesOwnRows DEF DInv, RowsFollow, TypeOK
  <2>2. \A b \in Audits : pc'[b] = "none" =>
          auditStatus'[b] = "absent" /\ ~report'[b].filed /\ reportObjects'[b] = {}
    BY <1>1, RunEffect, RunDisturbsNoOther DEF DInv, RowsFollow
  <2> QED BY <2>1, <2>2 DEF RowsFollow
<1>5. StagesHaveAuthors'
  <2>1. pc[a] = "complete" => run[a].seen # "completed"
    BY DEF DInv, SeesStage, Running, Stages
  <2> QED BY <1>1, <2>1, RunKeepsAuthors DEF DInv
<1>6. ReportMatchesFindings'
  BY <1>1, RunFilesBoth, RunDisturbsNoOther DEF DInv, ReportMatchesFindings
<1>7. ASSUME NEW b \in Audits PROVE SeesStage(b)' /\ FilesFollow(b)'
  <2>1. CASE b = a
    BY <1>1, <2>1, RunKeepsView, RunKeepsFiles DEF DInv
  <2>2. CASE b # a
    BY <1>1, <2>2, RunDisturbsNoOther DEF DInv, SeesStage, FilesFollow, Emptied
  <2> QED BY <2>1, <2>2
<1>8. ASSUME NEW r \in Requests PROVE Held(r)'
  BY <1>1, <1>3, RunEffect DEF DInv, Held, DeletionTypeOK, Deletions
<1>9. ASSUME NEW r \in Requests, Undisturbed(r)'
      PROVE  \A d \in deletion'[r].document : Settled(r, d)'
  <2>1. \A b \in Audits : pc[b] # "none" => pc'[b] # "none"
    BY <1>1, RunEffect
  <2>2. \A d \in deletion[r].document : Settled(r, d)
    BY <1>9, <2>1 DEF DInv, SettledRequests, Undisturbed
  <2>3. \A d \in deletion[r].document : DocOf[a] # d /\ d \in Docs
    BY <1>1, <2>2, RunEffect DEF Settled, AuditsOf, Deletions
  <2>4. \A d \in deletion[r].document :
          /\ \A b \in AuditsOf(d) : /\ UnderWay(b)' => UnderWay(b)
                                    /\ report'[b].filed => report[b].filed
                                    /\ reportObjects'[b] \subseteq reportObjects[b]
          /\ chunkRows'[d] \subseteq chunkRows[d]
          /\ d \in vectors' => d \in vectors
          /\ d \in uploads' => d \in uploads
    BY <1>1, <1>3, <2>3, RunEffect, RunDisturbsNoOther DEF AuditsOf, UnderWay
  <2> QED BY <1>9, <2>1, <2>4, StaysSettled DEF DInv
<1> QED BY <1>2, <1>4, <1>5, <1>6, <1>7, <1>8, <1>9 DEF DInv, SettledRequests

\* Requests for audits beside deletions: the new audit is one no deletion knows.
LEMMA CreateInv ==
  ASSUME DInv, NEW a \in Audits, CreateAudit(a), UNCHANGED deletion
  PROVE  DInv'
<1>1. TypeOK /\ deletion \in [Requests -> Deletions]
  BY DEF DInv, DeletionTypeOK
<1>2. DeletionTypeOK'
  BY <1>1, CreateTypeOK DEF DeletionTypeOK
<1>3. /\ pc[a] = "none" /\ UNCHANGED <<docStatus, chunkRows, findings, report>>
      /\ UNCHANGED <<uploads, reportObjects, vectors, uploading, run>>
      /\ pc'[a] \in {"scheduled", "escaped"}
      /\ \A b \in Audits \ {a} : pc'[b] = pc[b] /\ auditStatus'[b] = auditStatus[b]
  BY <1>1 DEF CreateAudit, TypeOK, storeVars
<1>4. RowsFollow' /\ ReportMatchesFindings'
  BY <1>3 DEF DInv, RowsFollow, ReportMatchesFindings
<1>5. StagesHaveAuthors'
  BY <1>3 DEF DInv, StagesHaveAuthors, Unfinished, Running, Interrupted
<1>6. ASSUME NEW b \in Audits PROVE SeesStage(b)' /\ FilesFollow(b)'
  BY <1>3 DEF DInv, SeesStage, FilesFollow, Emptied, Running
<1>7. ASSUME NEW r \in Requests PROVE Held(r)'
  BY <1>1, <1>3 DEF DInv, Held, Deletions
<1>8. ASSUME NEW r \in Requests, Undisturbed(r)'
      PROVE  \A d \in deletion'[r].document : Settled(r, d)'
  <2>1. \A d \in deletion[r].document : DocOf[a] # d
    BY <1>3, <1>8 DEF DInv, Held, Undisturbed
  <2> QED BY <1>3, <1>8, <2>1, StaysSettled DEF DInv, AuditsOf, UnderWay
<1> QED BY <1>2, <1>4, <1>5, <1>6, <1>7, <1>8 DEF DInv, SettledRequests

\* Uploads and the clock beside deletions.
LEMMA UploadInv ==
  ASSUME DInv, NEW d \in Docs, StoreUpload(d) \/ InsertDocument(d) \/ Expire(d),
         UNCHANGED deletion
  PROVE  DInv'
<1>1. TypeOK /\ deletion \in [Requests -> Deletions]
  BY DEF DInv, DeletionTypeOK
<1>2. DeletionTypeOK'
  BY <1>1, UploadTypeOK DEF DeletionTypeOK
<1>3. /\ UNCHANGED <<chunkRows, auditStatus, findings, report, reportObjects, vectors, pc, run>>
      /\ \A e \in Docs : uploading[e] = "done" =>
           uploading'[e] = "done" /\ (e \in uploads' => e \in uploads)
      /\ \A e \in Docs : \/ docStatus'[e] = docStatus[e]
                         \/ uploading'[e] = "done" /\ docStatus'[e] = "uploaded"
  <2>1. CASE StoreUpload(d)
    BY <1>1, <2>1 DEF StoreUpload, TypeOK, dbVars
  <2>2. CASE InsertDocument(d)
    BY <1>1, <2>2 DEF InsertDocument, TypeOK, storeVars
  <2>3. CASE Expire(d)
    BY <1>1, <2>3 DEF Expire, TypeOK, dbVars, storeVars
  <2> QED BY <2>1, <2>2, <2>3
<1>4. RowsFollow' /\ ReportMatchesFindings'
  BY <1>3 DEF DInv, RowsFollow, ReportMatchesFindings
<1>5. StagesHaveAuthors'
  BY <1>3 DEF DInv, StagesHaveAuthors, Unfinished, Stages
<1>6. ASSUME NEW b \in Audits PROVE SeesStage(b)' /\ FilesFollow(b)'
  BY <1>3 DEF DInv, SeesStage, FilesFollow, Emptied
<1>7. ASSUME NEW r \in Requests PROVE Held(r)'
  BY <1>1, <1>3 DEF DInv, Held, Deletions
<1>8. ASSUME NEW r \in Requests, Undisturbed(r)'
      PROVE  \A e \in deletion'[r].document : Settled(r, e)'
  <2>1. \A e \in deletion[r].document : e \in Docs /\ uploading[e] = "done"
    BY <1>1 DEF DInv, Held, NoDeletion
  <2> QED BY <1>3, <1>8, <2>1, StaysSettled DEF DInv, AuditsOf, UnderWay
<1> QED BY <1>2, <1>4, <1>5, <1>6, <1>7, <1>8 DEF DInv, SettledRequests

\* The sweep beside deletions.
LEMMA SweepInv ==
  ASSUME DInv, SweepStep, UNCHANGED deletion
  PROVE  DInv'
<1>1. TypeOK /\ deletion \in [Requests -> Deletions]
  BY DEF DInv, DeletionTypeOK
<1>2. DeletionTypeOK'
  BY <1>1, SweepTypeOK DEF DeletionTypeOK
<1>3. /\ UNCHANGED <<chunkRows, auditStatus, findings, report, reportObjects, vectors, pc, run>>
      /\ UNCHANGED uploading /\ uploads' \subseteq uploads
      /\ \A e \in Docs : \/ docStatus'[e] = docStatus[e]
                         \/ docStatus[e] # "absent" /\ docStatus'[e] = "expired"
  <2>1. CASE BeginSweep \/ EndSweep \/ SweepDies
    BY <1>1, <2>1 DEF BeginSweep, EndSweep, SweepDies, dbVars, storeVars
  <2>2. ASSUME NEW d \in Docs, SweepObject(d)
        PROVE  UNCHANGED dbVars /\ UNCHANGED <<reportObjects, vectors, pc, run, uploading>>
               /\ uploads' \subseteq uploads
    BY <2>2 DEF SweepObject
  <2>3. ASSUME NEW d \in Docs, SweepMark(d)
        PROVE  /\ UNCHANGED <<chunkRows, auditStatus, findings, report, uploading, pc, run>>
               /\ UNCHANGED storeVars
               /\ \/ UNCHANGED docStatus
                  \/ docStatus[d] # "absent" /\ docStatus' = [docStatus EXCEPT ![d] = "expired"]
    BY <2>3 DEF SweepMark
  <2> QED BY <1>1, <2>1, <2>2, <2>3 DEF SweepStep, TypeOK, dbVars, storeVars
<1>4. RowsFollow' /\ ReportMatchesFindings'
  BY <1>3 DEF DInv, RowsFollow, ReportMatchesFindings
<1>5. StagesHaveAuthors'
  BY <1>3 DEF DInv, StagesHaveAuthors, Unfinished, Stages
<1>6. ASSUME NEW b \in Audits PROVE SeesStage(b)' /\ FilesFollow(b)'
  BY <1>3 DEF DInv, SeesStage, FilesFollow, Emptied
<1>7. ASSUME NEW r \in Requests PROVE Held(r)'
  BY <1>1, <1>3 DEF DInv, Held
<1>8. ASSUME NEW r \in Requests, Undisturbed(r)'
      PROVE  \A e \in deletion'[r].document : Settled(r, e)'
  BY <1>3, <1>8, StaysSettled DEF DInv, AuditsOf, UnderWay
<1> QED BY <1>2, <1>4, <1>5, <1>6, <1>7, <1>8 DEF DInv, SettledRequests

\* The end of the process.
LEMMA CrashAllInv ==
  ASSUME DInv, CrashAll
  PROVE  DInv'
<1>1. TypeOK /\ deletion \in [Requests -> Deletions] /\ Crash
  BY DEF DInv, DeletionTypeOK, CrashAll
<1>2. \A r \in Requests :
        /\ deletion'[r] \in Deletions
        /\ deletion'[r] = deletion[r] \/ deletion'[r] = [deletion[r] EXCEPT !.at = "lost"]
        /\ deletion'[r].at \notin Deleting
        /\ deletion'[r].at # "lost" => deletion'[r] = deletion[r]
  BY <1>1 DEF CrashAll, Deletions, Deleting, Ends
<1>3. DeletionTypeOK'
  <2>1. deletion' \in [Requests -> Deletions]
    BY <1>2 DEF CrashAll
  <2> QED BY <1>1, <2>1, CrashTypeOK DEF DeletionTypeOK
<1>4. /\ UNCHANGED <<docStatus, chunkRows, auditStatus, findings, report>>
      /\ UNCHANGED <<uploads, reportObjects, vectors>>
      /\ \A a \in Audits : /\ run'[a] = Fresh
                           /\ pc'[a] = "none" <=> pc[a] = "none"
                           /\ ~UnderWay(a)' /\ pc'[a] \notin Running
                           /\ Unfinished(a) => Unfinished(a)'
      /\ \A d \in Docs : uploading[d] = "done" => uploading'[d] = "done"
  <2>1. ASSUME NEW a \in Audits
        PROVE  /\ run'[a] = Fresh
               /\ pc'[a] = IF pc[a] \in Running \cup {"scheduled"} THEN "lost" ELSE pc[a]
    BY <1>1 DEF Crash
  <2>2. \A d \in Docs : uploading[d] = "done" => uploading'[d] = "done"
    BY <1>1 DEF Crash, TypeOK
  <2> QED BY <1>1, <2>1, <2>2 DEF Crash, dbVars, storeVars, UnderWay, Unfinished, Running,
         Interrupted
<1>5. RowsFollow' /\ ReportMatchesFindings' /\ StagesHaveAuthors'
  BY <1>4 DEF DInv, RowsFollow, ReportMatchesFindings, StagesHaveAuthors
<1>6. ASSUME NEW r \in Requests
      PROVE  /\ deletion'[r].document = deletion[r].document
             /\ deletion'[r].known = deletion[r].known
             /\ deletion'[r].filed = deletion[r].filed
             /\ deletion'[r].busy = deletion[r].busy
             /\ deletion'[r].emptied = deletion[r].emptied
  <2>1. deletion[r] \in Deletions
    BY <1>1
  <2>2. deletion'[r] = deletion[r] \/ deletion'[r] = [deletion[r] EXCEPT !.at = "lost"]
    BY <1>2
  <2> QED BY <2>1, <2>2 DEF Deletions
<1>7. ASSUME NEW b \in Audits PROVE SeesStage(b)' /\ FilesFollow(b)'
  <2>1. SeesStage(b)'
    BY <1>4 DEF SeesStage
  <2>2. pc'[b] # "store_json" /\ ~run'[b].json
    BY <1>4 DEF Running, Fresh
  <2>3. Emptied(b) => Emptied(b)'
    BY <1>6 DEF Emptied
  <2>4. FilesFollow(b) /\ UNCHANGED <<report, reportObjects>>
    BY <1>4 DEF DInv
  <2> QED BY <2>1, <2>2, <2>3, <2>4 DEF FilesFollow
<1>8. ASSUME NEW r \in Requests PROVE Held(r)'
  <2>1. deletion[r] = NoDeletion => deletion'[r] = NoDeletion
    BY DEF CrashAll, NoDeletion, Deleting
  <2>2. deletion[r].at # "none" => deletion'[r].at # "none"
    BY <1>1, <1>2 DEF Deletions
  <2>3. deletion[r].known \subseteq Audits /\ Held(r)
    BY <1>1 DEF DInv, Deletions
  <2> QED BY <1>4, <1>6, <2>1, <2>2, <2>3 DEF Held
<1>9. ASSUME NEW r \in Requests, Undisturbed(r)', NEW d \in deletion'[r].document
      PROVE  Settled(r, d)'
  <2>1. Settled(r, d)
    BY <1>4, <1>6, <1>9 DEF DInv, SettledRequests, Undisturbed
  <2> QED BY <1>2, <1>4, <1>6, <2>1 DEF Settled, AuditsOf, FiledOf, Deleting
<1> QED BY <1>3, <1>5, <1>7, <1>8, <1>9 DEF DInv, SettledRequests

-----------------------------------------------------------------------------
(* Steps of a request *)

\* A step of r that leaves its document, what it selected and everything the
\* properties of an audit are about alone keeps those properties.
LEMMA RequestKeepsRest ==
  ASSUME DInv, NEW r \in Requests,
         UNCHANGED <<docStatus, chunkRows, auditStatus, findings, report, uploading, pc, run>>,
         Moved(r),
         \A a \in Audits : \/ reportObjects'[a] = reportObjects[a]
                           \/ /\ reportObjects'[a] \subseteq reportObjects[a]
                              /\ a \in deletion[r].known /\ deletion'[r].emptied,
         deletion[r].at # "none", deletion'[r].at # "none"
  PROVE  /\ RowsFollow' /\ StagesHaveAuthors' /\ ReportMatchesFindings'
         /\ \A a \in Audits : SeesStage(a)' /\ FilesFollow(a)'
         /\ \A q \in Requests : Held(q)'
<1>1. RowsFollow' /\ StagesHaveAuthors' /\ ReportMatchesFindings'
  BY DEF DInv, RowsFollow, StagesHaveAuthors, Unfinished, ReportMatchesFindings
<1>2. ASSUME NEW a \in Audits PROVE SeesStage(a)' /\ FilesFollow(a)'
  <2>1. Emptied(a) => Emptied(a)'
    BY DEF Emptied, Moved
  <2>2. reportObjects'[a] = reportObjects[a] \/ Emptied(a)'
    BY DEF Emptied, Moved
  <2> QED BY <2>1, <2>2 DEF DInv, SeesStage, FilesFollow
<1>3. ASSUME NEW q \in Requests PROVE Held(q)'
  BY DEF DInv, Held, NoDeletion, Moved
<1> QED BY <1>1, <1>2, <1>3

\* The requests other than the one that moves stay settled, as nothing comes to
\* a document by the steps of a request.
LEMMA OthersStaySettled ==
  ASSUME SettledRequests, NEW r \in Requests, NEW q \in Requests \ {r}, Undisturbed(q)',
         deletion'[q] = deletion[q], UNCHANGED pc,
         \A a \in Audits : /\ report'[a].filed => report[a].filed
                           /\ reportObjects'[a] \subseteq reportObjects[a],
         \A d \in Docs : chunkRows'[d] \subseteq chunkRows[d],
         deletion[q].document \subseteq Docs,
         vectors' \subseteq vectors, uploads' \subseteq uploads
  PROVE  \A d \in deletion'[q].document : Settled(q, d)'
  BY StaysSettled DEF UnderWay, AuditsOf

\* delete_document selects.
LEMMA SelectInv ==
  ASSUME DInv, NEW r \in Requests, NEW d \in Docs, Select(r, d)
  PROVE  DInv'
<1>1. TypeOK /\ deletion \in [Requests -> Deletions] /\ UNCHANGED vars
  BY DEF DInv, DeletionTypeOK, Select
<1>2. UNCHANGED <<docStatus, chunkRows, auditStatus, findings, report, uploading, pc, run,
                  uploads, reportObjects, vectors>>
  BY <1>1 DEF vars, dbVars, storeVars
<1> DEFINE new == [at |-> "rows", document |-> {d}, known |-> Present(d), filed |-> FiledOf(d),
                   cleared |-> {}, busy |-> \E a \in AuditsOf(d) : UnderWay(a),
                   emptied |-> FALSE]
<1>3. new \in Deletions
  BY DEF Deletions, Deleting, Present, FiledOf, AuditsOf
<1>4. /\ deletion' \in [Requests -> Deletions] /\ deletion'[r] = new
      /\ \A q \in Requests \ {r} : deletion'[q] = deletion[q]
  BY <1>1, <1>3 DEF Select
<1>5. DeletionTypeOK'
  BY <1>1, <1>4, NextTypeOK DEF DeletionTypeOK
<1>6. RowsFollow' /\ StagesHaveAuthors' /\ ReportMatchesFindings'
  BY <1>2 DEF DInv, RowsFollow, StagesHaveAuthors, Unfinished, ReportMatchesFindings
<1>7. ASSUME NEW a \in Audits PROVE SeesStage(a)' /\ FilesFollow(a)'
  <2>1. Emptied(a) => Emptied(a)'
    BY <1>4 DEF DInv, Held, NoDeletion, Emptied, Select
  <2> QED BY <1>2, <2>1 DEF DInv, SeesStage, FilesFollow
<1>8. ASSUME NEW q \in Requests PROVE Held(q)'
  <2>1. CASE q = r
    <3>1. /\ deletion'[r].at = "rows" /\ deletion'[r].document = {d}
          /\ deletion'[r].known = Present(d) /\ deletion'[r].filed = FiledOf(d)
      BY <1>4
    <3>2. /\ uploading[d] = "done" /\ \A a \in Present(d) : pc[a] # "none"
          /\ \A a \in FiledOf(d) : DocOf[a] = d
      BY DEF DInv, RowsFollow, Select, Present, FiledOf, AuditsOf
    <3> QED BY <1>2, <2>1, <3>1, <3>2 DEF Held
  <2>2. CASE q # r
    BY <1>2, <1>4, <2>2 DEF DInv, Held
  <2> QED BY <2>1, <2>2
<1>9. ASSUME NEW q \in Requests, Undisturbed(q)', NEW e \in deletion'[q].document
      PROVE  Settled(q, e)'
  <2>1. CASE q = r
    BY <1>2, <1>4, <1>9, <2>1 DEF Settled, Undisturbed, AuditsOf, FiledOf, UnderWay
  <2>2. CASE q # r
    BY <1>1, <1>2, <1>4, <1>9, <2>2, OthersStaySettled DEF DInv, Deletions
  <2> QED BY <2>1, <2>2
<1> QED BY <1>5, <1>6, <1>7, <1>8, <1>9 DEF DInv, SettledRequests

\* A request that was not disturbed is not refused: nothing was filed, made or
\* stored since it selected.
LEMMA UndisturbedMeetsNothing ==
  ASSUME DInv, NEW r \in Requests, NEW d \in deletion[r].document, Undisturbed(r)
  PROVE  /\ Settled(r, d) /\ NewReports(r, d) = {} /\ NewAudits(r, d) = {}
         /\ ~FiledSince(r, d)
         /\ deletion[r].at = "check" => ~Referring(r, d)
<1>1. Settled(r, d)
  BY DEF DInv, SettledRequests
<1>2. NewReports(r, d) = {}
  BY <1>1 DEF Settled, NewReports
<1>3. NewAudits(r, d) = {}
  <2>1. \A a \in AuditsOf(d) : a \in deletion[r].known \/ pc[a] = "none"
    BY DEF Undisturbed, AuditsOf
  <2>2. \A a \in AuditsOf(d) : pc[a] = "none" => auditStatus[a] = "absent"
    BY DEF DInv, RowsFollow, AuditsOf
  <2> QED BY <2>1, <2>2 DEF NewAudits, Present
<1>4. deletion[r].at = "check" => NewChunks(r, d) = {}
  BY <1>1 DEF Settled, NewChunks, Deleting
<1> QED BY <1>1, <1>2, <1>3, <1>4 DEF FiledSince, Referring

\* The statements, and the abort of one by the database, before and after the stores.
LEMMA RowsInv ==
  ASSUME DInv, NEW r \in Requests, NEW d \in deletion[r].document,
         \/ DeleteRows(r, d) \/ DeleteChunks(r, d) \/ DeleteUpload(r, d)
         \/ \E other \in Requests : BreakDeletions(r, d, other)
  PROVE  DInv'
<1>1. TypeOK /\ deletion \in [Requests -> Deletions] /\ UNCHANGED vars
  BY DEF DInv, DeletionTypeOK, DeleteRows, DeleteChunks, DeleteUpload, BreakDeletions
<1>2. UNCHANGED <<docStatus, chunkRows, auditStatus, findings, report, uploading, pc, run,
                  uploads, reportObjects, vectors>>
  BY <1>1 DEF vars, dbVars, storeVars
<1>3. d \in Docs /\ deletion[r].document = {d}
  BY <1>1 DEF DInv, Held, NoDeletion
<1> DEFINE at == deletion[r].at
           Kept == deletion'[r].cleared = deletion[r].cleared
<1>4. /\ deletion' \in [Requests -> Deletions] /\ Moved(r) /\ at # "none"
      /\ \/ deletion'[r].at = "raised"
         \/ deletion'[r].at = "refused" /\ FiledSince(r, d)
         \/ deletion'[r].at = "chunks" /\ deletion'[r].cleared = chunkRows[d]
         \/ at = "chunks" /\ deletion'[r].at = "vectors" /\ Kept
         \/ at = "commit" /\ deletion'[r].at = "check" /\ Kept
  <2>1. CASE DeleteRows(r, d) /\ NewReports(r, d) = {}
             /\ deletion' = [deletion EXCEPT ![r].at = "chunks", ![r].cleared = chunkRows[d]]
    <3>1. chunkRows[d] \in SUBSET Audits
      BY <1>1, <1>3 DEF TypeOK
    <3> QED BY <1>1, <2>1, <3>1, ZenonT(30) DEF DeleteRows, Deletions, Deleting, Moved
  <2>2. CASE /\ deletion[r].at \in {"rows", "chunks"} /\ FiledSince(r, d)
             /\ Fail(r, "refused")
    BY <2>2, MoveEffect DEF DInv, Fail, Ends
  <2>3. CASE at # "none" /\ Fail(r, "raised")
    BY <2>3, MoveEffect DEF DInv, Fail, Ends
  <2>4. CASE deletion[r].at = "chunks" /\ Move(r, "vectors")
    BY <2>4, MoveEffect DEF DInv, Deleting
  <2>5. CASE deletion[r].at = "commit" /\ Move(r, "check")
    BY <2>5, MoveEffect DEF DInv, Deleting
  <2>6. CASE DeleteRows(r, d)
    BY <2>1, <2>2, <2>3, <2>6 DEF DeleteRows
  <2>7. CASE DeleteChunks(r, d)
    BY <2>2, <2>3, <2>4, <2>7 DEF DeleteChunks
  <2>8. CASE DeleteUpload(r, d)
    BY <2>3, <2>5, <2>8 DEF DeleteUpload
  <2>9. CASE \E other \in Requests : BreakDeletions(r, d, other)
    BY <2>3, <2>9 DEF BreakDeletions, CircleWithDeletion
  <2> QED BY <2>6, <2>7, <2>8, <2>9
<1>5. DeletionTypeOK'
  BY <1>1, <1>4, NextTypeOK DEF DeletionTypeOK
<1>6. ASSUME NEW q \in Requests, Undisturbed(q)', NEW e \in deletion'[q].document
      PROVE  Settled(q, e)'
  <2>1. CASE q = r
    <3>1. e = d /\ Undisturbed(r)
      BY <1>2, <1>3, <1>4, <1>6, <2>1 DEF Undisturbed, Moved
    <3>2. Settled(r, d) /\ ~FiledSince(r, d)
      BY <3>1, UndisturbedMeetsNothing
    <3> QED
      BY <1>2, <1>4, <2>1, <3>1, <3>2 DEF Settled, AuditsOf, FiledOf, UnderWay, Moved, Deleting
  <2>2. CASE q # r
    BY <1>1, <1>2, <1>4, <1>6, <2>2, OthersStaySettled DEF DInv, Deletions, Moved
  <2> QED BY <2>1, <2>2
<1>7. deletion'[r].at # "none"
  BY <1>4
<1> QED BY <1>2, <1>4, <1>5, <1>6, <1>7, RequestKeepsRest DEF DInv, SettledRequests

\* Qdrant.
LEMMA VectorsInv ==
  ASSUME DInv, NEW r \in Requests, NEW d \in deletion[r].document, DeleteVectors(r, d)
  PROVE  DInv'
<1>1. TypeOK /\ deletion \in [Requests -> Deletions]
  BY DEF DInv, DeletionTypeOK
<1>2. /\ UNCHANGED <<docStatus, chunkRows, auditStatus, findings, report, uploading, pc, run,
                     uploads, reportObjects>>
      /\ vectors' \subseteq vectors /\ deletion[r].at # "none"
  BY DEF DeleteVectors, dbVars
<1>3. d \in Docs /\ deletion[r].document = {d}
  BY <1>1 DEF DInv, Held, NoDeletion
<1>4. /\ deletion' \in [Requests -> Deletions] /\ Moved(r)
      /\ deletion'[r].cleared = deletion[r].cleared
      /\ \/ deletion'[r].at = "objects" /\ d \notin vectors'
         \/ deletion'[r].at = "raised"
  BY MoveEffect DEF DInv, DeleteVectors, Fail, Deleting, Ends
<1>5. DeletionTypeOK'
  BY <1>1, <1>2, <1>4 DEF DeletionTypeOK, TypeOK, DeleteVectors, dbVars, sweepVars, envVars
<1>6. ASSUME NEW q \in Requests, Undisturbed(q)', NEW e \in deletion'[q].document
      PROVE  Settled(q, e)'
  <2>1. CASE q = r
    <3>1. e = d /\ Undisturbed(r)
      BY <1>2, <1>3, <1>4, <1>6, <2>1 DEF Undisturbed, Moved
    <3>2. Settled(r, d)
      BY <3>1, UndisturbedMeetsNothing
    <3> QED BY <1>2, <1>4, <2>1, <3>1, <3>2
            DEF Settled, AuditsOf, FiledOf, UnderWay, Moved, DeleteVectors, Deleting
  <2>2. CASE q # r
    BY <1>1, <1>2, <1>4, <1>6, <2>2, OthersStaySettled DEF DInv, Deletions, Moved
  <2> QED BY <2>1, <2>2
<1>7. deletion'[r].at # "none"
  BY <1>4
<1> QED BY <1>2, <1>4, <1>5, <1>6, <1>7, RequestKeepsRest DEF DInv, SettledRequests

\* S3.
LEMMA ObjectsInv ==
  ASSUME DInv, NEW r \in Requests, NEW d \in deletion[r].document, DeleteObjects(r, d)
  PROVE  DInv'
<1>1. TypeOK /\ deletion \in [Requests -> Deletions]
  BY DEF DInv, DeletionTypeOK
<1>2. /\ UNCHANGED <<docStatus, chunkRows, auditStatus, findings, report, uploading, pc, run,
                     vectors>>
      /\ uploads' \subseteq uploads /\ deletion[r].at # "none"
  BY DEF DeleteObjects, dbVars
<1>3. d \in Docs /\ deletion[r].document = {d}
  BY <1>1 DEF DInv, Held, NoDeletion
<1>4. \E next \in {"commit", "raised"} :
        /\ deletion' = [deletion EXCEPT ![r].at = next, ![r].emptied = TRUE]
        /\ next = "commit" =>
             /\ d \notin uploads'
             /\ \A a \in deletion[r].filed : reportObjects'[a] = {}
  BY DEF DeleteObjects
<1>5. /\ deletion' \in [Requests -> Deletions] /\ Moved(r) /\ deletion'[r].emptied
      /\ deletion'[r].cleared = deletion[r].cleared
      /\ \/ deletion'[r].at = "raised"
         \/ /\ deletion'[r].at = "commit" /\ d \notin uploads'
            /\ \A a \in deletion[r].filed : reportObjects'[a] = {}
  <2>1. PICK next \in {"commit", "raised"} :
          /\ deletion' = [deletion EXCEPT ![r].at = next, ![r].emptied = TRUE]
          /\ next = "commit" =>
               /\ d \notin uploads'
               /\ \A a \in deletion[r].filed : reportObjects'[a] = {}
    BY <1>4
  <2>2. /\ deletion'[r] = [deletion[r] EXCEPT !.at = next, !.emptied = TRUE]
        /\ \A q \in Requests \ {r} : deletion'[q] = deletion[q]
        /\ DOMAIN deletion' = Requests /\ deletion' = [q \in Requests |-> deletion'[q]]
    BY <1>1, <2>1
  <2>3. deletion'[r] \in Deletions
    BY <1>1, <2>2 DEF Deletions, Deleting, Ends
  <2>4. /\ Moved(r) /\ deletion'[r].emptied /\ deletion'[r].cleared = deletion[r].cleared
        /\ deletion'[r].at = next
    BY <1>1, <2>2 DEF Deletions, Moved
  <2>5. deletion' \in [Requests -> Deletions]
    BY <1>1, <2>2, <2>3
  <2> QED BY <2>1, <2>4, <2>5
<1>6. \A a \in Audits : \/ reportObjects'[a] = reportObjects[a]
                        \/ reportObjects'[a] \subseteq reportObjects[a] /\ a \in deletion[r].known
  BY DEF DeleteObjects
<1>7. DeletionTypeOK'
  <2>1. reportObjects' \in [Audits -> SUBSET {"md", "json"}]
    BY DEF DeleteObjects
  <2> QED BY <1>1, <1>2, <1>5, <2>1 DEF DeletionTypeOK, TypeOK, DeleteObjects, dbVars, sweepVars,
         envVars
<1>8. ASSUME NEW q \in Requests, Undisturbed(q)', NEW e \in deletion'[q].document
      PROVE  Settled(q, e)'
  <2>1. CASE q = r
    <3>1. e = d /\ Undisturbed(r)
      BY <1>2, <1>3, <1>5, <1>8, <2>1 DEF Undisturbed, Moved
    <3>2. Settled(r, d)
      BY <3>1, UndisturbedMeetsNothing
    <3>3. deletion[r].at = "objects"
      BY DEF DeleteObjects
    <3> QED
      BY <1>2, <1>5, <1>6, <2>1, <3>1, <3>2, <3>3
         DEF Settled, AuditsOf, FiledOf, UnderWay, Moved, Deleting
  <2>2. CASE q # r
    <3>1. \A a \in Audits : reportObjects'[a] \subseteq reportObjects[a]
      BY <1>6
    <3> QED
      BY <1>1, <1>2, <1>5, <1>8, <2>2, <3>1, OthersStaySettled DEF DInv, Deletions, Moved
  <2> QED BY <2>1, <2>2
<1>9. deletion'[r].at # "none"
  BY <1>5
<1> QED BY <1>2, <1>5, <1>6, <1>7, <1>8, <1>9, RequestKeepsRest DEF DInv, SettledRequests

\* The end of the transaction.
LEMMA CommitInv ==
  ASSUME DInv, NEW r \in Requests, NEW d \in deletion[r].document, CommitDeletion(r, d)
  PROVE  DInv'
<1>1. TypeOK /\ deletion \in [Requests -> Deletions]
  BY DEF DInv, DeletionTypeOK
<1>2. /\ UNCHANGED <<uploading, pc, run, uploads, reportObjects, vectors>>
      /\ deletion[r].at = "check"
  BY DEF CommitDeletion, storeVars
<1>3. d \in Docs /\ deletion[r].document = {d}
  BY <1>1 DEF DInv, Held, NoDeletion
<1>4. /\ deletion' \in [Requests -> Deletions] /\ Moved(r)
      /\ deletion'[r].cleared = deletion[r].cleared
      /\ \/ deletion'[r].at \in {"deleted", "raised"}
         \/ deletion'[r].at = "refused" /\ Referring(r, d)
  BY MoveEffect DEF DInv, CommitDeletion, Fail, Ends
<1>5. /\ \A q \in Requests \ {r} : deletion'[q] = deletion[q]
      /\ deletion'[r].document = deletion[r].document
      /\ deletion'[r].known = deletion[r].known
      /\ deletion'[r].filed = deletion[r].filed
      /\ deletion'[r].busy = deletion[r].busy
      /\ deletion[r].emptied => deletion'[r].emptied
  BY <1>4 DEF Moved
<1>6. \/ UNCHANGED dbVars
      \/ /\ docStatus' = [docStatus EXCEPT ![d] = "absent"]
         /\ cleaned' = cleaned \ {d}
         /\ chunkRows' = [chunkRows EXCEPT ![d] = {}]
         /\ auditStatus' = [a \in Audits |-> IF DocOf[a] = d THEN "absent" ELSE auditStatus[a]]
         /\ overallRisk' = [a \in Audits |-> IF DocOf[a] = d THEN "none" ELSE overallRisk[a]]
         /\ findings' = [a \in Audits |-> IF DocOf[a] = d THEN {} ELSE findings[a]]
         /\ report' = [a \in Audits |-> IF DocOf[a] = d THEN NoReport ELSE report[a]]
  BY DEF CommitDeletion
<1>7. /\ \A e \in Docs : /\ docStatus'[e] \in {docStatus[e], "absent"}
                         /\ chunkRows'[e] \in {chunkRows[e], {}}
      /\ \A a \in Audits :
           /\ auditStatus'[a] \in {auditStatus[a], "absent"}
           /\ overallRisk'[a] \in {overallRisk[a], "none"}
           /\ \/ report'[a] = report[a] /\ findings'[a] = findings[a]
              \/ report'[a] = NoReport /\ findings'[a] = {}
      /\ cleaned' \subseteq cleaned
  BY <1>1, <1>3, <1>6 DEF TypeOK, dbVars
<1>8. ~NoReport.filed
  BY DEF NoReport
<1>9. DeletionTypeOK'
  <2>1. /\ docStatus' \in [Docs -> DocStatuses] /\ chunkRows' \in [Docs -> SUBSET Audits]
        /\ cleaned' \in SUBSET Docs
    BY <1>1, <1>6 DEF TypeOK, DocStatuses, AuditStatuses, dbVars
  <2>2. /\ auditStatus' \in [Audits -> AuditStatuses]
        /\ overallRisk' \in [Audits -> Risks \cup {"none"}]
    BY <1>1, <1>6 DEF TypeOK, AuditStatuses, dbVars
  <2>3. /\ findings' \in [Audits -> SUBSET Risks]
        /\ report' \in [Audits -> Reports \cup {NoReport}]
    BY <1>1, <1>6 DEF TypeOK, dbVars
  <2>4. UNCHANGED <<uploading, pc, run, uploads, reportObjects, vectors, sweeper, due, target,
                    stale, elapsed, crashes>>
    BY <1>2 DEF CommitDeletion, sweepVars, envVars
  <2> QED BY <1>1, <1>4, <2>1, <2>2, <2>3, <2>4 DEF DeletionTypeOK, TypeOK
<1>10. RowsFollow' /\ StagesHaveAuthors'
  BY <1>2, <1>7, <1>8 DEF DInv, RowsFollow, StagesHaveAuthors, Unfinished, Stages
<1>11. ReportMatchesFindings'
  BY <1>7, <1>8 DEF DInv, ReportMatchesFindings
<1>12. ASSUME NEW a \in Audits PROVE SeesStage(a)' /\ FilesFollow(a)'
  <2>1. Emptied(a) => Emptied(a)'
    BY <1>4, <1>5 DEF Emptied
  <2> QED BY <1>2, <1>7, <1>8, <2>1 DEF DInv, SeesStage, FilesFollow
<1>13. ASSUME NEW q \in Requests PROVE Held(q)'
  BY <1>2, <1>4, <1>5 DEF DInv, Held, NoDeletion
<1>14. ASSUME NEW q \in Requests, Undisturbed(q)', NEW e \in deletion'[q].document
       PROVE  Settled(q, e)'
  <2>1. CASE q = r
    <3>1. e = d /\ Undisturbed(r)
      BY <1>2, <1>3, <1>5, <1>14, <2>1 DEF Undisturbed
    <3>2. Settled(r, d) /\ ~Referring(r, d)
      BY <1>2, <3>1, UndisturbedMeetsNothing
    <3> QED
      BY <1>2, <1>3, <1>4, <1>5, <1>7, <1>8, <2>1, <3>1, <3>2
       DEF Settled, AuditsOf, FiledOf, UnderWay, Deleting
  <2>2. CASE q # r
    <3>1. \A a \in Audits : report'[a].filed => report[a].filed
      BY <1>7, <1>8
    <3>2. \A c \in Docs : chunkRows'[c] \subseteq chunkRows[c]
      BY <1>7
    <3> QED
      BY <1>1, <1>2, <1>5, <1>14, <2>2, <3>1, <3>2, OthersStaySettled DEF DInv, Deletions
  <2> QED BY <2>1, <2>2
<1> QED BY <1>9, <1>10, <1>11, <1>12, <1>13, <1>14 DEF DInv, SettledRequests

\* The database aborts the request, or the thread it waits for.
LEMMA DeadlockInv ==
  ASSUME DInv, NEW r \in Requests, NEW d \in deletion[r].document, NEW a \in Audits,
         BreakDeadlock(r, d, a)
  PROVE  DInv'
<1>1. TypeOK /\ deletion \in [Requests -> Deletions]
  BY DEF DInv, DeletionTypeOK
<1>2. /\ UNCHANGED <<docStatus, chunkRows, auditStatus, findings, report, uploading,
                     uploads, reportObjects, vectors>>
      /\ deletion[r].at # "none" /\ DocOf[a] = d /\ pc[a] \in Inserting
  BY DEF BreakDeadlock, CircleWithRun, Inserting, dbVars, storeVars
<1>3. d \in Docs /\ deletion[r].document = {d}
  BY <1>1 DEF DInv, Held, NoDeletion
<1>4. UnderWay(a) /\ a \in AuditsOf(d)
  BY <1>2 DEF UnderWay, Running, AuditsOf, Inserting
<1>5. CASE Fail(r, "raised") /\ UNCHANGED <<pc, run>>
  <2>1. deletion' \in [Requests -> Deletions] /\ Moved(r) /\ deletion'[r].at = "raised"
    BY <1>5, MoveEffect DEF DInv, Fail, Ends
  <2>2. DeletionTypeOK'
    BY <1>1, <1>2, <1>5, <2>1 DEF DeletionTypeOK, TypeOK, BreakDeadlock, dbVars, sweepVars, envVars
  <2>3. ASSUME NEW q \in Requests, Undisturbed(q)', NEW e \in deletion'[q].document
        PROVE  Settled(q, e)'
    <3>1. CASE q = r
      <4>1. e = d /\ Undisturbed(r)
        BY <1>3, <1>5, <2>1, <2>3, <3>1 DEF Undisturbed, Moved
      <4> QED BY <1>4, <4>1, UndisturbedMeetsNothing DEF Settled
    <3>2. CASE q # r
      BY <1>1, <1>2, <1>5, <2>1, <2>3, <3>2, OthersStaySettled DEF DInv, Deletions, Moved
    <3> QED BY <3>1, <3>2
  <2> QED BY <1>2, <1>5, <2>1, <2>2, <2>3, RequestKeepsRest DEF DInv, SettledRequests
<1>6. CASE Raise(a) /\ UNCHANGED deletion
  <2>1. /\ pc' = [pc EXCEPT ![a] = "failing"] /\ run' = [run EXCEPT ![a] = Fresh]
        /\ UNCHANGED deletion
    BY <1>6 DEF Raise, Goto
  <2>2. /\ pc'[a] = "failing" /\ run'[a] = Fresh
        /\ \A b \in Audits \ {a} : pc'[b] = pc[b] /\ run'[b] = run[b]
    BY <1>1, <2>1 DEF TypeOK
  <2>3. DeletionTypeOK'
    <3>1. pc' \in [Audits -> Steps] /\ run' \in [Audits -> Locals]
      BY <1>1, <2>1, FreshType DEF TypeOK, Steps, Running
    <3> QED
      BY <1>1, <1>2, <2>1, <3>1 DEF DeletionTypeOK, TypeOK, BreakDeadlock, dbVars, sweepVars,
         envVars
  <2>4. RowsFollow' /\ ReportMatchesFindings'
    BY <1>2, <2>2 DEF DInv, RowsFollow, ReportMatchesFindings, Inserting
  <2>5. StagesHaveAuthors'
    BY <1>2, <2>2 DEF DInv, StagesHaveAuthors, Unfinished, Running, Inserting
  <2>6. ASSUME NEW b \in Audits PROVE SeesStage(b)' /\ FilesFollow(b)'
    <3>1. Fresh.json = FALSE
      BY DEF Fresh
    <3>2. CASE b = a
      BY <1>2, <2>1, <2>2, <3>1, <3>2 DEF DInv, SeesStage, FilesFollow, Emptied
    <3>3. CASE b # a
      BY <1>2, <2>1, <2>2, <3>3 DEF DInv, SeesStage, FilesFollow, Emptied
    <3> QED BY <3>2, <3>3
  <2>7. ASSUME NEW q \in Requests PROVE Held(q)'
    BY <1>2, <2>1, <2>2 DEF DInv, Held
  <2>8. ASSUME NEW q \in Requests, Undisturbed(q)'
        PROVE  \A e \in deletion'[q].document : Settled(q, e)'
    <3>1. \A b \in Audits : (pc[b] # "none" => pc'[b] # "none") /\ (UnderWay(b)' => UnderWay(b))
      BY <1>4, <2>2 DEF UnderWay
    <3> QED BY <1>2, <2>1, <2>8, <3>1, StaysSettled DEF DInv, AuditsOf
  <2> QED BY <2>3, <2>4, <2>5, <2>6, <2>7, <2>8 DEF DInv, SettledRequests
<1> QED BY <1>5, <1>6 DEF BreakDeadlock

-----------------------------------------------------------------------------
(* The system *)

LEMMA DeletionStepKeepsInv == DInv /\ [DeletionNext]_allVars => DInv'
<1> SUFFICES ASSUME DInv, [DeletionNext]_allVars PROVE DInv'
  OBVIOUS
<1>1. CASE UNCHANGED allVars
  <2>1. TypeOK' /\ UNCHANGED deletion
    BY <1>1, NextTypeOK DEF DInv, DeletionTypeOK, allVars
  <2>2. UNCHANGED <<docStatus, chunkRows, auditStatus, findings, report, uploading, pc, run,
                    uploads, reportObjects, vectors>>
    BY <1>1 DEF allVars, vars, dbVars, storeVars
  <2>3. DeletionTypeOK' /\ RowsFollow' /\ ReportMatchesFindings' /\ StagesHaveAuthors'
    BY <2>1, <2>2 DEF DInv, DeletionTypeOK, RowsFollow, ReportMatchesFindings,
       StagesHaveAuthors, Unfinished
  <2>4. ASSUME NEW a \in Audits PROVE SeesStage(a)' /\ FilesFollow(a)'
    BY <2>1, <2>2 DEF DInv, SeesStage, FilesFollow, Emptied
  <2>5. ASSUME NEW r \in Requests PROVE Held(r)'
    BY <2>1, <2>2 DEF DInv, Held
  <2>6. ASSUME NEW r \in Requests, Undisturbed(r)'
        PROVE  \A d \in deletion'[r].document : Settled(r, d)'
    BY <2>1, <2>2, <2>6, StaysSettled DEF DInv, AuditsOf, UnderWay
  <2> QED BY <2>3, <2>4, <2>5, <2>6 DEF DInv, SettledRequests
<1>2. ASSUME NEW r \in Requests, NEW d \in Docs, Select(r, d) PROVE DInv'
  BY <1>2, SelectInv
<1>3. ASSUME NEW r \in Requests, DeletionStep(r) PROVE DInv'
  BY <1>3, RowsInv, VectorsInv, ObjectsInv, CommitInv, DeadlockInv DEF DeletionStep
<1>4. ASSUME NEW a \in Audits, AuditMoves(a) PROVE DInv'
  BY <1>4, AuditInv DEF AuditMoves
<1>5. ASSUME NEW a \in Audits, AuditMade(a) PROVE DInv'
  BY <1>5, CreateInv DEF AuditMade
<1>6. ASSUME NEW d \in Docs, StoreUpload(d) \/ InsertDocument(d) \/ Expire(d), UNCHANGED deletion
      PROVE  DInv'
  BY <1>6, UploadInv
<1>7. CASE SweepMoves
  BY <1>7, SweepInv DEF SweepMoves
<1>8. CASE CrashAll
  BY <1>8, CrashAllInv
<1> QED BY <1>1, <1>2, <1>3, <1>4, <1>5, <1>6, <1>7, <1>8 DEF DeletionNext

(***************************************************************************)
(* The invariant of deletions beside audits holds in every state.          *)
(***************************************************************************)
THEOREM DeletionInductive == DeletionSpec => []DInv
<1> QED BY DeletionInitInv, DeletionStepKeepsInv, PTL DEF DeletionSpec

(***************************************************************************)
(* After a deletion that no audit ran beside, the document's object and    *)
(* vectors are gone, and the files of the reports that had been filed      *)
(* (_delete_uploaded_document).                                            *)
(***************************************************************************)
THEOREM DeletionsAreComplete == DeletionSpec => []DeletionIsComplete
<1>1. DInv => DeletionIsComplete
  <2> SUFFICES ASSUME DInv, NEW r \in Requests, deletion[r].at = "deleted", Undisturbed(r),
                      NEW d \in deletion[r].document
               PROVE  /\ d \notin uploads \cup vectors
                      /\ \A a \in deletion[r].filed : reportObjects[a] = {}
    BY DEF DeletionIsComplete
  <2>1. \A a \in deletion[r].filed : a \in AuditsOf(d)
    BY DEF DInv, DeletionTypeOK, Deletions, Held, NoDeletion, AuditsOf
  <2> QED BY <2>1 DEF DInv, SettledRequests, Settled
<1> QED BY <1>1, DeletionInductive, PTL

(***************************************************************************)
(* A deletion answers 409 only if an audit was under way when it selected, *)
(* or has been made since (_delete_uploaded_document).                     *)
(***************************************************************************)
THEOREM RefusalsHaveAudits == DeletionSpec => []RefusedOnlyForAudits
<1>1. DInv => RefusedOnlyForAudits
  <2> SUFFICES ASSUME DInv, NEW r \in Requests, deletion[r].at = "refused", Undisturbed(r)
               PROVE  FALSE
    BY DEF RefusedOnlyForAudits
  <2>1. PICK d \in Docs : deletion[r].document = {d}
    BY DEF DInv, Held, NoDeletion
  <2> QED BY <2>1 DEF DInv, SettledRequests, Settled
<1> QED BY <1>1, DeletionInductive, PTL

(***************************************************************************)
(* A report's files go only with a deletion that knew of its audit         *)
(* (_delete_s3_document_artifacts).                                        *)
(***************************************************************************)
THEOREM ReportFilesAreKept == DeletionSpec => []ReportsKeepFiles
<1>1. DInv => ReportsKeepFiles
  BY DEF DInv, FilesFollow, Emptied, ReportsKeepFiles
<1> QED BY <1>1, DeletionInductive, PTL

-----------------------------------------------------------------------------
(***************************************************************************)
(* Part 4: what the end of a deletion leaves of the document and of its    *)
(* audits, for any number of documents, audits and requests.  A run        *)
(* without rows writes nothing, and while the rows are there they agree    *)
(* with its step as they do in part 1.                                     *)
(***************************************************************************)
\* An audit is on record, or has neither a report nor a risk.
Recorded(a) ==
  IF auditStatus[a] = "absent" THEN overallRisk[a] = "none" /\ ~report[a].filed ELSE OnRecord(a)

\* The object goes before the rows, and neither comes back.
Removed(r) ==
  \A d \in deletion[r].document :
    /\ deletion[r].at \in {"commit", "check", "deleted"} => d \notin uploads
    /\ deletion[r].at = "deleted" => docStatus[d] = "absent" /\ chunkRows[d] = {}

LInv ==
  /\ DInv /\ UploadsHaveRows
  /\ \A a \in Audits : Recorded(a)
  /\ \A r \in Requests : Removed(r)
-----------------------------------------------------------------------------
(* Steps of the audits *)

\* A run whose rows are gone writes no row.
LEMMA RunWithoutRows ==
  ASSUME NEW a \in Audits, ~RowsPresent(a), WorkflowStep(a)
  PROVE  UNCHANGED <<docStatus, chunkRows, auditStatus, overallRisk, findings, report>>
  BY DEF WorkflowStep, LoadRun, BeginExtraction, ReadUpload, BeginChunking, Chunk, Index,
         ClearChunks, StoreChunks, BeginRetrieval, Retrieve, MarkReranking, BeginAnalysis,
         Evaluate, BeginReport, FlushFindings, StoreMarkdown, StoreJson, CommitReport,
         Complete, Refresh, MarkFailed, SetStatus, dbVars, RestOfDb

\* No step of a run takes a row away.
LEMMA RunKeepsRows ==
  ASSUME TypeOK, NEW a \in Audits, WorkflowStep(a), NEW b \in Audits, RowsPresent(b)
  PROVE  RowsPresent(b)'
<1>1. \A s \in Stages \cup Terminal : s # "absent"
  BY DEF Stages, Terminal
<1>2. auditStatus'[b] = auditStatus[b] \/ auditStatus'[b] \in Stages \cup Terminal
  BY RunWritesOwnRows DEF TypeOK
<1>3. \A d \in Docs : docStatus'[d] = docStatus[d] \/ docStatus'[d] \in Stages \cup Terminal
  BY RunWritesOwnRows DEF TypeOK
<1>4. DocOf[b] \in Docs
  BY DocOfAssumption
<1> QED BY <1>1, <1>2, <1>3, <1>4 DEF RowsPresent

\* A run about to complete its audit has just filed the report of its findings.
LEMMA ReachesComplete ==
  ASSUME TypeOK, NEW a \in Audits, WorkflowStep(a), pc'[a] = "complete"
  PROVE  report'[a].filed /\ report'[a].findings = run'[a].analysis.drafts
<1>1. ASSUME NEW status, NEW next, SetStatus(a, status, next) PROVE pc'[a] \in {next, "failing"}
  BY <1>1, SetStatusEffect
<1>2. CASE CommitReport(a)
  BY <1>2 DEF CommitReport, Raise, Goto, TypeOK
<1>3. CASE \/ BeginExtraction(a) \/ BeginChunking(a) \/ Chunk(a) \/ BeginRetrieval(a)
           \/ MarkReranking(a) \/ BeginAnalysis(a) \/ BeginReport(a)
  BY <1>1, <1>3 DEF BeginExtraction, BeginChunking, Chunk, BeginRetrieval, MarkReranking,
     BeginAnalysis, BeginReport, Raise, Goto, TypeOK
<1>4. CASE \/ LoadRun(a) \/ ReadUpload(a) \/ Index(a) \/ ClearChunks(a) \/ StoreChunks(a)
           \/ Retrieve(a) \/ Evaluate(a) \/ FlushFindings(a) \/ StoreMarkdown(a)
           \/ StoreJson(a) \/ Complete(a) \/ Refresh(a) \/ MarkFailed(a)
  BY <1>4 DEF LoadRun, ReadUpload, Index, ClearChunks, StoreChunks, Retrieve, Evaluate,
     FlushFindings, StoreMarkdown, StoreJson, Complete, Refresh, MarkFailed, Raise, Leave,
     Goto, TypeOK
<1> QED BY <1>2, <1>3, <1>4 DEF WorkflowStep

\* A run keeps its rows in agreement with its step.
LEMMA RunStaysOnRecord ==
  ASSUME TypeOK, NEW a \in Audits, OnRecord(a), WorkflowStep(a)
  PROVE  OnRecord(a)'
<1>1. RowsPresent(a) /\ RowsPresent(a)'
  BY RunKeepsRows DEF OnRecord
<1>2. StatusFollowsStep(a)' /\ SeenIsOwnStatus(a)'
  BY <1>1, RunStatusFollowsStep DEF OnRecord
<1>3. FiledAtTheEnd(a)'
  BY RunFilesAtTheEnd DEF OnRecord
<1>4. pc'[a] = "complete" => report'[a].filed /\ report'[a].findings = run'[a].analysis.drafts
  BY ReachesComplete
<1> QED BY <1>1, <1>2, <1>3, <1>4 DEF OnRecord

-----------------------------------------------------------------------------
(* Each part of the invariant, under every step *)

\* The rows of document d go, with its audits and their reports.
RowsGo(d) ==
  /\ docStatus' = [docStatus EXCEPT ![d] = "absent"]
  /\ chunkRows' = [chunkRows EXCEPT ![d] = {}]
  /\ auditStatus' = [a \in Audits |-> IF DocOf[a] = d THEN "absent" ELSE auditStatus[a]]
  /\ overallRisk' = [a \in Audits |-> IF DocOf[a] = d THEN "none" ELSE overallRisk[a]]
  /\ report' = [a \in Audits |-> IF DocOf[a] = d THEN NoReport ELSE report[a]]

\* What the step of a request does to the rows and to the runs: nothing, or its rows
\* go, or the database aborts a run it waits for.
LEMMA RequestEffect ==
  ASSUME DInv, NEW r \in Requests, DeletionStep(r)
  PROVE  \E d \in Docs :
           /\ deletion[r].document = {d}
           /\ \/ /\ UNCHANGED <<docStatus, chunkRows, auditStatus, overallRisk, report, pc, run>>
                 /\ Moved(r) /\ deletion'[r].at # "deleted"
              \/ /\ RowsGo(d) /\ UNCHANGED <<pc, run, uploads>> /\ Moved(r)
                 /\ deletion[r].at = "check" /\ deletion'[r].at = "deleted"
              \/ /\ UNCHANGED <<docStatus, chunkRows, auditStatus, overallRisk, report>>
                 /\ UNCHANGED <<uploads, deletion>>
                 /\ \E a \in Audits : pc[a] \in Inserting /\ Raise(a)
<1>1. PICK d \in Docs : deletion[r].document = {d}
  BY DEF DInv, Held, NoDeletion, DeletionStep
<1>2. \A next \in Deleting \cup Ends : Move(r, next) => Moved(r) /\ deletion'[r].at = next
  BY MoveEffect DEF DInv
<1>3. CASE DeleteRows(r, d)
  BY <1>1, <1>2, <1>3 DEF DeleteRows, Fail, Deleting, Ends, vars, dbVars, DInv,
     DeletionTypeOK, Deletions, Moved
<1>4. CASE DeleteChunks(r, d) \/ DeleteUpload(r, d)
  BY <1>1, <1>2, <1>4 DEF DeleteChunks, DeleteUpload, Fail, Deleting, Ends, vars, dbVars
<1>5. CASE DeleteVectors(r, d)
  BY <1>1, <1>2, <1>5 DEF DeleteVectors, Fail, Deleting, Ends, dbVars
<1>6. CASE DeleteObjects(r, d)
  <2>1. PICK next \in {"commit", "raised"} :
          deletion' = [deletion EXCEPT ![r].at = next, ![r].emptied = TRUE]
    BY <1>6 DEF DeleteObjects
  <2>2. Moved(r) /\ deletion'[r].at = next
    BY <2>1 DEF DInv, DeletionTypeOK, Deletions, Moved
  <2> QED BY <1>1, <1>6, <2>2 DEF DeleteObjects, dbVars
<1>7. CASE CommitDeletion(r, d)
  BY <1>1, <1>2, <1>7 DEF CommitDeletion, Fail, Ends, dbVars, storeVars, RowsGo
<1>8. ASSUME NEW a \in Audits, BreakDeadlock(r, d, a)
      PROVE  \/ UNCHANGED <<pc, run>> /\ Moved(r) /\ deletion'[r].at = "raised"
             \/ UNCHANGED deletion /\ Raise(a) /\ pc[a] \in Inserting
  BY <1>2, <1>8 DEF BreakDeadlock, CircleWithRun, Inserting, Fail, Ends
<1>9. CASE \E a \in Audits : BreakDeadlock(r, d, a)
  <2>1. UNCHANGED <<docStatus, chunkRows, auditStatus, overallRisk, report, uploads>>
    BY <1>9 DEF BreakDeadlock, dbVars, storeVars
  <2> QED BY <1>1, <1>8, <1>9, <2>1
<1>10. CASE \E other \in Requests : BreakDeletions(r, d, other)
  BY <1>1, <1>2, <1>10 DEF BreakDeletions, Fail, Ends, vars, dbVars
<1> QED BY <1>1, <1>3, <1>4, <1>5, <1>6, <1>7, <1>9, <1>10 DEF DeletionStep

\* The audits of the process that died: none is under way any more.
LEMMA CrashEffect ==
  ASSUME TypeOK, Crash, NEW a \in Audits
  PROVE  /\ pc'[a] \in {"none", "finished"} \cup Interrupted /\ run'[a] = Fresh
         /\ pc'[a] \in {pc[a]} \cup Interrupted
  BY DEF Crash, TypeOK, Steps, Waiting, Interrupted, Running

\* An audit nobody touches stays as it is recorded.
LEMMA UntouchedRecord ==
  ASSUME NEW a \in Audits, Recorded(a), auditStatus'[a] = auditStatus[a],
         overallRisk'[a] = overallRisk[a], report'[a] = report[a],
         pc'[a] = pc[a], run'[a] = run[a],
         docStatus[DocOf[a]] # "absent" => docStatus'[DocOf[a]] # "absent"
  PROVE  Recorded(a)'
  BY DEF Recorded, OnRecord, RowsPresent, StatusFollowsStep, SeenIsOwnStatus, FiledAtTheEnd

\* The rows of every audit stay in agreement with its run, or go altogether.
LEMMA KeepsRecords ==
  ASSUME LInv, DeletionNext, NEW a \in Audits
  PROVE  Recorded(a)'
<1>0. /\ TypeOK /\ Recorded(a) /\ RowsFollow /\ DocOf[a] \in Docs /\ ReportMatchesFindings
  BY DocOfAssumption DEF LInv, DInv, DeletionTypeOK
<1>1. ASSUME NEW r \in Requests, DeletionStep(r) PROVE Recorded(a)'
  <2>1. PICK d \in Docs :
          /\ deletion[r].document = {d}
          /\ \/ UNCHANGED <<docStatus, chunkRows, auditStatus, overallRisk, report, pc, run>>
             \/ RowsGo(d) /\ UNCHANGED <<pc, run>>
             \/ /\ UNCHANGED <<docStatus, chunkRows, auditStatus, overallRisk, report>>
                /\ \E b \in Audits : pc[b] \in Inserting /\ Raise(b)
    BY <1>1, RequestEffect DEF LInv
  <2>2. CASE UNCHANGED <<docStatus, chunkRows, auditStatus, overallRisk, report, pc, run>>
    BY <1>0, <2>2, UntouchedRecord
  <2>3. CASE RowsGo(d) /\ UNCHANGED <<pc, run>>
    <3>1. CASE DocOf[a] = d
      BY <2>3, <3>1 DEF RowsGo, Recorded, NoReport
    <3>2. CASE DocOf[a] # d
      <4>1. /\ auditStatus'[a] = auditStatus[a] /\ overallRisk'[a] = overallRisk[a]
            /\ report'[a] = report[a] /\ docStatus'[DocOf[a]] = docStatus[DocOf[a]]
        BY <1>0, <2>3, <3>2 DEF RowsGo, TypeOK
      <4> QED BY <1>0, <2>3, <4>1, UntouchedRecord
    <3> QED BY <3>1, <3>2
  <2>4. ASSUME UNCHANGED <<docStatus, chunkRows, auditStatus, overallRisk, report>>,
               NEW b \in Audits, pc[b] \in Inserting, Raise(b)
        PROVE  Recorded(a)'
    <3>1. CASE a = b
      <4>1. pc'[a] = "failing" /\ run'[a] = Fresh
        BY <1>0, <2>4, <3>1 DEF Raise, Goto, TypeOK
      <4>2. CASE auditStatus[a] = "absent"
        BY <1>0, <2>4, <4>2 DEF Recorded
      <4>3. CASE auditStatus[a] # "absent"
        <5>1. OnRecord(a) /\ auditStatus[a] \in {"embedding", "generating_report"}
          BY <1>0, <2>4, <3>1, <4>3 DEF Recorded, OnRecord, StatusFollowsStep, Reporting,
             Inserting
        <5>2. OnRecord(a)'
          BY <2>4, <4>1, <5>1 DEF OnRecord, RowsPresent, StatusFollowsStep, SeenIsOwnStatus,
             FiledAtTheEnd, Reporting
        <5> QED BY <2>4, <5>1, <5>2 DEF Recorded
      <4> QED BY <4>2, <4>3
    <3>2. CASE a # b
      <4>1. pc'[a] = pc[a] /\ run'[a] = run[a]
        BY <1>0, <2>4, <3>2 DEF Raise, Goto, TypeOK
      <4> QED BY <1>0, <2>4, <4>1, UntouchedRecord
    <3> QED BY <3>1, <3>2
  <2> QED BY <2>1, <2>2, <2>3, <2>4
<1>2. ASSUME NEW b \in Audits, WorkflowStep(b) PROVE Recorded(a)'
  <2>1. docStatus[DocOf[a]] # "absent" => docStatus'[DocOf[a]] # "absent"
    <3>1. \A s \in Stages \cup Terminal : s # "absent"
      BY DEF Stages, Terminal
    <3> QED BY <1>0, <1>2, <3>1, RunWritesOwnRows DEF TypeOK
  <2>2. CASE a # b
    BY <1>0, <1>2, <2>1, <2>2, RunDisturbsNoOther, UntouchedRecord
  <2>3. CASE a = b /\ auditStatus[a] = "absent"
    BY <1>0, <1>2, <2>3, RunWithoutRows DEF Recorded, RowsPresent
  <2>4. CASE a = b /\ auditStatus[a] # "absent"
    <3>1. OnRecord(a)'
      BY <1>0, <1>2, <2>4, RunStaysOnRecord DEF Recorded
    <3> QED BY <3>1 DEF Recorded, OnRecord, RowsPresent
  <2> QED BY <2>2, <2>3, <2>4
<1>3. ASSUME NEW b \in Audits, CreateAudit(b) PROVE Recorded(a)'
  <2>1. UNCHANGED <<docStatus, overallRisk, report, run>>
    BY <1>3 DEF CreateAudit
  <2>2. CASE a # b
    <3>1. auditStatus'[a] = auditStatus[a] /\ pc'[a] = pc[a]
      BY <1>0, <1>3, <2>2 DEF CreateAudit, TypeOK
    <3> QED BY <1>0, <2>1, <3>1, UntouchedRecord
  <2>3. CASE a = b
    <3>1. /\ auditStatus'[a] = "uploaded" /\ pc'[a] \in {"scheduled", "escaped"}
          /\ docStatus[DocOf[a]] # "absent" /\ ~report[a].filed
      BY <1>0, <1>3, <2>3 DEF CreateAudit, TypeOK, RowsFollow
    <3>2. OnRecord(a)'
      BY <2>1, <3>1 DEF OnRecord, RowsPresent, StatusFollowsStep, SeenIsOwnStatus,
         FiledAtTheEnd, Running, Reporting
    <3> QED BY <3>1, <3>2 DEF Recorded
  <2> QED BY <2>2, <2>3
<1>4. ASSUME NEW d \in Docs, StoreUpload(d) \/ InsertDocument(d) \/ Expire(d) PROVE Recorded(a)'
  <2>1. UNCHANGED <<auditStatus, overallRisk, report, pc, run>>
    BY <1>4 DEF StoreUpload, InsertDocument, Expire, dbVars
  <2>2. docStatus[DocOf[a]] # "absent" => docStatus'[DocOf[a]] # "absent"
    BY <1>0, <1>4 DEF StoreUpload, InsertDocument, Expire, dbVars, TypeOK
  <2> QED BY <1>0, <2>1, <2>2, UntouchedRecord
<1>5. CASE SweepStep
  <2>1. UNCHANGED <<auditStatus, overallRisk, report, pc, run>>
    BY <1>5 DEF SweepStep, BeginSweep, SweepObject, SweepMark, EndSweep, SweepDies, dbVars
  <2>2. docStatus[DocOf[a]] # "absent" => docStatus'[DocOf[a]] # "absent"
    BY <1>0, <1>5 DEF SweepStep, BeginSweep, SweepObject, SweepMark, EndSweep, SweepDies, dbVars,
       TypeOK
  <2> QED BY <1>0, <2>1, <2>2, UntouchedRecord
<1>6. CASE CrashAll
  <2>1. UNCHANGED <<docStatus, auditStatus, overallRisk, report>>
    BY <1>6 DEF CrashAll, Crash, dbVars
  <2>2. pc'[a] \in {"none", "finished"} \cup Interrupted /\ pc'[a] \in {pc[a]} \cup Interrupted
    BY <1>0, <1>6, CrashEffect DEF CrashAll
  <2> QED
    BY <1>0, <2>1, <2>2 DEF Recorded, OnRecord, RowsPresent, StatusFollowsStep, SeenIsOwnStatus,
       FiledAtTheEnd, Running, Reporting, Interrupted
<1>7. ASSUME NEW r \in Requests, NEW d \in Docs, Select(r, d) PROVE Recorded(a)'
  BY <1>0, <1>7, UntouchedRecord DEF Select, vars, dbVars
<1> QED BY <1>1, <1>2, <1>3, <1>4, <1>5, <1>6, <1>7 DEF DeletionNext, AuditMoves, AuditMade,
   SweepMoves

\* What a request must have passed to be where it goes, and what it leaves alone.
LEMMA RequestAdvances ==
  ASSUME DInv, NEW r \in Requests, DeletionStep(r)
  PROVE  /\ deletion[r].at \in Deleting
         /\ deletion[r].at # "commit" /\ deletion'[r].at = "commit" =>
              deletion[r].document \cap uploads' = {}
         /\ deletion[r].at # "check" /\ deletion'[r].at = "check" => deletion[r].at = "commit"
         /\ uploads' \subseteq uploads /\ UNCHANGED uploading
<1>1. PICK d \in Docs : deletion[r].document = {d}
  BY DEF DInv, Held, NoDeletion, DeletionStep
<1>2. \A next \in Deleting \cup Ends : Move(r, next) => deletion'[r].at = next
  BY MoveEffect DEF DInv
<1>3. CASE DeleteRows(r, d)
  BY <1>1, <1>2, <1>3 DEF DeleteRows, Fail, Deleting, Ends, vars, storeVars, DInv,
     DeletionTypeOK, Deletions
<1>4. CASE DeleteChunks(r, d) \/ DeleteUpload(r, d)
  BY <1>1, <1>2, <1>4 DEF DeleteChunks, DeleteUpload, Fail, Deleting, Ends, vars, storeVars
<1>5. CASE DeleteVectors(r, d)
  BY <1>1, <1>2, <1>5 DEF DeleteVectors, Fail, Deleting, Ends
<1>6. CASE DeleteObjects(r, d)
  <2>1. \/ uploads' = uploads \ {d} /\ deletion'[r].at = "commit"
        \/ uploads' \subseteq uploads /\ deletion'[r].at = "raised"
    BY <1>6 DEF DeleteObjects, DInv, DeletionTypeOK, Deletions
  <2> QED BY <1>1, <1>6, <2>1 DEF DeleteObjects, Deleting
<1>7. CASE CommitDeletion(r, d)
  BY <1>1, <1>2, <1>7 DEF CommitDeletion, Fail, Deleting, Ends, storeVars
<1>8. CASE \E a \in Audits : BreakDeadlock(r, d, a)
  <2>1. UNCHANGED deletion \/ deletion'[r].at = "raised"
    BY <1>2, <1>8 DEF BreakDeadlock, Fail, Ends
  <2>2. deletion[r].at \in Deleting
    BY <1>8 DEF BreakDeadlock, CircleWithRun, Deleting
  <2> QED BY <1>8, <2>1, <2>2 DEF BreakDeadlock, storeVars
<1>9. CASE \E other \in Requests : BreakDeletions(r, d, other)
  BY <1>1, <1>2, <1>9 DEF BreakDeletions, CircleWithDeletion, Fail, Deleting, Ends, vars,
     storeVars
<1> QED BY <1>1, <1>3, <1>4, <1>5, <1>6, <1>7, <1>8, <1>9 DEF DeletionStep

\* Of a document that was uploaded no object and no row comes to be again.
LEMMA NothingComesBack ==
  ASSUME DInv, DeletionNext, NEW d \in Docs, uploading[d] = "done"
  PROVE  /\ d \in uploads' => d \in uploads
         /\ docStatus[d] = "absent" =>
              docStatus'[d] = "absent" /\ (chunkRows[d] = {} => chunkRows'[d] = {})
<1> DEFINE Nothing == /\ d \in uploads' => d \in uploads
                      /\ docStatus[d] = "absent" =>
                           docStatus'[d] = "absent" /\ (chunkRows[d] = {} => chunkRows'[d] = {})
<1>0. TypeOK
  BY DEF DInv, DeletionTypeOK
<1>1. ASSUME NEW r \in Requests, DeletionStep(r) PROVE Nothing
  <2>1. \/ UNCHANGED <<docStatus, chunkRows>>
        \/ \E e \in Docs : RowsGo(e)
    BY <1>1, RequestEffect
  <2>2. d \in uploads' => d \in uploads
    BY <1>1, RequestAdvances
  <2> QED BY <1>0, <2>1, <2>2 DEF RowsGo, TypeOK
<1>2. ASSUME NEW a \in Audits, WorkflowStep(a) PROVE Nothing
  <2>1. UNCHANGED uploads
    BY <1>2, RunLeavesRest
  <2>2. CASE DocOf[a] = d /\ docStatus[d] = "absent"
    BY <1>2, <2>1, <2>2, RunWithoutRows DEF RowsPresent
  <2>3. CASE DocOf[a] # d
    BY <1>0, <1>2, <2>1, <2>3, RunWritesOwnRows, RunEffect DEF TypeOK
  <2> QED BY <2>1, <2>2, <2>3
<1>3. ASSUME NEW a \in Audits, CreateAudit(a) PROVE Nothing
  BY <1>3 DEF CreateAudit, storeVars
<1>4. ASSUME NEW e \in Docs, StoreUpload(e) \/ InsertDocument(e) \/ Expire(e) PROVE Nothing
  BY <1>0, <1>4 DEF StoreUpload, InsertDocument, Expire, dbVars, storeVars, TypeOK
<1>5. CASE SweepStep
  BY <1>0, <1>5 DEF SweepStep, BeginSweep, SweepObject, SweepMark, EndSweep, SweepDies,
     dbVars, storeVars, TypeOK
<1>6. CASE CrashAll
  BY <1>6 DEF CrashAll, Crash, dbVars, storeVars
<1>7. ASSUME NEW r \in Requests, NEW e \in Docs, Select(r, e) PROVE Nothing
  BY <1>7 DEF Select, vars, dbVars, storeVars
<1> QED BY <1>1, <1>2, <1>3, <1>4, <1>5, <1>6, <1>7 DEF DeletionNext, AuditMoves, AuditMade,
   SweepMoves

\* What a deletion took away stays away.
LEMMA KeepsRemoved ==
  ASSUME LInv, DeletionNext, NEW r \in Requests
  PROVE  Removed(r)'
<1>0. DInv /\ TypeOK /\ deletion \in [Requests -> Deletions] /\ Removed(r)
      /\ deletion[r].document \subseteq {d \in Docs : uploading[d] = "done"}
  BY DEF LInv, DInv, DeletionTypeOK, Held, NoDeletion
<1>1. ASSUME deletion'[r].document = deletion[r].document,
             deletion'[r].at \in {"commit", "check"} => deletion[r].at \in {"commit", "check"},
             deletion'[r].at = "deleted" => deletion[r].at = "deleted"
      PROVE  Removed(r)'
  BY <1>0, <1>1, NothingComesBack DEF Removed
<1>2. ASSUME NEW q \in Requests, DeletionStep(q) PROVE Removed(r)'
  <2>1. PICK d \in Docs :
          /\ deletion[q].document = {d}
          /\ \/ Moved(q) /\ deletion'[q].at # "deleted"
             \/ /\ RowsGo(d) /\ UNCHANGED uploads /\ Moved(q)
                /\ deletion[q].at = "check" /\ deletion'[q].at = "deleted"
             \/ UNCHANGED deletion
    BY <1>0, <1>2, RequestEffect
  <2>2. CASE r # q \/ UNCHANGED deletion
    BY <1>1, <2>1, <2>2 DEF Moved
  <2>3. CASE r = q /\ Moved(q) /\ deletion'[q].at # "deleted"
    <3>1. CASE deletion[r].at = "commit" \/ deletion'[r].at # "commit"
      BY <1>0, <1>1, <1>2, <2>3, <3>1, RequestAdvances DEF Moved
    <3>2. CASE deletion[r].at # "commit" /\ deletion'[r].at = "commit"
      BY <1>0, <1>2, <2>3, <3>2, RequestAdvances DEF Moved, Removed
    <3> QED BY <3>1, <3>2
  <2>4. CASE r = q /\ RowsGo(d) /\ UNCHANGED uploads /\ Moved(q) /\ deletion[q].at = "check"
    BY <1>0, <2>1, <2>4 DEF Moved, Removed, RowsGo, TypeOK
  <2> QED BY <2>1, <2>2, <2>3, <2>4
<1>3. CASE CrashAll
  BY <1>0, <1>1, <1>3 DEF CrashAll, Deletions
<1>4. ASSUME NEW q \in Requests, NEW d \in Docs, Select(q, d) PROVE Removed(r)'
  <2>1. r = q => deletion'[r].at = "rows"
    BY <1>0, <1>4 DEF Select
  <2>2. r # q => deletion'[r] = deletion[r]
    BY <1>0, <1>4 DEF Select
  <2> QED BY <1>1, <2>1, <2>2 DEF Removed
<1>5. CASE UNCHANGED deletion
  BY <1>1, <1>5
<1> QED BY <1>2, <1>3, <1>4, <1>5 DEF DeletionNext, AuditMoves, AuditMade,
   SweepMoves

\* An object is left without a row only by its upload.
LEMMA KeepsUploads ==
  ASSUME LInv, DeletionNext
  PROVE  UploadsHaveRows'
<1>0. DInv /\ TypeOK /\ UploadsHaveRows
  BY DEF LInv, DInv, DeletionTypeOK
<1>1. ASSUME UNCHANGED uploading, uploads' \subseteq uploads,
             \A d \in Docs :
               docStatus'[d] = "absent" => docStatus[d] = "absent" \/ d \notin uploads'
      PROVE  UploadsHaveRows'
  BY <1>0, <1>1 DEF UploadsHaveRows, TypeOK
<1>2. ASSUME NEW r \in Requests, DeletionStep(r) PROVE UploadsHaveRows'
  <2>1. uploads' \subseteq uploads /\ UNCHANGED uploading
    BY <1>0, <1>2, RequestAdvances
  <2>2. PICK d \in Docs :
          /\ deletion[r].document = {d}
          /\ \/ UNCHANGED docStatus
             \/ RowsGo(d) /\ deletion[r].at = "check"
    BY <1>0, <1>2, RequestEffect
  <2>3. deletion[r].at = "check" => d \notin uploads
    BY <2>2 DEF LInv, Removed
  <2>4. \A e \in Docs : docStatus'[e] = "absent" => docStatus[e] = "absent" \/ e \notin uploads'
    BY <1>0, <2>1, <2>2, <2>3 DEF RowsGo, TypeOK
  <2> QED BY <1>1, <2>1, <2>4
<1>3. ASSUME NEW a \in Audits, WorkflowStep(a) PROVE UploadsHaveRows'
  <2>1. \A s \in Stages \cup Terminal : s # "absent"
    BY DEF Stages, Terminal
  <2>2. \A d \in Docs : docStatus'[d] = "absent" => docStatus[d] = "absent"
    BY <1>0, <1>3, <2>1, RunWritesOwnRows DEF TypeOK
  <2> QED BY <1>1, <1>3, <2>2, RunLeavesRest
<1>4. ASSUME NEW a \in Audits, CreateAudit(a) PROVE UploadsHaveRows'
  BY <1>1, <1>4 DEF CreateAudit, storeVars
<1>5. ASSUME NEW d \in Docs, StoreUpload(d) \/ InsertDocument(d) \/ Expire(d)
      PROVE  UploadsHaveRows'
  <2>1. CASE StoreUpload(d)
    BY <1>0, <2>1 DEF StoreUpload, dbVars, TypeOK, UploadsHaveRows
  <2>2. CASE InsertDocument(d)
    BY <1>0, <2>2 DEF InsertDocument, storeVars, TypeOK, UploadsHaveRows
  <2>3. CASE Expire(d)
    BY <1>1, <2>3 DEF Expire, dbVars, storeVars
  <2> QED BY <1>5, <2>1, <2>2, <2>3
<1>6. CASE SweepStep
  BY <1>0, <1>1, <1>6 DEF SweepStep, BeginSweep, SweepObject, SweepMark, EndSweep, SweepDies,
     dbVars, storeVars, TypeOK
<1>7. CASE CrashAll
  BY <1>0, <1>7 DEF CrashAll, Crash, dbVars, storeVars, TypeOK, UploadsHaveRows
<1>8. ASSUME NEW r \in Requests, NEW d \in Docs, Select(r, d) PROVE UploadsHaveRows'
  BY <1>1, <1>8 DEF Select, vars, dbVars, storeVars
<1> QED BY <1>2, <1>3, <1>4, <1>5, <1>6, <1>7, <1>8 DEF DeletionNext, AuditMoves, AuditMade,
   SweepMoves

LEMMA DeletionInitLInv == DeletionInit => LInv
<1> SUFFICES ASSUME DeletionInit PROVE LInv
  OBVIOUS
<1>1. /\ uploads = {} /\ \A r \in Requests : deletion[r] = NoDeletion
      /\ \A a \in Audits : /\ auditStatus[a] = "absent" /\ overallRisk[a] = "none"
                           /\ report[a] = NoReport
  BY DEF DeletionInit, Init
<1>2. UploadsHaveRows
  BY <1>1 DEF UploadsHaveRows
<1>3. \A a \in Audits : Recorded(a)
  BY <1>1 DEF Recorded, NoReport
<1>4. \A r \in Requests : Removed(r)
  BY <1>1 DEF Removed, NoDeletion
<1> QED BY <1>2, <1>3, <1>4, DeletionInitInv DEF LInv

LEMMA DeletionStepKeepsLInv == LInv /\ [DeletionNext]_allVars => LInv'
<1> SUFFICES ASSUME LInv, [DeletionNext]_allVars PROVE LInv'
  OBVIOUS
<1>1. DInv'
  BY DeletionStepKeepsInv DEF LInv
<1>2. CASE DeletionNext
  BY <1>1, <1>2, KeepsRecords, KeepsRemoved, KeepsUploads DEF LInv
<1>3. CASE UNCHANGED allVars
  <2>1. UNCHANGED <<docStatus, chunkRows, auditStatus, overallRisk, report, uploads, uploading,
                    pc, run, deletion>>
    BY <1>3 DEF allVars, vars, dbVars, storeVars
  <2>2. UploadsHaveRows'
    BY <2>1 DEF LInv, UploadsHaveRows
  <2>3. \A a \in Audits : Recorded(a)'
    BY <2>1, UntouchedRecord DEF LInv
  <2>4. \A r \in Requests : Removed(r)'
    BY <2>1 DEF LInv, Removed
  <2> QED BY <1>1, <2>2, <2>3, <2>4 DEF LInv
<1> QED BY <1>2, <1>3

(***************************************************************************)
(* The invariant of what deletions leave holds in every state.             *)
(***************************************************************************)
THEOREM DeletionLeavesInductive == DeletionSpec => []LInv
<1> QED BY DeletionInitLInv, DeletionStepKeepsLInv, PTL DEF DeletionSpec

(***************************************************************************)
(* No run that was under way, no upload and no sweep brings back a row or  *)
(* the object of a document once its deletion has committed                *)
(* (_delete_uploaded_document).                                            *)
(***************************************************************************)
THEOREM DeletionsAreFinal == DeletionSpec => []DeletionIsFinal
<1>1. LInv => DeletionIsFinal
  <2> SUFFICES ASSUME LInv, NEW r \in Requests, deletion[r].at = "deleted",
                      NEW d \in deletion[r].document
               PROVE  /\ docStatus[d] = "absent" /\ chunkRows[d] = {} /\ d \notin uploads
                      /\ \A a \in AuditsOf(d) :
                           auditStatus[a] = "absent" /\ findings[a] = {} /\ ~report[a].filed
    BY DEF DeletionIsFinal
  <2>1. docStatus[d] = "absent" /\ chunkRows[d] = {} /\ d \notin uploads
    BY DEF LInv, Removed
  <2>2. ASSUME NEW a \in AuditsOf(d)
        PROVE  auditStatus[a] = "absent" /\ findings[a] = {} /\ ~report[a].filed
    <3>1. a \in Audits /\ DocOf[a] = d /\ Recorded(a)
      BY DEF AuditsOf, LInv
    <3>2. auditStatus[a] = "absent" /\ ~report[a].filed
      BY <2>1, <3>1 DEF Recorded, OnRecord, RowsPresent
    <3> QED BY <3>1, <3>2 DEF LInv, DInv, ReportMatchesFindings
  <2> QED BY <2>1, <2>2
<1> QED BY <1>1, DeletionLeavesInductive, PTL

(***************************************************************************)
(* Though rows are deleted under running audits, reports and findings      *)
(* agree and no document is left in a stage; and only an upload leaves an  *)
(* object without a row: a deletion takes the object first                 *)
(* (_delete_uploaded_document, upload_document).                           *)
(***************************************************************************)
THEOREM RowsConsistent == DeletionSpec => []RowsStayConsistent
<1>1. StagesHaveAuthors => NoStrandedDocument
  BY DEF StagesHaveAuthors, NoStrandedDocument, InProgress, Unfinished
<1>2. LInv => RowsStayConsistent
  BY <1>1 DEF LInv, DInv, RowsStayConsistent
<1> QED BY <1>2, DeletionLeavesInductive, PTL

-----------------------------------------------------------------------------
(***************************************************************************)
(* The refinement of DeletableLifecycle: a step is one move of one audit,  *)
(* as in part 2, or the end of all audits of a document, or not seen.      *)
(***************************************************************************)
\* DeletableLifecycle sees nothing happen to an audit.
VisibleSame(a) ==
  /\ VisiblePhase(a)' = VisiblePhase(a) /\ Filed(a)' = Filed(a)
  /\ overallRisk'[a] = overallRisk[a]

\* A move of one audit, with the others as they are, is a step of DeletableLifecycle.
LEMMA MovesAreDeletableSteps ==
  ASSUME TypeOK, TypeOK', NEW a \in Audits, Moves(a),
         VisiblePhase(a) = Phase(a), VisiblePhase(a)' = Phase(a)',
         \A b \in Audits \ {a} : VisibleSame(b)
  PROVE  Deletable!Next
<1>1. VisiblePhases' = [VisiblePhases EXCEPT ![a] = Phase(a)']
  BY DEF VisibleSame, VisiblePhases
<1>2. FiledRisks' = [FiledRisks EXCEPT ![a] = Filed(a)']
  BY DEF VisibleSame, FiledRisks
<1>3. overallRisk' = [overallRisk EXCEPT ![a] = overallRisk'[a]]
  BY DEF VisibleSame, TypeOK
<1>4. VisiblePhases[a] = Phase(a) /\ FiledRisks[a] = Filed(a)
  BY DEF VisiblePhases, FiledRisks
<1>5. Phase(a)' = Phase(a) => VisiblePhases' = VisiblePhases
  BY DEF VisibleSame, VisiblePhases
<1>6. Filed(a)' = Filed(a) => FiledRisks' = FiledRisks
  BY DEF VisibleSame, FiledRisks
<1>7. overallRisk'[a] = overallRisk[a] => overallRisk' = overallRisk
  BY DEF VisibleSame, TypeOK
<1>8. \/ /\ VisiblePhases[a] = "absent"
         /\ VisiblePhases' = [VisiblePhases EXCEPT ![a] = "accepted"]
         /\ FiledRisks' = FiledRisks /\ overallRisk' = overallRisk
      \/ /\ VisiblePhases[a] = "accepted"
         /\ VisiblePhases' = [VisiblePhases EXCEPT ![a] = "working"]
         /\ FiledRisks' = FiledRisks /\ overallRisk' = overallRisk
      \/ /\ VisiblePhases[a] = "working" /\ VisiblePhases' = VisiblePhases
         /\ FiledRisks[a] = "none"
         /\ \E risk \in Risks : FiledRisks' = [FiledRisks EXCEPT ![a] = risk]
         /\ overallRisk' = overallRisk
      \/ /\ VisiblePhases[a] = "working"
         /\ VisiblePhases' = [VisiblePhases EXCEPT ![a] = "completed"]
         /\ FiledRisks[a] # "none" /\ FiledRisks' = FiledRisks
         /\ overallRisk' = [overallRisk EXCEPT ![a] = FiledRisks[a]]
      \/ /\ \/ VisiblePhases[a] \in {"accepted", "working"}
            \/ DbMayFail /\ VisiblePhases[a] = "completed"
         /\ VisiblePhases' = [VisiblePhases EXCEPT ![a] = "failed"]
         /\ FiledRisks' = FiledRisks /\ overallRisk' = overallRisk
  BY <1>1, <1>2, <1>3, <1>4, <1>5, <1>6, <1>7 DEF Moves
<1> QED
  BY <1>8 DEF Deletable!Next, Deletable!Accept, Deletable!Start, Deletable!File,
     Deletable!Finish, Deletable!Fail

\* Audits that stay as they are, all of them, are a stutter of DeletableLifecycle.
LEMMA VisibleSameIsStutter ==
  ASSUME TypeOK, TypeOK', \A b \in Audits : VisibleSame(b)
  PROVE  UNCHANGED <<VisiblePhases, FiledRisks, overallRisk>>
<1>1. UNCHANGED <<VisiblePhases, FiledRisks>>
  BY DEF VisibleSame, VisiblePhases, FiledRisks
<1>2. UNCHANGED overallRisk
  BY DEF VisibleSame, TypeOK
<1> QED BY <1>1, <1>2

\* What an audit shows depends on its row, its report and whether it was asked for.
LEMMA VisibleOfRows ==
  ASSUME NEW a \in Audits, auditStatus'[a] = auditStatus[a], overallRisk'[a] = overallRisk[a],
         report'[a] = report[a], pc'[a] = "none" <=> pc[a] = "none"
  PROVE  VisibleSame(a)
  BY DEF VisibleSame, VisiblePhase, Phase, Filed

\* When the rows of a document go, its audits are removed, if there are any.
LEMMA RowsGoRemoves ==
  ASSUME LInv, LInv', NEW d \in Docs, RowsGo(d), UNCHANGED pc
  PROVE  \/ \E gone \in SUBSET Audits : Deletable!Remove(gone)
         \/ UNCHANGED <<VisiblePhases, FiledRisks, overallRisk>>
<1>0. /\ TypeOK /\ TypeOK' /\ Present(d) \in SUBSET Audits
      /\ \A a \in Audits : a \in Present(d) <=> DocOf[a] = d /\ auditStatus[a] # "absent"
  BY DEF LInv, DInv, DeletionTypeOK, Present, AuditsOf
<1>1. ASSUME NEW a \in Present(d)
      PROVE  /\ VisiblePhase(a) \notin {"absent", "gone"}
             /\ VisiblePhase(a)' = "gone" /\ Filed(a)' = "none" /\ overallRisk'[a] = "none"
  <2>1. a \in Audits /\ auditStatus[a] # "absent" /\ DocOf[a] = d
    BY <1>0
  <2>2. auditStatus[a] # "gone" /\ auditStatus[a] \in AuditStatuses
    BY <1>0, <2>1 DEF TypeOK, AuditStatuses, Stages, Terminal
  <2>3. VisiblePhase(a) \notin {"absent", "gone"}
    BY <2>1, <2>2 DEF VisiblePhase, Phase
  <2>4. pc[a] # "none"
    BY <2>1 DEF LInv, DInv, RowsFollow
  <2>5. auditStatus'[a] = "absent" /\ overallRisk'[a] = "none" /\ report'[a] = NoReport
    BY <2>1 DEF RowsGo
  <2> QED BY <2>3, <2>4, <2>5 DEF VisiblePhase, Filed, NoReport
<1>2. ASSUME NEW a \in Audits \ Present(d) PROVE VisibleSame(a)
  <2>1. CASE DocOf[a] # d
    BY <2>1, VisibleOfRows DEF RowsGo
  <2>2. CASE DocOf[a] = d
    <3>1. auditStatus[a] = "absent" /\ overallRisk[a] = "none" /\ ~report[a].filed
      BY <1>0, <2>2 DEF LInv, Recorded
    <3>2. auditStatus'[a] = "absent" /\ overallRisk'[a] = "none" /\ ~report'[a].filed
      BY <2>2 DEF RowsGo, NoReport
    <3> QED BY <3>1, <3>2 DEF VisibleSame, VisiblePhase, Phase, Filed
  <2> QED BY <2>1, <2>2
<1>3. CASE Present(d) = {}
  BY <1>0, <1>2, <1>3, VisibleSameIsStutter
<1>4. CASE Present(d) # {}
  <2>1. \A a \in Present(d) : VisiblePhases[a] \notin {"absent", "gone"}
    BY <1>0, <1>1 DEF VisiblePhases
  <2>2. VisiblePhases' = [a \in Audits |-> IF a \in Present(d) THEN "gone" ELSE VisiblePhases[a]]
    BY <1>1, <1>2 DEF VisiblePhases, VisibleSame
  <2>3. FiledRisks' = [a \in Audits |-> IF a \in Present(d) THEN "none" ELSE FiledRisks[a]]
    BY <1>1, <1>2 DEF FiledRisks, VisibleSame
  <2>4. overallRisk' = [a \in Audits |-> IF a \in Present(d) THEN "none" ELSE overallRisk[a]]
    BY <1>0, <1>1, <1>2 DEF TypeOK, VisibleSame
  <2> QED BY <1>0, <1>4, <2>1, <2>2, <2>3, <2>4 DEF Deletable!Remove
<1> QED BY <1>3, <1>4

\* Every step beside deletions is a step of DeletableLifecycle or not seen by it.
LEMMA DeletionNextRefines ==
  ASSUME LInv, LInv', [DeletionNext]_allVars
  PROVE  Deletable!DeletableNext \/ UNCHANGED <<VisiblePhases, FiledRisks, overallRisk>>
<1>0. /\ TypeOK /\ TypeOK' /\ RowsFollow /\ ReportMatchesFindings
      /\ \A a \in Audits : Recorded(a)
  BY DEF LInv, DInv, DeletionTypeOK
<1>1. ASSUME UNCHANGED <<auditStatus, overallRisk, report>>,
             \A a \in Audits : pc'[a] = "none" <=> pc[a] = "none"
      PROVE  UNCHANGED <<VisiblePhases, FiledRisks, overallRisk>>
  BY <1>0, <1>1, VisibleOfRows, VisibleSameIsStutter
<1>2. ASSUME NEW r \in Requests, DeletionStep(r)
      PROVE  Deletable!DeletableNext \/ UNCHANGED <<VisiblePhases, FiledRisks, overallRisk>>
  <2>1. PICK d \in Docs :
          \/ UNCHANGED <<auditStatus, overallRisk, report, pc>>
          \/ RowsGo(d) /\ UNCHANGED pc
          \/ /\ UNCHANGED <<auditStatus, overallRisk, report>>
             /\ \E a \in Audits : pc[a] \in Inserting /\ Raise(a)
    BY <1>2, RequestEffect DEF LInv
  <2>2. CASE UNCHANGED <<auditStatus, overallRisk, report, pc>>
    BY <1>1, <2>2
  <2>3. CASE RowsGo(d) /\ UNCHANGED pc
    BY <2>3, RowsGoRemoves DEF Deletable!DeletableNext
  <2>4. ASSUME NEW a \in Audits, pc[a] \in Inserting, Raise(a)
        PROVE  \A b \in Audits : pc'[b] = "none" <=> pc[b] = "none"
    BY <1>0, <2>4 DEF Raise, Goto, TypeOK, Inserting
  <2> QED BY <1>1, <2>1, <2>2, <2>3, <2>4
<1>3. ASSUME NEW a \in Audits, WorkflowStep(a)
      PROVE  Deletable!Next \/ UNCHANGED <<VisiblePhases, FiledRisks, overallRisk>>
  <2>1. \A b \in Audits \ {a} : VisibleSame(b)
    BY <1>0, <1>3, RunDisturbsNoOther, VisibleOfRows
  <2>2. pc[a] # "none" /\ pc'[a] # "none"
    BY <1>0, <1>3, RunEffect DEF UnderWay, Running
  <2>3. CASE auditStatus[a] = "absent"
    <3>1. VisibleSame(a)
      BY <1>3, <2>2, <2>3, RunWithoutRows, VisibleOfRows DEF RowsPresent
    <3> QED BY <1>0, <2>1, <3>1, VisibleSameIsStutter
  <2>4. CASE auditStatus[a] # "absent"
    <3>1. OnRecord(a)
      BY <1>0, <2>4 DEF Recorded
    <3>2. auditStatus'[a] # "absent"
      BY <1>0, <1>3, <3>1, RunKeepsRows DEF OnRecord, RowsPresent
    <3>3. VisiblePhase(a) = Phase(a) /\ VisiblePhase(a)' = Phase(a)'
      BY <2>4, <3>2 DEF VisiblePhase, Phase
    <3>4. CASE Moves(a)
      BY <1>0, <2>1, <3>3, <3>4, MovesAreDeletableSteps
    <3>5. CASE Same(a)
      <4>1. VisibleSame(a)
        BY <3>3, <3>5 DEF Same, VisibleSame
      <4> QED BY <1>0, <2>1, <4>1, VisibleSameIsStutter
    <3> QED BY <1>0, <1>3, <3>1, <3>4, <3>5, RunMovesOrNot
  <2> QED BY <2>3, <2>4
<1>4. ASSUME NEW a \in Audits, CreateAudit(a) PROVE Deletable!Next
  <2>1. /\ pc[a] = "none" /\ auditStatus[a] = "absent" /\ auditStatus'[a] = "uploaded"
        /\ \A b \in Audits \ {a} : auditStatus'[b] = auditStatus[b] /\ pc'[b] = pc[b]
        /\ UNCHANGED <<report, overallRisk>>
    BY <1>0, <1>4 DEF CreateAudit, RowsFollow, TypeOK
  <2>2. VisiblePhase(a) = Phase(a) /\ VisiblePhase(a)' = Phase(a)'
    BY <2>1 DEF VisiblePhase, Phase
  <2>3. Moves(a)
    BY <2>1 DEF Moves, Phase, Filed, Stages
  <2>4. \A b \in Audits \ {a} : VisibleSame(b)
    BY <2>1, VisibleOfRows
  <2> QED BY <1>0, <2>2, <2>3, <2>4, MovesAreDeletableSteps
<1>5. ASSUME NEW d \in Docs, StoreUpload(d) \/ InsertDocument(d) \/ Expire(d)
      PROVE  UNCHANGED <<VisiblePhases, FiledRisks, overallRisk>>
  BY <1>1, <1>5 DEF StoreUpload, InsertDocument, Expire, dbVars
<1>6. CASE SweepStep
  BY <1>1, <1>6 DEF SweepStep, BeginSweep, SweepObject, SweepMark, EndSweep, SweepDies, dbVars
<1>7. CASE CrashAll
  <2>1. \A a \in Audits : pc'[a] = "none" <=> pc[a] = "none"
    BY <1>7 DEF CrashAll, Crash, Running
  <2> QED BY <1>1, <1>7, <2>1 DEF CrashAll, Crash, dbVars
<1>8. CASE UNCHANGED vars
  BY <1>1, <1>8 DEF vars, dbVars
<1> QED
  BY <1>2, <1>3, <1>4, <1>5, <1>6, <1>7, <1>8
     DEF DeletionNext, AuditMoves, AuditMade, SweepMoves, Select, allVars,
         Deletable!DeletableNext

LEMMA DeletionInitRefines == DeletionInit => Deletable!Init
<1> SUFFICES ASSUME DeletionInit PROVE Deletable!Init
  OBVIOUS
<1>1. \A a \in Audits : /\ auditStatus[a] = "absent" /\ report[a] = NoReport /\ pc[a] = "none"
                        /\ overallRisk = [b \in Audits |-> "none"]
  BY DEF DeletionInit, Init
<1>2. \A a \in Audits : VisiblePhase(a) = "absent" /\ Filed(a) = "none"
  BY <1>1 DEF VisiblePhase, Phase, Filed, NoReport, Stages
<1>3. VisiblePhases = [a \in Audits |-> "absent"] /\ FiledRisks = [a \in Audits |-> "none"]
  BY <1>2 DEF VisiblePhases, FiledRisks
<1> QED BY <1>3 DEF DeletionInit, Init, Deletable!Init

(***************************************************************************)
(* What the audits API shows of audits while their documents are deleted   *)
(* is a behaviour of DeletableLifecycle: an audit goes at once, with its   *)
(* report and its risk, and never comes back (_delete_uploaded_document).  *)
(***************************************************************************)
THEOREM DeletionsImplementLifecycle == DeletionSpec => ImplementsDeletableLifecycle
<1>1. LInv /\ LInv' /\ [DeletionNext]_allVars =>
        [Deletable!DeletableNext]_<<VisiblePhases, FiledRisks, overallRisk>>
  BY DeletionNextRefines
<1> QED
  BY <1>1, DeletionInitRefines, DeletionLeavesInductive, PTL
     DEF DeletionSpec, ImplementsDeletableLifecycle, Deletable!DeletableSpec
-----------------------------------------------------------------------------
(***************************************************************************)
(* What is left of "every run and every deletion ends" when fairness is    *)
(* taken out of it: none of them ever goes back.                           *)
(***************************************************************************)
RunOrder == [none |-> 0, scheduled |-> 1, extract |-> 2, read |-> 3, mark_chunking |-> 4,
             chunk |-> 5, index |-> 6, clear_chunks |-> 7, store_chunks |-> 8,
             mark_retrieving |-> 9, retrieve |-> 10, mark_reranking |-> 11,
             mark_analyzing |-> 12, evaluate |-> 13, mark_generating |-> 14,
             flush_findings |-> 15, store_markdown |-> 16, store_json |-> 17,
             commit_report |-> 18, complete |-> 19, refresh |-> 20, failing |-> 21,
             finished |-> 22, escaped |-> 22, lost |-> 22]

RequestOrder == [none |-> 0, rows |-> 1, chunks |-> 2, vectors |-> 3, objects |-> 4,
                 commit |-> 5, check |-> 6, deleted |-> 7, refused |-> 7, raised |-> 7,
                 lost |-> 7]

\* No run and no request is anywhere else than before.
Stays == pc' = pc /\ \A r \in Requests : deletion'[r].at = deletion[r].at

Onward ==
  /\ \A a \in Audits : pc'[a] = pc[a] \/ RunOrder[pc[a]] < RunOrder[pc'[a]]
  /\ \A r \in Requests : \/ deletion'[r].at = deletion[r].at
                         \/ RequestOrder[deletion[r].at] < RequestOrder[deletion'[r].at]

MovesOn ==
  /\ Onward
  /\ (\E a \in Audits : WorkflowStep(a)) \/ (\E r \in Requests : DeletionStep(r)) => ~Stays

\* Each step of a run takes it further in the order.
LEMMA RunMovesOn ==
  ASSUME TypeOK, NEW a \in Audits, WorkflowStep(a)
  PROVE  RunOrder[pc[a]] < RunOrder[pc'[a]]
<1>1. ASSUME NEW status, NEW next, SetStatus(a, status, next) PROVE pc'[a] \in {next, "failing"}
  BY <1>1, SetStatusEffect
<1>2. CASE \/ BeginExtraction(a) \/ BeginChunking(a) \/ Chunk(a) \/ BeginRetrieval(a)
           \/ MarkReranking(a) \/ BeginAnalysis(a) \/ BeginReport(a)
  BY <1>1, <1>2 DEF BeginExtraction, BeginChunking, Chunk, BeginRetrieval, MarkReranking,
     BeginAnalysis, BeginReport, Raise, Goto, TypeOK, RunOrder
<1>3. CASE \/ LoadRun(a) \/ ReadUpload(a) \/ Index(a) \/ ClearChunks(a) \/ StoreChunks(a)
           \/ Retrieve(a) \/ Evaluate(a)
  BY <1>3 DEF LoadRun, ReadUpload, Index, ClearChunks, StoreChunks, Retrieve, Evaluate,
     Raise, Leave, Goto, TypeOK, RunOrder
<1>4. CASE \/ FlushFindings(a) \/ StoreMarkdown(a) \/ StoreJson(a) \/ CommitReport(a)
           \/ Complete(a) \/ Refresh(a) \/ MarkFailed(a)
  BY <1>4 DEF FlushFindings, StoreMarkdown, StoreJson, CommitReport, Complete, Refresh,
     MarkFailed, Raise, Leave, Goto, TypeOK, RunOrder
<1> QED BY <1>2, <1>3, <1>4 DEF WorkflowStep

\* A step of a request takes it, or the run that is aborted for it, further.
LEMMA RequestMovesOn ==
  ASSUME DInv, NEW r \in Requests, DeletionStep(r)
  PROVE  \/ /\ RequestOrder[deletion[r].at] < RequestOrder[deletion'[r].at]
            /\ UNCHANGED pc /\ \A q \in Requests \ {r} : deletion'[q] = deletion[q]
         \/ /\ UNCHANGED deletion
            /\ \E a \in Audits : pc[a] \in Inserting /\ pc' = [pc EXCEPT ![a] = "failing"]
<1>1. PICK d \in deletion[r].document :
        \/ DeleteRows(r, d) \/ DeleteChunks(r, d) \/ DeleteVectors(r, d)
        \/ DeleteObjects(r, d) \/ DeleteUpload(r, d) \/ CommitDeletion(r, d)
        \/ \E a \in Audits : BreakDeadlock(r, d, a)
        \/ \E other \in Requests : BreakDeletions(r, d, other)
  BY DEF DeletionStep
<1>2. \A next \in Deleting \cup Ends :
        Move(r, next) => /\ deletion'[r].at = next
                         /\ \A q \in Requests \ {r} : deletion'[q] = deletion[q]
  BY MoveEffect DEF DInv, Moved
<1>3. CASE DeleteRows(r, d)
  BY <1>2, <1>3 DEF DeleteRows, Fail, Deleting, Ends, vars, RequestOrder, DInv,
     DeletionTypeOK, Deletions
<1>4. CASE DeleteChunks(r, d) \/ DeleteUpload(r, d)
  BY <1>2, <1>4 DEF DeleteChunks, DeleteUpload, Fail, Deleting, Ends, vars, RequestOrder
<1>5. CASE DeleteVectors(r, d)
  BY <1>2, <1>5 DEF DeleteVectors, Fail, Deleting, Ends, RequestOrder
<1>6. CASE DeleteObjects(r, d)
  <2>1. PICK next \in {"commit", "raised"} :
          deletion' = [deletion EXCEPT ![r].at = next, ![r].emptied = TRUE]
    BY <1>6 DEF DeleteObjects
  <2>2. deletion'[r].at = next /\ \A q \in Requests \ {r} : deletion'[q] = deletion[q]
    BY <2>1 DEF DInv, DeletionTypeOK, Deletions
  <2>3. deletion[r].at = "objects" /\ UNCHANGED pc
    BY <1>6 DEF DeleteObjects
  <2>4. RequestOrder[deletion[r].at] < RequestOrder[deletion'[r].at]
    BY <2>1, <2>2, <2>3 DEF RequestOrder
  <2> QED BY <2>2, <2>3, <2>4
<1>7. CASE CommitDeletion(r, d)
  BY <1>2, <1>7 DEF CommitDeletion, Fail, Ends, RequestOrder
<1>8. CASE \E a \in Audits : BreakDeadlock(r, d, a)
  BY <1>2, <1>8 DEF BreakDeadlock, CircleWithRun, Inserting, Fail, Ends, RequestOrder, Raise,
     Goto
<1>9. CASE \E other \in Requests : BreakDeletions(r, d, other)
  BY <1>2, <1>9 DEF BreakDeletions, CircleWithDeletion, Fail, Ends, vars, RequestOrder
<1> QED BY <1>1, <1>3, <1>4, <1>5, <1>6, <1>7, <1>8, <1>9

(***************************************************************************)
(* No step of a run or of a request leaves everything where it is or goes  *)
(* back: a run ends after at most 21 steps of its own, a deletion after    *)
(* six, so that nothing but a wait keeps them from their end               *)
(* (AuditWorkflow.run, _delete_uploaded_document).                         *)
(***************************************************************************)
THEOREM EveryStepMovesOn == DeletionSpec => [][MovesOn]_allVars
<1>1. ASSUME DInv, NEW r \in Requests, DeletionStep(r) PROVE Onward /\ ~Stays
  <2>0. TypeOK /\ deletion \in [Requests -> Deletions]
    BY <1>1 DEF DInv, DeletionTypeOK
  <2>1. CASE /\ RequestOrder[deletion[r].at] < RequestOrder[deletion'[r].at]
             /\ UNCHANGED pc /\ \A q \in Requests \ {r} : deletion'[q] = deletion[q]
    <3>1. RequestOrder[deletion[r].at] \in Nat
      BY <2>0 DEF Deletions, Deleting, Ends, RequestOrder
    <3>2. deletion'[r].at # deletion[r].at
      BY <2>1, <3>1
    <3> QED BY <2>1, <3>2 DEF Onward, Stays
  <2>2. ASSUME UNCHANGED deletion, NEW a \in Audits, pc[a] \in Inserting,
               pc' = [pc EXCEPT ![a] = "failing"]
        PROVE  Onward /\ ~Stays
    <3>1. pc'[a] = "failing" /\ \A b \in Audits \ {a} : pc'[b] = pc[b]
      BY <2>0, <2>2 DEF TypeOK
    <3>2. RunOrder[pc[a]] < RunOrder[pc'[a]]
      BY <2>2, <3>1 DEF RunOrder, Inserting
    <3> QED BY <2>2, <3>1, <3>2 DEF Onward, Stays, Inserting
  <2> QED BY <1>1, <2>1, <2>2, RequestMovesOn
<1>2. ASSUME DInv, NEW a \in Audits, WorkflowStep(a)
      PROVE  (UNCHANGED deletion => Onward) /\ ~Stays
  <2>0. TypeOK
    BY <1>2 DEF DInv, DeletionTypeOK
  <2>1. \A b \in Audits \ {a} : pc'[b] = pc[b]
    BY <1>2, <2>0, RunDisturbsNoOther
  <2>2. RunOrder[pc[a]] < RunOrder[pc'[a]]
    BY <1>2, <2>0, RunMovesOn
  <2>3. RunOrder[pc[a]] \in Nat
    BY <2>0 DEF TypeOK, Steps, Waiting, Running, Interrupted, RunOrder
  <2>4. pc'[a] # pc[a]
    BY <2>2, <2>3
  <2> QED BY <2>1, <2>2, <2>4 DEF Onward, Stays
<1>3. ASSUME DInv, NEW a \in Audits, CreateAudit(a), UNCHANGED deletion PROVE Onward
  BY <1>3 DEF CreateAudit, DInv, DeletionTypeOK, TypeOK, Onward, RunOrder
<1>4. ASSUME NEW d \in Docs, StoreUpload(d) \/ InsertDocument(d) \/ Expire(d), UNCHANGED deletion
      PROVE  Onward
  BY <1>4 DEF StoreUpload, InsertDocument, Expire, Onward
<1>5. ASSUME SweepStep, UNCHANGED deletion PROVE Onward
  BY <1>5 DEF SweepStep, BeginSweep, SweepObject, SweepMark, EndSweep, SweepDies, Onward
<1>6. ASSUME DInv, CrashAll PROVE Onward
  <2>1. \A a \in Audits : pc'[a] = pc[a] \/ RunOrder[pc[a]] < RunOrder[pc'[a]]
    BY <1>6 DEF CrashAll, Crash, Running, RunOrder
  <2>2. \A r \in Requests : \/ deletion'[r].at = deletion[r].at
                           \/ RequestOrder[deletion[r].at] < RequestOrder[deletion'[r].at]
    BY <1>6 DEF CrashAll, DInv, DeletionTypeOK, Deletions, Deleting, RequestOrder
  <2> QED BY <2>1, <2>2 DEF Onward
<1>7. ASSUME DInv, NEW r \in Requests, NEW d \in Docs, Select(r, d) PROVE Onward
  <2>1. UNCHANGED pc /\ deletion[r].at = "none" /\ deletion'[r].at = "rows"
        /\ \A q \in Requests \ {r} : deletion'[q] = deletion[q]
    BY <1>7 DEF Select, vars, DInv, DeletionTypeOK
  <2> QED BY <2>1 DEF Onward, RequestOrder
<1>8. ASSUME DInv, DeletionNext PROVE MovesOn
  <2>1. Onward
    BY <1>1, <1>2, <1>3, <1>4, <1>5, <1>6, <1>7, <1>8
       DEF DeletionNext, AuditMoves, AuditMade, SweepMoves
  <2> QED BY <1>1, <1>2, <1>8, <2>1 DEF MovesOn
<1> QED BY <1>8, DeletionInductive, PTL DEF DeletionSpec
=============================================================================
