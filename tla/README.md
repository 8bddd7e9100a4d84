# Verification of the audit backend

TLA+ modules, TLC runs and TLAPS proofs about the compliance-audit backend in
`src/backend`.  Line numbers below refer to the sources at the commit this
directory sits beside.

## 1. The system

The backend is a FastAPI process.  Users upload documents and start audits of
them; an audit runs in a background thread, in a database session of its own,
and moves through extraction, chunking, indexing, rule retrieval, analysis by a
language model, reporting and completion.  A cleanup loop on the event loop
deletes expired uploads.  State lives in PostgreSQL, S3 and Qdrant; the three
have no common transaction.

| component | state it keeps | operations | talks to | what is hard | what makes it correct |
|---|---|---|---|---|---|
| audit workflow (`workers/audit_workflow.py`, `services/audit_service.py`, `api/v1/audits.py`) | `audit_runs`, `findings`, `audit_results`, `audit_reports`, `reports`; report files in S3 | create, run, mark stage, persist findings, persist report, complete, mark failed | ingestion, retrieval, analysis, database, S3 | threads sharing a document row; two transactions for report and completion; a failure handler that can fail; no recovery after a crash | statuses only move forward; findings and report agree; completed means reported; every audit is decided |
| document ingestion (`agents/document_agent.py`) | `document_chunks`, vectors | read, chunk, embed, upsert, replace rows | S3, Qdrant, database | concurrent replacement of the rows of one document; upsert applied although it timed out | retrieval never starts on a document without vectors or rows |
| document upload (`services/document_service.py`) | `uploaded_documents`, uploaded object | store, insert, expire | S3, database | insert fails after the object is stored | a row always had its object |
| retention sweep (`workers/cleanup.py`, `services/audit_log_service.py`) | `status`, `cleanup_status` of documents | select, delete object, mark, end | S3, database | audits write the same rows meanwhile; the audit log commits or rolls back its caller's changes; the loop has no handler | expired objects go; marked means gone; expired stays expired |
| process, sessions (`main.py`, `db/session.py`, `db/transactions.py`) | open sessions, tasks | start, stop, commit, roll back | everything | restart loses the tasks; sessions do not refresh on commit | no half-written transaction is visible |
| analysis (`agents/compliance_agent.py`) and LLM client (`services/llm_service.py`) | none between calls | up to three attempts with shrinking prompts, model fallback, JSON repair | retrieval, LLM provider | which attempt's data the result carries; a failure status that must survive | a failed call is never taken for a clean document |
| rule retrieval (`agents/retrieval_agent.py`, `rag/retrieval/*`) | loaded models | filter fallback, hybrid search, merge, rerank, validate | Qdrant, models | swallowed search failures; a cut before validation; lazy loading from many threads | no text twice, nothing better left out, a wider filter only for want of rules; a model is loaded once |
| rule documents (`services/rule_service.py`, `api/v1/rules.py`) | `rule_documents`, `compliance_rules`, rule vectors | upload and index, manual rule, delete | S3, Qdrant, database | failure between stores; a coroutine that holds the event loop; deletions of one document side by side | listed means indexed and retrievable; an answer holds; deleted stays deleted |
| administration (`api/v1/admin.py`) | none of its own | delete a document or rule, categories, listings | all stores | external deletes before the commit, foreign keys taken by running audits, locks taken in different orders | a deletion nothing disturbed is complete; one that is refused was disturbed; whichever transaction a deadlock ends, the rows agree |
| registration and login (`api/v1/auth.py`, `auth/*`) | `users` | register, log in | database | two registrations at once; a commit whose answer is lost | one account per mailbox; an administrator whenever there is an account |
| chunker and parsers (`rag/ingestion/*`) | none | parse, split | libraries | boundaries of the window; a fallback from library to library | every word is in a chunk, under its page |
| reports and scoring (`agents/report_agent.py`, `rag/scoring/*`, `api/v1/reports.py`) | none | generate, score, read | workflow | two computations of the same risk | report and row state the same risk |
| health checks, configuration, schemas, migrations | none the program reads back | probe, parse | | | |
| frontend (`src/frontend`) | client state | poll, render | API | a status left by an earlier audit | |

`PROJECT.json` lists every component with its status and every hazard with its
line and the properties aimed at it.

## 2. Modules

| module | what it is | with |
|---|---|---|
| `AuditPipeline` | uploads, audit runs, ingestion and the retention sweep over the shared stores | `MCAuditPipeline`, `AuditPipelineProofs` |
| `AuditLifecycle` | what an audit promises a client that polls it; `AuditPipeline` implements it | `AuditPipelineProofs` |
| `DocumentDeletion` | the administrators' deletion of a document, composed with `AuditPipeline` | `MCDocumentDeletion`, `AuditPipelineProofs` |
| `DeletableLifecycle` | `AuditLifecycle` where documents are deleted; `DocumentDeletion` implements it | `AuditPipelineProofs` |
| `RuleDocuments` | the rule library: upload and indexing, rules entered by hand, deletion | `MCRuleDocuments`, `RuleDocumentsProofs` |
| `RuleRegistry` | what is promised of a rule document; `RuleDocuments` implements it | |
| `RuleRetrieval` | one retrieval of the rules of an audit | `MCRuleRetrieval`, `RuleRetrievalProofs` |
| `ComplianceAnalysis` | one evaluation of a document by the model, composed with `LLMClient` | `MCComplianceAnalysis`, `ComplianceAnalysisProofs` |
| `LLMClient` | one call of `generate_json` | `ComplianceAnalysis` |
| `Ranking` | ranking, cutting and dropping repeated texts, as the Python does | `RankingProofs` |
| `ModelLoading` | the reranker and the embedding model, loaded lazily by many threads | `MCModelLoading`, `ModelLoadingProofs` |
| `Registration` | concurrent registrations | `MCRegistration`, `RegistrationProofs` |
| `DocumentText` | from a file to its chunks | `MCDocumentText`, `DocumentTextProofs` |

`DocumentDeletion` extends `AuditPipeline`: every action of the pipeline takes
part, restricted by the locks a deletion holds.  `ComplianceAnalysis` and
`RuleRetrieval` refine what the pipeline's `Evaluate` and `Retrieve` leave open;
they share no state with other runs, and the pipeline keeps only their outcomes.
`Finalizable` is modelled in both places: over outcomes in `AuditPipeline`, over
the status strings a reply may carry in `ComplianceAnalysis`.

### AuditPipeline

*State.*  `docStatus`, `cleaned`, `chunkRows`, `auditStatus`, `overallRisk`,
`findings` and `report` are the committed rows; `uploads`, `reportObjects` and
`vectors` the two external stores; `pc` the step a workflow thread takes next;
`run` what the thread and its session hold in memory; `sweeper`, `due`,
`target`, `stale` the cleanup task; `elapsed` the documents whose `expires_at`
has passed.  The three status columns of a document are always assigned
together and are one variable.  A run's `seen` is the status its session
believes the row has: `SessionLocal` sets `expire_on_commit=False`, so
assigning the value last seen sends no UPDATE and another writer's value stays
(`WriteStatus`).  `doomed` is what the open DELETE on `document_chunks` has hit:
it removes the rows committed at that moment and no others (read committed).

*Actions.*  One action is one commit, one external call, or one statement
another session can observe.  The workflow's are, in order, `LoadRun`,
`BeginExtraction`, `ReadUpload`, `BeginChunking`, `Chunk`, `Index`,
`ClearChunks`, `StoreChunks`, `BeginRetrieval`, `Retrieve`, `MarkReranking`,
`BeginAnalysis`, `Evaluate`, `BeginReport`, `FlushFindings`, `StoreMarkdown`,
`StoreJson`, `CommitReport`, `Complete`, `Refresh` and, from any of them,
`MarkFailed`.  `_run_langgraph` and `_run_linear` make the same calls in the same
order and are one sequence.  `BeginSweep`, `SweepObject`, `SweepMark`,
`EndSweep` and `SweepDies` are the cleanup task; `StoreUpload`, `InsertDocument`,
`Expire` an upload; `CreateAudit` the request; `Crash` the end and restart of
the process.

*Failures.*  Every database step has a raising alternative under `DbMayFail`, or
when a row it needs is gone; every external call has one always.  An exception
leads to the failure handler (`pc` = `"failing"`), which may raise in its turn
(`"escaped"`).  A crash leaves a running audit `"lost"`.  The startup sweep of
`lifespan` is the first sweep of the restarted loop; `main.py` catches its
exception while the model lets it end the loop, which only adds behaviours.

*What is abstracted.*  Texts, chunks, embeddings, scores, timestamps, error
messages, audit log rows and log lines.  A finding is its risk level.  What
`evaluate_analysis` returns is any set of risk levels of `FindingSets` together
with a model status: `"degraded"` stands for the failure statuses
`_assert_analysis_finalizable` looks for, `"skipped"` for an analysis without
rules, `"generated"` for every other.  Nothing deletes rows in this module by
itself: the code's branches for a missing row are taken in `DocumentDeletion`.

*Assumptions.*  The database is PostgreSQL with foreign keys (the default URL in
`config.py` is SQLite, whose single writer allows fewer interleavings).  A
commit that raises has not been applied; in the statements of `RuleDocuments`
that have no alternative of their own for it (`Register`, `MarkFailed`, `Parse`,
`DeleteRow`) neither, while `InsertRow` and `InsertManual` have one.  An exception
of `report_agent.generate` is not told apart from one of the upload that follows
it (`StoreMarkdown`).  The S3 client (`backend/app/storage`) is not in the tree; it is modelled from its uses:
`upload_bytes` stores or raises, `read_uri_bytes` returns or raises, and after
`delete_uri` returns the object is not there.

### AuditLifecycle

Five actions, `Accept`, `Start`, `File`, `Finish`, `Fail`, over the phase of an
audit, the risk of the report on file and the risk shown with the audit.  The
refinement mapping sends the seven stage names to `working`, the status
`uploaded` to `accepted`, and the rows of the report to `filed`.
`LateFailure`, under which a completed audit can still become a failed one, is
`DbMayFail`: `run` re-reads the audit inside its try block after completing it.

### DocumentDeletion

One request is one transaction: `Select` (what belongs to the document, in one
look), `DeleteRows`, `DeleteChunks`, `DeleteVectors`, `DeleteObjects`,
`DeleteUpload`, `CommitDeletion`.  Until the commit other sessions see the rows,
so the deletion keeps what it selected (`known`, `filed`) and the chunk rows its
DELETE has seen (`cleared`), and the commit applies it.  The commit is two steps:
`db.delete(document)` is sent by the flush, which locks the row of
`uploaded_documents` (`DeleteUpload`), and the check of the foreign keys follows
the DELETE and may wait in its turn (`CommitDeletion`).

`HoldsAudit`, `HoldsRecord`, `HoldsUpload` and `HoldsChunks` are the row locks it
has.  The waits are operators of their own: `RowsWait`, `ChunksWait` and
`UploadWaits` hold a deletion back at a delete of rows that an open transaction
of an audit or of another deletion has written, deleted or referred to, and
`WaitsFor` holds a run back at the statement that would write, refer to or delete
a row a deletion has deleted; requests for audits and the sweep wait for the row
of `uploaded_documents` alike (`AuditMade`, `SweepMoves`).  A run that waits gets
an exception or stays where it is (`AuditMoves`).  At the check, rows that refer
to the document make the request answer 409 (`Referring`); rows another open
transaction has deleted, an audit that replaces chunk rows
(`document_agent.py:200`) or another deletion, are waited for, and may come back
or not.  The stores are emptied before the commit, and no rollback brings them
back.

`BreakDeadlock` and `BreakDeletions` are the database aborting one of two
transactions that wait for each other.  `CircleWithRun` names three circles: a run
that files its report and a deletion at the documents row; a run that has flushed
findings and a deletion at its last DELETE; a run that has deleted chunk rows
stored since the deletion's own delete of them, and goes on to insert its own, and
a deletion at its check.  `CircleWithDeletion` names those of two deletions.
Statements that run one after another with no call between them are one step
(the deletes of `DeleteRows`; the updates of one flush, which SQLAlchemy orders by
mapper: `audit_runs` before `uploaded_documents`).  A circle closed by two
statements within such a step is below the model; its victim ends as with any
other database error, which `DbMayFail` allows at the step.  That these circles
are all there are is therefore not claimed.

The schema is the one `create_all` makes of the ORM classes: foreign keys without
an ON DELETE action.  The migrations declare CASCADE for `document_chunks`
(alembic `20260527_0001:49`, `docs/database-schema.sql:79`) and SET NULL for
`findings` (`0001:131`) and `audit_results` (`0006:32`); on a database made by them
the deletion commits in some of the cases in which the model refuses it.  A DELETE
that waited applies to the rows its statement saw (`cleared` is taken when it is
sent).  `delete_objects` reports keys it could not delete without raising, and
`_delete_s3_prefix` does not look at its answer (`admin.py:756`): of the objects
reached by prefix only, any may stay (`DeleteObjects`); the objects that rows name
are deleted one by one before.

### DeletableLifecycle

`AuditLifecycle` with one more action, `Remove`: any audits, at any stage, go
together, and with each its report and its risk.  An audit that is `gone` takes
part in nothing any more.  The mapping is that of `AuditLifecycle`, but that an
audit asked for and without a row is `gone`, not `absent`.

### RuleDocuments and RuleRegistry

A job is an upload, a manual rule or a deletion; `step` is where its handler is
and, at the end, its answer.  `upload_and_index_rule` is a coroutine with one
`await`, before anything happens: `loop` is the upload that holds the event loop
of a process, and `Accept` takes no request of that process meanwhile.  The
other handlers run on pool threads.  `hit` is the set of deletions that have
deleted the rules row and not committed: another waits for it
(`RuleRowLocked`), a row committed after it was missed makes the commit fail
(`StillReferenced`), and two deletions can deadlock (`Deadlocked`).  `parse`,
chunking and embedding have no handler: the row then stays `indexing`.
`RuleRegistry` has five actions over a document's phase and what audits can find.
Its `Index` may happen after a withdrawal, as an upload on another process may
do; nothing in the code removes vectors of a rule document.

### RuleRetrieval and Ranking

A point is what the properties tell apart: id, text key, domain, type, length,
and its scores under the two searches and the reranker, which are inputs.
`SearchVector`, `SearchWords`, `RankAndValidate` are the steps; the operators
`Nearest`, `BestByWords`, `Merge`, `Boosted`, `DropDuplicates`, `Rerank`,
`Validate` the pure code between them.  `Rules` and `OwnRules` are the two filters,
given up one after the other.  Floats are integers in hundredths or
ten-thousandths.  A failed search counts as no hits (`swallowed`), and an empty
result widens the filter.

### ComplianceAnalysis and LLMClient

`BeginAttempt` builds the prompt (`Profiles`, `SelectRules`, `SelectChunks`,
`Budget`) and calls the client; `Send` and `Parse` are the client's steps;
`RetryOrRaise` starts the next attempt; `Conclude` turns the reply into
findings, or raises on metadata that `int()` refuses, outside the attempts.  A
finding is linked to the best match (`MatchRule`) among the rules of its prompt,
whose evidence is filed with it; the citation it shows is the one the model
stated, whatever that is, and the linked rule's only where it stated none
(`Citation`).
Texts are lengths and sets of terms.  An answer is what decides its fate: whether
it can be repaired, is JSON, is an object, has the keys with usable values.
`requests` and `waited` count, to named caps, the effort of all attempts;
`debris` the files kept of a rejected answer.  What a prompt holds besides the
texts is a constant (`conf.frame`), and the escapes of its JSON are not counted.  A
score so large that `float()` overflows (`llm_service.py:568`), which leaves the
client without a saved copy, is not among the answers.

### ModelLoading

The double-checked loading of `Reranker.model` and of `EmbeddingService.model`: a look without a lock, a look under the global lock, a load under the
lock of the instance with the global one taken inside.  `reranks` tells which of
the two an instance is: a failure is remembered, or raised and tried again.

### Registration

`LookUp`, `ChooseRole`, `Insert`, `Refresh` are the statements of `register`,
each against what is committed then.  The unique index makes a second insert of
an address fail.  An insert whose commit loses its connection may be applied and
is answered with 503.

### DocumentText

A file is, for each PDF library, the number of words on each page.  `ParsePdf`
tries the libraries in turn; `Window` is the chunker's loop, one window a step.  A
library that finds words on some pages is the one that is used: what a later one
would have found on the others is not looked at, and the properties speak of the
text that was taken.  The overlap is the one in force; an explicit 0, which
`chunker.py:25` reads as the setting, is passed by no caller.

## 3. Runs

| run | instance | checks |
|---|---|---|
| `safety` | two audits of one document; or one audit with every set of risk levels, a second document and crashes; database and stores may fail; 714,000 states | `ReportsHold`: findings, report, files and row agree (`ReportMatchesFindings`, `CompletedIsBacked`, `NoReportOfFailedAnalysis`, `ReportUriResolves`); `NoStrandedDocument`; `CleanedMeansGone`; `IngestedBeforeRetrieval`; `StatusMovesForward`; `IInv`, the invariant of the proofs, with `TypeOK` |
| `settling` | one audit, two documents, one crash, failing database, with fairness; 43,000 states | `ImplementsLifecycle`; `EveryAuditSettles`; `ExpiredForGood`: an expired upload ends, and stays, without object and with the status `expired`, though audits overwrite it |
| `deletion` | one document, two audits, two deletions, sweep, crash; 416,000 states | `DeletionIsComplete`, `RefusedOnlyForAudits`, `ReportsKeepFiles`; `RowsStayConsistent`, with `UploadsHaveRows`: only an upload leaves an object without a row; `DeletionIsFinal`: nothing comes back; `ImplementsDeletableLifecycle` |
| `rule_library` | an upload, a manual rule, two deletions, two processes, one crash, with fairness; 206,000 states | `RowsAreBacked`, `AnswersHold`, `UploadUndisturbed`, `IndexingHasAReason`, `ImplementsRegistry`, `EveryRequestEnds` |
| `evaluation` | 32 rule lists, 3 documents, 35 replies and 3 rejected answers, 6 configurations; 641,000 states | `AnswersJudged`, `AnalysisHasReply`, `FindingsLinkShownRules`, `ReportedFailureBlocks`, `EffortBounded`, `BestContextShown`, `TextWithinBudget` |
| `retrieval_search` | every sequence of up to three of nine points, 24 configurations; 337,000 states | `DistinctBestFirst`, `LeftOutForBetter`; `WidensOnlyForWant`: each filter is given up only when it left nothing to use |
| `model_threads` | three threads, two calls each, both kinds of model; 12,000 states, with fairness | `LoadedOnce`, `ReadyCallsUseModel`, `EveryCallEnds` |
| `registration_accounts` | three requests, two mailboxes, two spellings, two roles; 100,000 states | `SomeAdministrator`, `OneAccountPerMailbox`, `AnswersHold` |
| `text_chunks` | ten page layouts for each of three libraries, nine windows; 278,000 states | `NoWordLost`, `ChunksAreSound` |
| `retention` | violation | expired uploads are swept: one database error ends the sweep for good |
| `deletion_refused` | violation | a document whose deletion was refused keeps its upload |
| `registration_first` | violation | only the first account becomes administrator without being listed |

*Bounds.*  Audits interact only through one document's row and chunk rows, the
sweep and deletions; two audits of one document give every such pair, and what a
third could add is left to the proofs, which hold for any number.  `SmallCrowd`
(`safety`) takes two audits without findings or one audit with everything else;
risk levels and report files are an audit's own affair, and two audits with
crashes are left to the proofs.  `FewThings` (`deletion`) lets three of {audit,
audit, deletion, deletion, expiry, crash} happen, the second audit after the first
has completed with both report files, or beside it up to their chunk rows while a
deletion is under way: a deletion meets a finished and a running audit, two audits
that replace each other's chunk rows, another deletion and an audit, the sweep and
an audit, a crash and an audit.  Of two deletions beside a run none goes on after the other has raised: it
then meets what a lone one meets, with less in the stores.  A crash resets every
thread, so a second one (`MaxCrashes`) meets only states a first one leaves.
Three calls' worth of threads cover a loader, a waiter at each lock and a late
reader.  Three registrations give the first, a rival and a later one.  Three
points are one more than the largest result. The windows are smaller than, equal
to and larger than pages, and the overlap less than, equal to and greater than
the window.  `CHECK_DEADLOCK FALSE` is set everywhere: each of these systems
stops when the requests there are have been answered, and what must not stop is
said by the liveness properties.

*Fairness.*  In `AuditPipeline`, weak fairness of each workflow thread and of
the cleanup task (the thread pool runs what was submitted, the event loop its
timers), and strong fairness of a sweep's successful delete and of its
successful mark: a store or a database that refuses one document sweep after
sweep, for ever, is excluded.  In `RuleDocuments` and `ModelLoading`, weak
fairness of each handler and each thread that has begun.  Nothing is assumed of
requests, the clock or crashes, nor that any other call succeeds.

*Waits of deletions.*  No liveness is claimed of deletions of
documents.  Transactions that wait
for each other are ended by PostgreSQL, which aborts one; what is checked is that
everything still agrees whichever it picks (`RowsStayConsistent`,
`DeletionIsFinal`, `ImplementsDeletableLifecycle`), and what is proved is that no
step of a run or a deletion leads back (`EveryStepMovesOn`).

*Mutants.*  The section "Mutants" of each module holds a plausible bug for
each property; put in the place of the definition it distorts, it makes the
property fail.

## 4. Proofs

All theorems are checked by `tlapm` without unproved steps.

*The pipeline.*  The theorems hold for all finite or infinite sets of documents
and audits, any map from audits to documents, any findings, with and without
failures, for any number of crashes.  They rest on the named assumptions of
`AuditPipeline`: `DocOfAssumption`, `AdminDocsAssumption`,
`FindingSetsAssumption`, `SwitchesAssumption`, `MaxCrashesAssumption`.

The properties are not inductive by themselves.  `CompletedIsBacked`, say, needs
to know that a thread about to complete has filed a report over the findings it
still holds in memory.  `IInv` adds, per audit, `InStep`:

* `StatusFollowsStep`: the status in the row is the one the thread's position implies;
* `SeenIsOwnStatus`: after its first commit a session believes the document
  shows its own audit's status, so it cannot skip the final write;
* `ReportFollowsStep`, `FiledAtTheEnd`: what is stored, filed and finalizable at each step;
* `IngestionFollowsStep`: vectors and chunk rows from the step that stores them on;

and, across audits, `RowsFollowRequests`, `SweepHoldsExpired` (what the sweep
holds is expired, not an administrator's, and gone once it is the target) and
`StagesHaveAuthors` (a document in a stage has an audit that has not yet
written its final status).  The last is the point where audits interfere: when
one audit ends, its final write removes any stage it may be the last author of.

`AuditPipelineProofs` first proves what each action does to the parts several
audits share (`SetStatusEffect`, `CompleteEffect`, `LocalsKept`), then that a
step of one audit leaves another in step (`RunDisturbsNoOther`), then one lemma
per part of `IInv`, and then the theorems.  Its second part shows that every step
of the pipeline is a step of `AuditLifecycle` or a stutter, by cases on what the
step writes.

*Deletions.*  The third part of `AuditPipelineProofs` is about `DocumentDeletion`
and takes the steps of the audits from the first.  It holds for any documents, audits and requests.
`IInv` itself does not survive here: rows go under running threads, so that a
thread's position says less about its rows.  `DInv` keeps what remains
(`SeesStage`: a session believes in some stage, not in its own; `FilesFollow`:
the files are there, or a deletion that knew of the audit has emptied them) and
adds `Settled`: what a request that no audit disturbed has found and left at each
of its steps (that nothing refers to the document when its row goes, and that what
its rows named is gone from the stores).  `DeletionIsComplete` and `RefusedOnlyForAudits` are its two ends.

The fourth part is about what a deletion leaves.  `LInv` adds to `DInv`, for each audit, `Recorded`: while its rows are there they agree
with the step of its run as in the first part (`OnRecord`), and once they are
gone so are report and risk; for each request, `Removed`: the object goes before
the rows and neither comes back (`NothingComesBack` goes through the steps that
might bring one).  The refinement of `DeletableLifecycle` takes the steps of a
run from the second part while its rows are there; without rows a run writes
nothing (`RunWithoutRows`).  Last, `EveryStepMovesOn`: what liveness asks of the
steps themselves, for any number of runs and requests; a deletion has ended after
six.

*Rule library.*  `RuleDocumentsProofs` holds for any documents, manual rules,
deletions and processes, from `JobsAssumption`, `TargetOfAssumption`,
`NamesAssumption` and `MaxCrashesAssumption`.  `IInv` there says how far row and
stores are at each step of an upload, a manual rule and a deletion
(`UploadInOrder`, `ManualInOrder`, `DeletionInOrder`).  Two parts carry the rest:
`Hosted`, that an upload under way holds the event loop of its process, so that a
deletion beside it runs on another; and `AbsentForAReason`, that a row which is
not there was never seen by a deletion or has been deleted by one that answered.
The refinement to `RuleRegistry` goes by cases on what a step writes.

*Model loading.*  `ModelLoadingProofs` holds for any threads and any number of
calls, from `MaxCallsAssumption`.  The look without the lock is safe because flags
only go from false to true and the globals know nothing the instance does not
(`GlobalsFollow`); that a thread about to load has found no model, and holds the
lock of the instance (`StepsFollowFlags`, `LocksFollowSteps`), keeps loads apart.

*Registration.*  `RegistrationProofs` holds for any requests, mailboxes, listed
administrators and roles asked for, from `DefaultAdminsAssumption`.  That there
is an administrator is not inductive: a request about to insert a user must be
known to have counted an account (`UsersCameLater`), and accounts stay.  That a
409 is never given for the request's own row needs a row's maker to be past its
insert (`RowsAreOwn`), and that 201 can be relied on that a request which goes
on to read its row back has one (`RowIsThere`).

*Sequences.*  `RankingProofs` says what the operators of `Ranking` do to any
sequence: `Ranked` is a permutation by falling weight (`RankedSeq`, `RanksFall`),
`Picked` keeps the chosen elements in their order (`PickedSeq`, `PickedBy`),
`FirstDistinct` takes no text twice and leaves nothing out that is not there
already unless it is full (`FirstDistinctSeq`, `BestDistinctSeq`), `Heaviest` is
an element (`HeaviestIn`), and a bounded summand bounds `Total` (`TotalBounded`).
The library's induction theorems take an operator, which the provers here cannot
instantiate; `Induct` therefore speaks of a set (one with 0 and every successor
holds all of `Nat`), from `Least`, and induction over a sequence is done with
the set of the lengths for which the claim holds.

*Analysis and client.*  `ComplianceAnalysisProofs` holds for any settings, rule
lists, documents and replies, from `SettingsAssumption` (limits are integers,
negative ones too), `RuleListsAssumption`, `DocumentsAssumption` and
`RepliesAssumption` (lists and sets of terms are finite, lengths natural).  Its `IInv` relates the
call to the attempt: `PromptInv` (what stands in the prompt is that of the last
attempt asked, not of the attempt about to begin), `CallInv` (a return is acted
on at once, a raise is what a next attempt begins from), `EffortInv` (requests
and waiting against the attempts *and* the retry of the call under way, without
which neither bound is inductive), `ResultInv` (what the result says of the
reply).  `SelectRulesBest` and `SelectChunksClosest` are where `BestContextShown`
comes from, `SharesFit` and `CutTextFits` where `TextWithinBudget` does.

*Retrieval.* `RuleRetrievalProofs` holds for any collection, any limits and any
combination of failed searches, from `CollectionsAssumption` (ids are unique;
equal keys mean equally long texts, since a key is a text's first 140 words and
validation asks for 20; cosines are within -1 and 1) and `SettingsAssumption`
(limits are natural numbers).  Each list operator is first given its meaning:
`Merges`, `BestOfEach` and `Presents` for merging, dropping duplicates and
prioritising, `Passes` for the cut and validation, `IsNearest` for a vector
search.  `IInv` then says that what was found is short, distinct and best first
(`FoundInv`), that a list holds each point once and a near one with its cosine
(`HitsInv`), that the last result is what the lists come to and was left empty
only at the widest filter (`SearchInv`), and, while no search has failed, that
the lists are those of the level and a wider level means that the first came out
empty (`LevelInv`).  The two hard ends are `LeftOut` (the points counted against
one left out are found again behind merging, boosting, duplicates, sorting and
cutting) and `EmptyMeansCrowded` (an empty result says of every usable point
that others took the places).

*Chunks.*  `DocumentTextProofs` holds for files of any number of pages and words,
any chunk size and any overlap, from `PagesAssumption` and `WindowAssumption`.
That no word is lost is no invariant of the loop: `CoverInv` says which words of
which page are covered while the window is under way, and that the last chunk
ends the overlap past where the next window begins; `WindowsMeet` is the
arithmetic of two neighbours.  `ChunkInv` adds that an index counts the chunks
of its page, so that page and index name one chunk.

The invariants of these three were checked on the instances of the runs
`evaluation`, `retrieval_search` and `text_chunks` before they were proved, and
`LInv` on that of `deletion`.

| module | theorem | property |
|---|---|---|
| `AuditPipeline` | `TypeCorrect`, `Inductive` | `TypeOK`, `IInv` |
| | `ReportsAlwaysHold` | `ReportsHold` |
| | `ReportsMatchFindings`, `CompletionIsBacked`, `FailedAnalysisUnreported`, `ReportUrisResolve` | its parts |
| | `NoDocumentStranded`, `CleanedAreGone`, `RetrievalFollowsIngestion` | `NoStrandedDocument`, `CleanedMeansGone`, `IngestedBeforeRetrieval` |
| | `StatusNeverMovesBack` | `StatusMovesForward` |
| | `PipelineImplementsLifecycle` | `ImplementsLifecycle` |
| `DocumentDeletion` | `DeletionsAreComplete`, `RefusalsHaveAudits` | `DeletionIsComplete`, `RefusedOnlyForAudits` |
| | `ReportFilesAreKept`, `RowsConsistent` | `ReportsKeepFiles`, `RowsStayConsistent` |
| | `DeletionsAreFinal` | `DeletionIsFinal` |
| | `DeletionsImplementLifecycle` | `ImplementsDeletableLifecycle` |
| | `EveryStepMovesOn` | (no step of a run or a deletion is a loop) |
| `RuleDocuments` | `RowsAreBackedAlways`, `AnswersAlwaysHold`, `IndexingAlwaysHasAReason` | `RowsAreBacked`, `AnswersHold`, `IndexingHasAReason` |
| | `UploadsAreUndisturbed`, `LibraryImplementsRegistry` | `UploadUndisturbed`, `ImplementsRegistry` |
| `ModelLoading` | `ModelLoadedOnce`, `ReadyCallsGetModel` | `LoadedOnce`, `ReadyCallsUseModel` |
| `Registration` | `AdministratorTheorem`, `OneAccountTheorem`, `AnswersTheorem` | `SomeAdministrator`, `OneAccountPerMailbox`, `AnswersHold` |
| `ComplianceAnalysis` | `CallsJudged`, `AnalysesHaveReplies`, `FindingsLink` | `AnswersJudged`, `AnalysisHasReply`, `FindingsLinkShownRules` |
| | `ReportedFailuresBlock`, `Bounded` | `ReportedFailureBlocks`, `EffortBounded` |
| | `BestContext`, `TextBounded` | `BestContextShown`, `TextWithinBudget` |
| `RuleRetrieval` | `RulesDistinctBestFirst`, `PointsLeftOutForBetter`, `SearchWidensForWant` | `DistinctBestFirst`, `LeftOutForBetter`, `WidensOnlyForWant` |
| `DocumentText` | `NoWordIsLost`, `ChunksSound` | `NoWordLost`, `ChunksAreSound` |

*Only model-checked.*  `EveryAuditSettles`, `ExpiredForGood`, `EveryRequestEnds`
and `EveryCallEnds`, because liveness under fairness is outside what the prover
handles: what a theorem says in its place, of deletions and the runs beside them,
is `EveryStepMovesOn`.  Every other property of the passing
runs is a theorem.

## 5. What disagrees with the documents

* One exception of the select or the final commit ends the cleanup task
  (`workers/cleanup.py:20`); `README.md:102` promises the sweep.  Run `retention`.
* A deletion that answers 409 "Document cannot be deleted because dependent audit
  records still exist." (`api/v1/admin.py:582`) has already removed the upload
  and the vectors of the document it leaves (`admin.py:548-560`).  Run
  `deletion_refused`.
* Two registrations that both count no account both become administrators
  (`api/v1/auth.py:110`); `README.md:84` says only the first does.  Run
  `registration_first`.  Nor is a listed address needed: `ADMIN` asked for in the
  request is granted to anybody (`auth.py:115`); `RoleFor` of `Registration` does the
  same, and the run leaves such requests out to show the race alone.
* `docs/qdrant-organization.md:39-53` says to filter always by `source_type`, and
  rules by `domain` too; retrieval gives up the domain and then the type when it
  found nothing (`agents/retrieval_agent.py:75-97`).  Seen in `Wider`; `WidensOnlyForWant`
  says when, not that it should; no run.
* `cleanup_expired_temp_files` deletes no vectors (`workers/cleanup.py:36`);
  `docs/workflow-orchestration.md:62` and `docs/qdrant-organization.md:66` say
  it does.  Seen in `SweepObject`, which leaves `vectors` alone; no run.
* No step of the workflow deletes the upload of a completed audit
  (`workers/audit_workflow.py:444`); `README.md:102` says it is deleted.  Seen in
  `Complete`, which leaves `uploads` alone; no run.
* Deleting a rule document leaves its vectors (`api/v1/admin.py:191`), which
  audits go on retrieving: `RuleRegistry` says so, and no document says otherwise.
* A document deletion answers `deleted` although objects reached only by prefix may
  have stayed, because the answer of `delete_objects` is dropped (`admin.py:756`):
  files of audits that filed no report.  Seen in `DeleteObjects`; no run.

## 6. Not modelled

* Configuration, logging, schemas, file validation, health probes, read-only
  listings, analytics and monitoring: no state whose order of change matters.
* Rule categories: an insert after a look, the race of `Registration` again.
* Start-up (`init_db`, column patching, model preloading) and migrations: once,
  before any request, restarted by an operator.
* Parsing libraries, the langchain splitter, embeddings, BM25 and the
  cross-encoder's scores, tokens and hashes: library code, taken by its results.
* Wording, citation labels, confidence numbers and layout of findings and reports.
* The frontend: a client without state of its own; that it may show the status
  an earlier audit left on the document (`features/audits/status.ts:16`) is
  listed as a hazard.

## 7. Plan

1. Larger deletions: two audits running beside two requests, whose state space is
   beyond a run of minutes; safety is proved for any number, so what the larger
   instance would add is liveness, with waits modelled statement by statement.
2. Rule documents beside an audit: `RuleRegistry` in the place of the fixed rules
   that `Retrieve` of `AuditPipeline` finds.
3. The audit and its retrieval in one specification: what `Retrieve` and
   `Evaluate` of `AuditPipeline` leave open, shown to be implemented by
   `RuleRetrieval` and `ComplianceAnalysis`, as a theorem.
