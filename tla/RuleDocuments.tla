--------------------------- MODULE RuleDocuments ---------------------------
(***************************************************************************)
(* The rule library: rule documents uploaded and indexed, rules entered by *)
(* hand, and their deletion, over the SQL database, S3 and Qdrant.         *)
(*                                                                         *)
(*   upload    S3 object, row "indexing", parse and embed, vectors, then   *)
(*             the row "indexed" and its compliance_rules row together     *)
(*   by hand   compliance_rules row, then its vector                       *)
(*   delete    S3 object, compliance_rules rows, the document's row        *)
(*                                                                         *)
(* upload_and_index_rule is a coroutine that never awaits once it has the  *)
(* file: it holds the event loop of its process until it returns, and no   *)
(* request of that process is accepted meanwhile.  The other handlers are  *)
(* plain functions on pool threads: once accepted they run beside it.      *)
(*                                                                         *)
(* A step is one commit, one call of a store or one statement another      *)
(* session can notice.  The database is read committed with foreign keys.  *)
(***************************************************************************)
EXTENDS Naturals

CONSTANTS
  RuleDocs,     \* ids of the rule documents
  Manual,       \* ids of the rules entered by hand
  Deletions,    \* requests to delete a rule document
  TargetOf,     \* the document a deletion names
  Processes,    \* server processes on the same stores; the README starts one
  DbMayFail,    \* whether statements and commits may raise
  MaxCrashes    \* bound: how often a process dies and is restarted

Jobs == RuleDocs \cup Manual \cup Deletions

ASSUME TargetOfAssumption == TargetOf \in [Deletions -> RuleDocs]
ASSUME JobsAssumption ==
  RuleDocs \cap Manual = {} /\ RuleDocs \cap Deletions = {} /\ Manual \cap Deletions = {}
ASSUME DbMayFailAssumption == DbMayFail \in BOOLEAN
ASSUME MaxCrashesAssumption == MaxCrashes \in Nat

Free == "free"            \* the event loop is free
NoHost == "nowhere"       \* a job no process has taken yet
ASSUME NamesAssumption == Free \notin RuleDocs /\ NoHost \notin Processes

DocStatuses == {"absent", "indexing", "indexed", "failed"}

UploadSteps == {"insert", "parse", "index", "mark_failed", "register", "reload"}
ManualSteps == {"insert_manual", "index_manual"}
DeletionSteps == {"lookup", "delete_object", "delete_rules", "delete_row"}

\* How a job ends: its answer; an exception nothing turned into an answer of
\* the handler's own; the process died.
Answers == {"ok", "refused", "unreadable", "unindexed", "not_found", "deleted"}
Ends == Answers \cup {"broken", "lost"}
Steps == {"new"} \cup UploadSteps \cup ManualSteps \cup DeletionSteps \cup Ends

VARIABLES
  status,     \* rule_documents.status, "absent" while there is no row
  listed,     \* what has a compliance_rules row
  objects,    \* documents whose object is stored
  vectors,    \* what has points in the rule collection
  step,       \* per job: the step its handler takes next, or how it ended
  host,       \* per job: the process that runs its handler
  loop,       \* per process: the upload that holds the event loop
  hit,        \* deletions whose open transaction deleted the rules row
  crashes

rows == <<status, listed>>
stores == <<objects, vectors>>
vars == <<rows, stores, step, host, loop, hit, crashes>>

TypeOK ==
  /\ status \in [RuleDocs -> DocStatuses]
  /\ listed \in SUBSET (RuleDocs \cup Manual)
  /\ objects \in SUBSET RuleDocs
  /\ vectors \in SUBSET (RuleDocs \cup Manual)
  /\ step \in [Jobs -> Steps]
  /\ host \in [Jobs -> Processes \cup {NoHost}]
  /\ loop \in [Processes -> RuleDocs \cup {Free}]
  /\ hit \in SUBSET Deletions
  /\ crashes \in 0..MaxCrashes

Init ==
  /\ status = [r \in RuleDocs |-> "absent"]
  /\ listed = {}
  /\ objects = {}
  /\ vectors = {}
  /\ step = [j \in Jobs |-> "new"]
  /\ host = [j \in Jobs |-> NoHost]
  /\ loop = [p \in Processes |-> Free]
  /\ hit = {}
  /\ crashes = 0

Goto(j, s) == step' = [step EXCEPT ![j] = s]
Has(r) == status[r] # "absent"

\* Mutant of Accept: upload_rule a plain function on a pool thread.
AcceptAnyTime(j, p) == step[j] = "new" /\ host' = [host EXCEPT ![j] = p]

\* A process accepts a request when its event loop is free.
Accept(j, p) ==
  /\ step[j] = "new"
  /\ loop[p] = Free
  /\ host' = [host EXCEPT ![j] = p]

\* A handler that holds the event loop goes on, or returns and frees it.
Continue(r, s) == Goto(r, s) /\ UNCHANGED loop
Return(r, s) == Goto(r, s) /\ loop' = [loop EXCEPT ![host[r]] = Free]

\* Assigning to a row that is gone matches nothing, and the session raises.
DbRaises(r) == DbMayFail \/ ~Has(r)
-----------------------------------------------------------------------------
(***************************************************************************)
(* Mutants: plausible bugs in the code below, each put in the place of the *)
(* definition it distorts to see that a property notices.  No action uses  *)
(* them.                                                                   *)
(***************************************************************************)
\* Index, calling a document indexed whose vectors were refused.
IndexOrNot(r) ==
  /\ step[r] = "index"
  /\ \/ vectors' = vectors \cup {r}
     \/ UNCHANGED vectors
  /\ Continue(r, "register")
  /\ UNCHANGED <<rows, objects, host, hit, crashes>>

\* MarkFailed, leaving the row as it is.
RefuseOnly(r) ==
  /\ step[r] = "mark_failed"
  /\ Return(r, "unindexed")
  /\ UNCHANGED <<rows, stores, host, hit, crashes>>

\* Register, writing the row anew when it is gone.
RegisterAnyway(r) ==
  /\ step[r] = "register"
  /\ status' = [status EXCEPT ![r] = "indexed"]
  /\ listed' = listed \cup {r}
  /\ Continue(r, "reload")
  /\ UNCHANGED <<stores, host, hit, crashes>>

\* Register, waiting for a row that is gone.
RegisterOrWait(r) ==
  /\ step[r] = "register"
  /\ Has(r)
  /\ status' = [status EXCEPT ![r] = "indexed"]
  /\ listed' = listed \cup {r}
  /\ Continue(r, "reload")
  /\ UNCHANGED <<stores, host, hit, crashes>>

\* DeleteRow, with no foreign key to stop it.
DeleteRowAlone(k) ==
  LET r == TargetOf[k] IN
  /\ step[k] = "delete_row"
  /\ hit' = hit \ {k}
  /\ Goto(k, "deleted")
  /\ status' = [status EXCEPT ![r] = "absent"]
  /\ listed' = IF k \in hit THEN listed \ {r} ELSE listed
  /\ UNCHANGED <<stores, host, loop, crashes>>

-----------------------------------------------------------------------------
(***************************************************************************)
(* Uploading a document.  The store may refuse the object, and may have    *)
(* kept it all the same; nothing else has happened then.                   *)
(***************************************************************************)
BeginUpload(r, p) ==
  /\ Accept(r, p)
  /\ \/ /\ objects' = objects \cup {r}
        /\ Goto(r, "insert")
        /\ loop' = [loop EXCEPT ![p] = r]
     \/ /\ objects' \in {objects, objects \cup {r}}
        /\ Goto(r, "refused")
        /\ UNCHANGED loop
  /\ UNCHANGED <<rows, vectors, hit, crashes>>

\* The row is inserted and read back.  A failed insert leaves the object
\* without a row; a failed read leaves the row "indexing" for good.
InsertRow(r) ==
  /\ step[r] = "insert"
  /\ \/ status' = [status EXCEPT ![r] = "indexing"] /\ Continue(r, "parse")
     \/ /\ DbMayFail
        /\ status' \in {status, [status EXCEPT ![r] = "indexing"]}
        /\ Return(r, "refused")
  /\ UNCHANGED <<listed, stores, host, hit, crashes>>

\* Parsing, chunking and embedding, with no handler around them; and the
\* commit for a document without text, which raises when the row is gone.
Parse(r) ==
  /\ step[r] = "parse"
  /\ \/ Continue(r, "index") /\ UNCHANGED status
     \/ Return(r, "broken") /\ UNCHANGED status
     \/ /\ Has(r)
        /\ status' = [status EXCEPT ![r] = "failed"]
        /\ Return(r, "unreadable")
  /\ UNCHANGED <<listed, stores, host, hit, crashes>>

\* One upsert of all points of x.  It is tried three times; one that raises
\* in the end may have been applied.
Upsert(x) == vectors' = vectors \cup {x}
UpsertRaises(x) == UNCHANGED vectors \/ Upsert(x)

Index(r) ==
  /\ step[r] = "index"
  /\ \/ Upsert(r) /\ Continue(r, "register")
     \/ UpsertRaises(r) /\ Continue(r, "mark_failed")
  /\ UNCHANGED <<rows, objects, host, hit, crashes>>

MarkFailed(r) ==
  /\ step[r] = "mark_failed"
  /\ \/ /\ Has(r)
        /\ status' = [status EXCEPT ![r] = "failed"]
        /\ Return(r, "unindexed")
     \/ DbRaises(r) /\ Return(r, "broken") /\ UNCHANGED status
  /\ UNCHANGED <<listed, stores, host, hit, crashes>>

\* The row and its compliance_rules row in one commit.  A commit that raises
\* has no handler: the row stays "indexing".
Register(r) ==
  /\ step[r] = "register"
  /\ \/ /\ Has(r)
        /\ status' = [status EXCEPT ![r] = "indexed"]
        /\ listed' = listed \cup {r}
        /\ Continue(r, "reload")
     \/ DbRaises(r) /\ Return(r, "broken") /\ UNCHANGED rows
  /\ UNCHANGED <<stores, host, hit, crashes>>

\* db.refresh, then the audit log, whose failure nobody sees.
Reload(r) ==
  /\ step[r] = "reload"
  /\ \/ Has(r) /\ Return(r, "ok")
     \/ DbRaises(r) /\ Return(r, "broken")
  /\ UNCHANGED <<rows, stores, host, hit, crashes>>
-----------------------------------------------------------------------------
(***************************************************************************)
(* A rule entered by hand: committed first, then embedded and indexed with *)
(* no handler around it.                                                   *)
(***************************************************************************)
BeginManual(m, p) ==
  /\ Accept(m, p)
  /\ Goto(m, "insert_manual")
  /\ UNCHANGED <<rows, stores, loop, hit, crashes>>

InsertManual(m) ==
  /\ step[m] = "insert_manual"
  /\ \/ listed' = listed \cup {m} /\ Goto(m, "index_manual")
     \/ DbMayFail /\ listed' \in {listed, listed \cup {m}} /\ Goto(m, "broken")
  /\ UNCHANGED <<status, stores, host, loop, hit, crashes>>

IndexManual(m) ==
  /\ step[m] = "index_manual"
  /\ \/ Upsert(m) /\ Goto(m, "ok")
     \/ UpsertRaises(m) /\ Goto(m, "broken")
  /\ UNCHANGED <<rows, objects, host, loop, hit, crashes>>
-----------------------------------------------------------------------------
(***************************************************************************)
(* Deleting a rule document.  The client has the id from a listing, so the *)
(* row has been committed.                                                 *)
(***************************************************************************)
BeginDeletion(k, p) ==
  /\ Accept(k, p)
  /\ Has(TargetOf[k])
  /\ Goto(k, "lookup")
  /\ UNCHANGED <<rows, stores, loop, hit, crashes>>

Lookup(k) ==
  /\ step[k] = "lookup"
  /\ \/ Has(TargetOf[k]) /\ Goto(k, "delete_object")
     \/ ~Has(TargetOf[k]) /\ Goto(k, "not_found")
     \/ DbMayFail /\ Goto(k, "refused")
  /\ UNCHANGED <<rows, stores, host, loop, hit, crashes>>

DeleteObject(k) ==
  /\ step[k] = "delete_object"
  /\ \/ objects' = objects \ {TargetOf[k]} /\ Goto(k, "delete_rules")
     \/ objects' \in {objects, objects \ {TargetOf[k]}} /\ Goto(k, "broken")
  /\ UNCHANGED <<rows, vectors, host, loop, hit, crashes>>

\* Another deletion has deleted the rules row of r and not committed.
RuleRowLocked(r) == \E k \in hit : TargetOf[k] = r

\* DELETE FROM compliance_rules: waits for the row's lock, takes what is
\* committed, and keeps the lock until the transaction ends.
DeleteRules(k) ==
  /\ step[k] = "delete_rules"
  /\ ~RuleRowLocked(TargetOf[k])
  /\ \/ /\ hit' = IF TargetOf[k] \in listed THEN hit \cup {k} ELSE hit
        /\ Goto(k, "delete_row")
     \/ DbMayFail /\ Goto(k, "broken") /\ UNCHANGED hit
  /\ UNCHANGED <<rows, stores, host, loop, crashes>>

\* A compliance_rules row this transaction did not delete refers to the row.
StillReferenced(k) == TargetOf[k] \in listed /\ k \notin hit

\* Two deletions of one document, one holding its rules row and the other its
\* own row for the foreign key's check: the database aborts either.
Deadlocked(k) ==
  /\ RuleRowLocked(TargetOf[k])
  /\ \E other \in Deletions \ {k} :
       TargetOf[other] = TargetOf[k] /\ step[other] = "delete_row"

\* The row's delete, sent with the commit.  No row to delete is no error; a
\* row still referenced is, and rolls everything back but the object.
DeleteRow(k) ==
  LET r == TargetOf[k] IN
  /\ step[k] = "delete_row"
  /\ hit' = hit \ {k}
  /\ \/ /\ ~StillReferenced(k)
        /\ ~RuleRowLocked(r) \/ k \in hit
        /\ status' = [status EXCEPT ![r] = "absent"]
        /\ listed' = listed \ {r}
        /\ Goto(k, "deleted")
     \/ /\ \/ DbMayFail \/ Deadlocked(k)
           \/ StillReferenced(k) /\ ~RuleRowLocked(r)
        /\ Goto(k, "broken")
        /\ UNCHANGED rows
  /\ UNCHANGED <<stores, host, loop, crashes>>
-----------------------------------------------------------------------------
\* A process dies and is started again: its open transactions are rolled
\* back and nothing resumes its jobs.
Crash(p) ==
  LET dead == {j \in Jobs : host[j] = p /\ step[j] \notin Ends} IN
  /\ crashes < MaxCrashes
  /\ crashes' = crashes + 1
  /\ step' = [j \in Jobs |-> IF j \in dead THEN "lost" ELSE step[j]]
  /\ loop' = [loop EXCEPT ![p] = Free]
  /\ hit' = hit \ dead
  /\ UNCHANGED <<rows, stores, host>>

UploadStep(r) ==
  \/ InsertRow(r) \/ Parse(r) \/ Index(r) \/ MarkFailed(r)
  \/ Register(r) \/ Reload(r)

ManualStep(m) == InsertManual(m) \/ IndexManual(m)

DeletionStep(k) == Lookup(k) \/ DeleteObject(k) \/ DeleteRules(k) \/ DeleteRow(k)

Next ==
  \/ \E p \in Processes :
       \/ \E r \in RuleDocs : BeginUpload(r, p)
       \/ \E m \in Manual : BeginManual(m, p)
       \/ \E k \in Deletions : BeginDeletion(k, p)
       \/ Crash(p)
  \/ \E r \in RuleDocs : UploadStep(r)
  \/ \E m \in Manual : ManualStep(m)
  \/ \E k \in Deletions : DeletionStep(k)

Spec == Init /\ [][Next]_vars

\* The event loop and the pool threads run what they have begun.
Fairness ==
  /\ \A r \in RuleDocs : WF_vars(UploadStep(r))
  /\ \A m \in Manual : WF_vars(ManualStep(m))
  /\ \A k \in Deletions : WF_vars(DeletionStep(k))

FairSpec == Spec /\ Fairness
-----------------------------------------------------------------------------
(***************************************************************************)
(* A rule is listed for a document exactly while the document is           *)
(* "indexed", and audits can retrieve it then: upload_and_index_rule       *)
(* commits the two rows together and after the vectors, and a deletion     *)
(* that meets a row committed behind its back rolls back.  The row of a    *)
(* document has its object, unless a deletion of it has been begun: one    *)
(* that fails after the object is gone keeps the row (admin.py:191).       *)
(***************************************************************************)
ListedIsIndexed(r) ==
  /\ r \in listed <=> status[r] = "indexed"
  /\ r \in listed => r \in vectors

ObjectTaken(r) ==
  \E k \in Deletions :
    /\ TargetOf[k] = r
    /\ step[k] \in {"delete_rules", "delete_row", "broken", "deleted", "lost"}

RowsAreBacked ==
  /\ TypeOK
  /\ \A r \in RuleDocs : ListedIsIndexed(r)
  /\ \A r \in RuleDocs : Has(r) => r \in objects \/ ObjectTaken(r)

(***************************************************************************)
(* Nobody takes the row away from an upload that is under way, as long as  *)
(* no other process has been asked to: the id is not known before the row  *)
(* is committed, and the process of the upload accepts no deletion until   *)
(* the upload has given up its event loop.                                 *)
(***************************************************************************)
OneProcessFor(r) ==
  \A k \in Deletions : TargetOf[k] = r => host[k] \in {NoHost, host[r]}

UploadUndisturbed ==
  \A r \in RuleDocs : OneProcessFor(r) =>
    /\ step[r] \in {"parse", "index", "mark_failed", "register"} => status[r] = "indexing"
    /\ step[r] = "reload" => status[r] = "indexed"

(***************************************************************************)
(* What a caller was told holds: a document answered for as indexed is     *)
(* retrievable, one answered for as unreadable or not indexed is not       *)
(* listed and no longer "indexing", and a rule entered by hand is listed   *)
(* and retrievable once the request has succeeded.  A document said to be  *)
(* deleted has no row, no listed rule and no object, whatever other        *)
(* deletions or the upload of it do meanwhile or later.                    *)
(***************************************************************************)
AnswersHold ==
  /\ \A r \in RuleDocs :
       /\ step[r] = "ok" => r \in vectors
       /\ step[r] \in {"unreadable", "unindexed"} =>
            r \notin listed /\ status[r] \in {"failed", "absent"}
  /\ \A m \in Manual : step[m] = "ok" => m \in listed /\ m \in vectors
  /\ \A k \in Deletions : step[k] = "deleted" =>
       /\ ~Has(TargetOf[k])
       /\ TargetOf[k] \notin listed \cup objects

(***************************************************************************)
(* A document that shows "indexing" is being indexed, or its upload was    *)
(* cut off where rule_service has no handler: at the parser or the         *)
(* embedding model, at a commit, or by the end of the process.             *)
(***************************************************************************)
IndexingHasAReason ==
  \A r \in RuleDocs :
    status[r] = "indexing" =>
      \/ step[r] \in UploadSteps \ {"insert", "reload"}
      \/ step[r] \in {"broken", "lost"}
      \/ DbMayFail /\ step[r] = "refused"

(***************************************************************************)
(* The library implements the registry of RuleRegistry: pending, published *)
(* with vectors only, withdrawn for good.                                  *)
(***************************************************************************)
Withdrawn(r) == \E k \in Deletions : TargetOf[k] = r /\ step[k] = "deleted"

Phase(r) ==
  CASE status[r] = "indexing" -> "pending"
    [] status[r] = "indexed" -> "published"
    [] status[r] = "failed" -> "rejected"
    [] status[r] = "absent" /\ Withdrawn(r) -> "withdrawn"
    [] OTHER -> "unknown"

Phases == [r \in RuleDocs |-> Phase(r)]
Findable == vectors \cap RuleDocs

Registry == INSTANCE RuleRegistry WITH
  Rules <- RuleDocs, phase <- Phases, findable <- Findable

ImplementsRegistry == Registry!Spec

(***************************************************************************)
(* A request that was accepted is answered or cut off, and an event loop   *)
(* given to an upload is free again: neither a lost row, nor deletions of  *)
(* one document waiting for each other's rows, hold it for ever.           *)
(***************************************************************************)
EveryRequestEnds ==
  /\ \A j \in Jobs : step[j] # "new" ~> step[j] \in Ends
  /\ \A p \in Processes : loop[p] # Free ~> loop[p] = Free
=============================================================================
