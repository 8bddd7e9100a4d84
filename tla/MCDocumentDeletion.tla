------------------------- MODULE MCDocumentDeletion -------------------------
(* Instances of DocumentDeletion for TLC. *)
EXTENDS DocumentDeletion, FiniteSets, TLC

CONSTANTS d1, a1, a2, r1, r2

TwoAudits == (a1 :> d1 @@ a2 :> d1)
OneAudit == (a1 :> d1)

\* An analysis that is made finds something; one without rules finds nothing.
Something == {{"HIGH"}}

Created == {a \in Audits : pc[a] # "none"}

Begun == {r \in Requests : deletion[r].at # "none"}

\* Bound: of audits, deletions, expired uploads and crashes, three in all; the
\* second audit is made when the first has completed, with both of its files, or
\* beside it, and then both are followed to their chunk rows while a deletion runs;
\* and where audits and deletions make three, a run is not followed on after a
\* deletion has raised.
Happenings == Cardinality(Created) + Cardinality(Begun) + Cardinality(elapsed) + crashes

Over(a) ==
  /\ pc[a] = "finished"
  /\ auditStatus[a] = "absent" \/ (auditStatus[a] = "completed" /\ report[a].json)

Ingesting == {"scheduled", "extract", "read", "mark_chunking", "chunk", "index",
              "clear_chunks", "store_chunks", "mark_retrieving"}

Together ==
  /\ \A a \in Audits : pc[a] \in Ingesting
  /\ Begun # {} /\ \A r \in Begun : deletion[r].at \in Deleting

FewThings ==
  /\ Happenings <= 3
  /\ Cardinality(Created) = 2 => (\E a \in Audits : Over(a)) \/ Together
  /\ Cardinality(Begun) + Cardinality(Created) = 3 /\ (\E a \in Audits : UnderWay(a)) =>
       \A r \in Begun : deletion[r].at # "raised"

Symmetry == {p @@ q : p \in Permutations(Audits), q \in Permutations(Requests)}
=============================================================================
