-------------------------- MODULE MCAuditPipeline --------------------------
(* Instances of AuditPipeline for TLC. *)
EXTENDS AuditPipeline, FiniteSets, TLC

CONSTANTS d1, d2, a1, a2

\* Two audits of one document: they share its row, its chunks and its object.
SharedDocument == (a1 :> d1 @@ a2 :> d1)

\* One audit; other documents stand beside its own in the sweep.
OneAudit == (a1 :> d1)

\* Analyses that find nothing; that find nothing or findings whose risk is
\* decided by the order of the levels; and every set of risk levels.
NoFindings == {{}}
TwoOutcomes == {{}, {"MEDIUM", "HIGH"}}
AllOutcomes == SUBSET Risks

\* Bound: two audits of one document; or one audit with any findings, two
\* documents and a crash; or with one document and two crashes.
Crowd ==
  3 * Cardinality({a \in Audits : pc[a] # "none"})
  + Cardinality({a \in Audits : run[a].analysis.drafts \cup findings[a] # {}})
  + Cardinality({d \in Docs : uploading[d] # "new"})
  + crashes
SmallCrowd == Crowd <= 7

AuditSymmetry == Permutations(Audits)
=============================================================================
