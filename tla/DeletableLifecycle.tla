------------------------- MODULE DeletableLifecycle -------------------------
(***************************************************************************)
(* What AuditLifecycle promises, where documents are deleted: audits go    *)
(* together, at any stage, and with an audit go its report and its risk.   *)
(* An audit that is gone never comes back, and no report of it is filed.   *)
(***************************************************************************)
EXTENDS AuditLifecycle

Remove(gone) ==
  /\ gone # {}
  /\ \A a \in gone : phase[a] \notin {"absent", "gone"}
  /\ phase' = [a \in Audits |-> IF a \in gone THEN "gone" ELSE phase[a]]
  /\ filed' = [a \in Audits |-> IF a \in gone THEN None ELSE filed[a]]
  /\ shown' = [a \in Audits |-> IF a \in gone THEN None ELSE shown[a]]

DeletableNext == Next \/ \E gone \in SUBSET Audits : Remove(gone)

DeletableSpec == Init /\ [][DeletableNext]_<<phase, filed, shown>>
=============================================================================
