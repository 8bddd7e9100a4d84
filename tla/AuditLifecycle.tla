--------------------------- MODULE AuditLifecycle ---------------------------
(***************************************************************************)
(* What an audit promises a client that polls it, with no word of threads, *)
(* transactions, documents or stores: it is accepted, worked on and then   *)
(* completed or failed; its report appears once and is never withdrawn or  *)
(* rewritten; it is completed only with a report on file, and the risk it  *)
(* then shows is the risk of that report.                                  *)
(*                                                                         *)
(* Without LateFailure a decided audit is final.  With it a completed one  *)
(* may still turn into a failed one.                                       *)
(***************************************************************************)
CONSTANTS Audits, Risks, None, LateFailure

VARIABLES
  phase,      \* what the status of an audit amounts to
  filed,      \* the risk stated by the report on file, or None
  shown       \* the risk shown with the audit, or None

Init ==
  /\ phase = [a \in Audits |-> "absent"]
  /\ filed = [a \in Audits |-> None]
  /\ shown = [a \in Audits |-> None]

Accept(a) ==
  /\ phase[a] = "absent"
  /\ phase' = [phase EXCEPT ![a] = "accepted"]
  /\ UNCHANGED <<filed, shown>>

Start(a) ==
  /\ phase[a] = "accepted"
  /\ phase' = [phase EXCEPT ![a] = "working"]
  /\ UNCHANGED <<filed, shown>>

File(a) ==
  /\ phase[a] = "working"
  /\ filed[a] = None
  /\ \E risk \in Risks : filed' = [filed EXCEPT ![a] = risk]
  /\ UNCHANGED <<phase, shown>>

Finish(a) ==
  /\ phase[a] = "working"
  /\ filed[a] # None
  /\ phase' = [phase EXCEPT ![a] = "completed"]
  /\ shown' = [shown EXCEPT ![a] = filed[a]]
  /\ UNCHANGED filed

Fail(a) ==
  /\ \/ phase[a] \in {"accepted", "working"}
     \/ LateFailure /\ phase[a] = "completed"
  /\ phase' = [phase EXCEPT ![a] = "failed"]
  /\ UNCHANGED <<filed, shown>>

Next == \E a \in Audits : Accept(a) \/ Start(a) \/ File(a) \/ Finish(a) \/ Fail(a)

Spec == Init /\ [][Next]_<<phase, filed, shown>>
=============================================================================
