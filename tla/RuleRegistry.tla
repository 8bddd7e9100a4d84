---------------------------- MODULE RuleRegistry ----------------------------
(***************************************************************************)
(* What the administrators are promised of an uploaded rule document: it   *)
(* is pending until it is published or rejected, it is published only when *)
(* audits can find it, it leaves the registry once and never comes back,   *)
(* and what audits can find is never taken from them.                      *)
(***************************************************************************)
CONSTANTS Rules

VARIABLES
  phase,      \* where a rule document stands
  findable    \* the documents whose chunks an audit can retrieve

Init ==
  /\ phase = [r \in Rules |-> "unknown"]
  /\ findable = {}

Submit(r) ==
  /\ phase[r] = "unknown"
  /\ phase' = [phase EXCEPT ![r] = "pending"]
  /\ UNCHANGED findable

\* Indexing outlives the entry when the document is withdrawn meanwhile.
Index(r) ==
  /\ phase[r] # "unknown"
  /\ findable' = findable \cup {r}
  /\ UNCHANGED phase

Publish(r) ==
  /\ phase[r] = "pending"
  /\ r \in findable
  /\ phase' = [phase EXCEPT ![r] = "published"]
  /\ UNCHANGED findable

Reject(r) ==
  /\ phase[r] = "pending"
  /\ phase' = [phase EXCEPT ![r] = "rejected"]
  /\ UNCHANGED findable

Withdraw(r) ==
  /\ phase[r] \in {"pending", "published", "rejected"}
  /\ phase' = [phase EXCEPT ![r] = "withdrawn"]
  /\ UNCHANGED findable

Next == \E r \in Rules :
          Submit(r) \/ Index(r) \/ Publish(r) \/ Reject(r) \/ Withdraw(r)

Spec == Init /\ [][Next]_<<phase, findable>>
=============================================================================
