-------------------------- MODULE MCRuleDocuments --------------------------
(* Instances of RuleDocuments for TLC. *)
EXTENDS RuleDocuments, TLC

CONSTANTS r1, m1, k1, k2, p1, p2

\* Two administrators delete one document.
SameDocument == (k1 :> r1 @@ k2 :> r1)
=============================================================================
