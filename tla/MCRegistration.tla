--------------------------- MODULE MCRegistration ---------------------------
(* Instances of Registration for TLC. *)
EXTENDS Registration, TLC

CONSTANTS r1, r2, r3, ann, bob

Symmetry == Permutations(Requests)
=============================================================================
