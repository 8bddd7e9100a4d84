---------------------------- MODULE MCModelLoading ----------------------------
(* Instances of ModelLoading for TLC. *)
EXTENDS ModelLoading, TLC

CONSTANTS t1, t2, t3
=============================================================================
