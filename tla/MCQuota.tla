------------------------------ MODULE MCQuota ------------------------------
(* Quota for two requests at a time. *)
EXTENDS Quota, TLC

MCSymmetry == Permutations(Writers)
=============================================================================
