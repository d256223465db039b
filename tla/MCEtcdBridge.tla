---------------------------- MODULE MCEtcdBridge ----------------------------
(* The bridge for a few clients, which are alike. *)
EXTENDS EtcdBridge

MCSymmetry == Permutations(Clients)
=============================================================================
