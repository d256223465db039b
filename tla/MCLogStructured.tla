-------------------------- MODULE MCLogStructured --------------------------
(* LogStructured on small sets of keys, clients and nodes. *)
EXTENDS LogStructured, TLC

(* Keys and clients are interchangeable. *)
Symmetry == Permutations(Keys) \cup Permutations(Clients)
=============================================================================
