---------------------------- MODULE MCSQLPoll ----------------------------
(* Small instances of SQLPoll. *)
EXTENDS SQLPoll, TLC

CONSTANTS n1, n2, w1, w2, w3

(* Two writers on the first node, any other one on the second. *)
MCHome == [w \in Writers |-> IF w \in {w1, w2} THEN n1 ELSE n2]

(* The writers of one node are interchangeable. *)
Symmetry == Permutations({w1, w2})
=============================================================================
