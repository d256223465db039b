-------------------------- MODULE MCWatchPipeline --------------------------
(* The watch modules for one or two watches with different ranges. *)
EXTENDS WatchPipeline

CONSTANTS w1, w2

(* The first watch is for the key of all revisions but one, the second for the even ones. *)
MCInRange ==
  [w \in Watches |-> IF w = w1 THEN (1 .. MaxRev) \ {3} ELSE {r \in 1 .. MaxRev : r % 2 = 0}]
=============================================================================
