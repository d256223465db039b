-------------------------- MODULE MCWatchProgress --------------------------
(* The watch modules for one or two watches with different ranges. *)
EXTENDS WatchProgress

CONSTANTS w1, w2

(* The first watch is for every key, the second for the key of the even revisions. *)
MCInRange == [w \in Watches |-> IF w = w1 THEN 1 .. MaxRev ELSE {r \in 1 .. MaxRev : r % 2 = 0}]
=============================================================================
