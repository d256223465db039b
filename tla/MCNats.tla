------------------------------- MODULE MCNats -------------------------------
(* The instance of Nats for TLC: its constants have their values in Nats.cfg. *)
EXTENDS Nats
=============================================================================
