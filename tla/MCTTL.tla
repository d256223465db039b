------------------------------- MODULE MCTTL -------------------------------
(* TTL on the memory backend, for a few keys. *)
EXTENDS TTL

=============================================================================
