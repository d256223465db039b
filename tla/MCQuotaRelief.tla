--------------------------- MODULE MCQuotaRelief ---------------------------
(* QuotaRelief for one key of a client and the health key. *)
EXTENDS QuotaRelief

=============================================================================
