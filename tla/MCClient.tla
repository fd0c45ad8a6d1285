------------------------------ MODULE MCClient ------------------------------
(* The client on a trace of two records, one of them without content.      *)
EXTENDS Client

MCTrace == <<2, 0>>
=============================================================================
