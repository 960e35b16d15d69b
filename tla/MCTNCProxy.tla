----------------------------- MODULE MCTNCProxy -----------------------------
(***************************************************************************)
(* The port, which may reconnect once, one more program, and a TNC that    *)
(* may be lost once.                                                       *)
(***************************************************************************)
EXTENDS TNCProxy
=============================================================================
