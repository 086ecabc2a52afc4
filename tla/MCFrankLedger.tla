--------------------------- MODULE MCFrankLedger ---------------------------
(* Instance of FrankLedger: two connections that append, read and linger.  *)
EXTENDS FrankLedger
=============================================================================
