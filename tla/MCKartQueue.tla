---------------------------- MODULE MCKartQueue ----------------------------
(* The instance of KartQueue that TLC checks. *)
EXTENDS KartQueue

StampsMC == 1..2
=============================================================================
