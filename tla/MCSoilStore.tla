---------------------------- MODULE MCSoilStore ----------------------------
(* The instance of SoilStore that TLC checks: every thread in one process. *)
EXTENDS SoilStore

OneProc == [t \in Threads |-> "server"]
=============================================================================
