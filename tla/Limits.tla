------------------------------- MODULE Limits -------------------------------
(* The parameters of the rate limiter (core/gleipnir.py:16), shared by      *)
(* Gleipnir and by the gate that drives an instance of it.                  *)
EXTENDS Integers

CONSTANTS SoftLimit, HardLimit, Window,
          MaxTime,   \* bound: the clock
          MaxCalls   \* bound: the calls of an application

ASSUME GleipnirAssumption ==
    /\ SoftLimit \in Nat
    /\ HardLimit \in Nat
    /\ SoftLimit <= HardLimit
    /\ Window \in Nat \ {0}
    /\ MaxTime \in Nat
    /\ MaxCalls \in Nat
=============================================================================
