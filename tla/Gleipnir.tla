------------------------------ MODULE Gleipnir ------------------------------
(***************************************************************************)
(* The rate limiter of core/gleipnir.py: for every application a list of   *)
(* the times of its calls, pruned to the window and counted at each call.  *)
(* Denied calls are listed too.                                            *)
(*                                                                         *)
(* calls is a history the code does not keep: every call and its verdict.  *)
(***************************************************************************)
EXTENDS Limits, Sequences

CONSTANTS Apps

Times    == 0..MaxTime
Verdicts == {"ok", "warn", "deny"}

VARIABLES now,   \* time.time()
          log,   \* Gleipnir._log
          calls

vars == <<now, log, calls>>

TypeOK ==
    /\ now   \in Times
    /\ log   \in [Apps -> Seq(Times)]
    /\ calls \in [Apps -> Seq([at : Times, verdict : Verdicts])]

Init ==
    /\ now \in Times
    /\ log   = [a \in Apps |-> <<>>]
    /\ calls = [a \in Apps |-> <<>>]

\* The times of the last n entries, which are those inside the window: times
\* are appended as they pass, so what _recent keeps is a suffix.
Recent(a, recent) ==
    \E n \in 0..Len(log[a]) :
        /\ \A i \in 1..n : now - log[a][i] >= Window
        /\ \A i \in (n + 1)..Len(log[a]) : now - log[a][i] < Window
        /\ recent = SubSeq(log[a], n + 1, Len(log[a]))

Verdict(count) ==
    IF count > HardLimit THEN "deny" ELSE IF count > SoftLimit THEN "warn" ELSE "ok"

\* Faulty: a denied call is not listed.
CheckForgetsDenied(a, verdict) ==
    /\ Len(calls[a]) < MaxCalls
    /\ \E recent \in {SubSeq(log[a], n, Len(log[a])) : n \in 1..(Len(log[a]) + 1)} :
        /\ Recent(a, recent)
        /\ verdict = Verdict(Len(recent) + 1)
        /\ log' = [log EXCEPT ![a] = IF verdict = "deny" THEN recent ELSE Append(recent, now)]
    /\ calls' = [calls EXCEPT ![a] = Append(@, [at |-> now, verdict |-> verdict])]
    /\ UNCHANGED now

Check(a, verdict) ==
    /\ Len(calls[a]) < MaxCalls
    /\ \E recent \in {SubSeq(log[a], n, Len(log[a])) : n \in 1..(Len(log[a]) + 1)} :
        /\ Recent(a, recent)
        /\ verdict = Verdict(Len(recent) + 1)
        /\ log' = [log EXCEPT ![a] = Append(recent, now)]
    /\ calls' = [calls EXCEPT ![a] = Append(@, [at |-> now, verdict |-> verdict])]
    /\ UNCHANGED now

\* stats prunes as well.
Stats(a) ==
    /\ \E recent \in {SubSeq(log[a], n, Len(log[a])) : n \in 1..(Len(log[a]) + 1)} :
        /\ Recent(a, recent)
        /\ log' = [log EXCEPT ![a] = recent]
    /\ UNCHANGED <<now, calls>>

Tick ==
    /\ now' \in {t \in Times : t > now}
    /\ UNCHANGED <<log, calls>>

Next ==
    \/ \E a \in Apps, v \in Verdicts : Check(a, v)
    \/ \E a \in Apps : Stats(a)
    \/ Tick

Spec == Init /\ [][Next]_vars

-----------------------------------------------------------------------------
(***************************************************************************)
(* The pruned list decides as the whole history would: a call is denied    *)
(* exactly when HardLimit calls, denied ones among them, came before it    *)
(* inside the window.  So no window has more than HardLimit calls that     *)
(* were let through, and an application whose calls stay under the limit   *)
(* is never denied one (gleipnir.py: check, _recent).                      *)
(***************************************************************************)
Sliding ==
    \A a \in Apps : \A i \in 1..Len(calls[a]) :
        calls[a][i].verdict = "deny"
            <=> /\ i > HardLimit
                /\ calls[a][i].at - calls[a][i - HardLimit].at < Window

(***************************************************************************)
(* Where the two limits differ, no application goes from silence to a      *)
(* denial: the call before a denied one was warned, or denied itself       *)
(* (gleipnir.py:7, "Soft warnings before hard stops").                     *)
(***************************************************************************)
SoftFirst ==
    SoftLimit < HardLimit =>
        \A a \in Apps : \A i \in 1..Len(calls[a]) :
            calls[a][i].verdict = "deny"
                => i > 1 /\ calls[a][i - 1].verdict \in {"warn", "deny"}
=============================================================================
