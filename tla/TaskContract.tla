---------------------------- MODULE TaskContract ----------------------------
(***************************************************************************)
(* What the task queue promises to whoever submits a task, with workers,   *)
(* locks, connections and crashes left out: a task is taken off the queue  *)
(* once, its commands are begun at most once, and the only thing ever      *)
(* reported about it is the verdict of that one execution.                 *)
(***************************************************************************)
CONSTANT Tasks

VARIABLES stage,     \* where each task is in its life
          verdict,   \* what its execution came to
          report     \* what the queue says of it

vars == <<stage, verdict, report>>

Stages   == {"absent", "queued", "taken", "begun", "ended", "reported"}
Verdicts == {"none", "ok", "fail"}

Init ==
    /\ stage   = [t \in Tasks |-> "absent"]
    /\ verdict = [t \in Tasks |-> "none"]
    /\ report  = [t \in Tasks |-> "none"]

Move(t, from, to) ==
    /\ stage[t] = from
    /\ stage' = [stage EXCEPT ![t] = to]

Submit(t) == Move(t, "absent", "queued") /\ UNCHANGED <<verdict, report>>
Take(t)   == Move(t, "queued", "taken")  /\ UNCHANGED <<verdict, report>>
Begin(t)  == Move(t, "taken", "begun")   /\ UNCHANGED <<verdict, report>>

End(t) ==
    /\ Move(t, "begun", "ended")
    /\ \E v \in {"ok", "fail"} : verdict' = [verdict EXCEPT ![t] = v]
    /\ UNCHANGED report

Report(t) ==
    /\ Move(t, "ended", "reported")
    /\ report' = [report EXCEPT ![t] = verdict[t]]
    /\ UNCHANGED verdict

Next == \E t \in Tasks : Submit(t) \/ Take(t) \/ Begin(t) \/ End(t) \/ Report(t)

Spec == Init /\ [][Next]_vars
=============================================================================
