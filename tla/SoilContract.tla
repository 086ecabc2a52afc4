---------------------------- MODULE SoilContract ----------------------------
(***************************************************************************)
(* What a SOIL collection promises: a map of records written one operation *)
(* at a time, an update merging into what is there, and a log with one     *)
(* entry per write, in the order the writes took effect.  Housekeeping may *)
(* lose a record, and logs nothing.                                        *)
(***************************************************************************)
EXTENDS Sequences

CONSTANTS Ids,     \* record ids
          Data,    \* what a record may hold
          Absent,  \* no such record, or a deleted one
          Merge(_, _)

VARIABLES content, log

vars == <<content, log>>

Init ==
    /\ content = [i \in Ids |-> Absent]
    /\ log = <<>>

Write(i, d, op) ==
    /\ content' = [content EXCEPT ![i] = d]
    /\ log' = Append(log, [id |-> i, op |-> op])

Put(i, d) == Write(i, d, "create")

Update(i, d) ==
    Write(i, IF content[i] = Absent THEN d ELSE Merge(content[i], d), "update")

Delete(i) ==
    /\ content[i] # Absent
    /\ Write(i, Absent, "delete")

Lose(i) ==
    /\ content[i] # Absent
    /\ content' = [content EXCEPT ![i] = Absent]
    /\ UNCHANGED log

Next ==
    \E i \in Ids :
        (\E d \in Data : Put(i, d) \/ Update(i, d)) \/ Delete(i) \/ Lose(i)

Spec == Init /\ [][Next]_vars
=============================================================================
