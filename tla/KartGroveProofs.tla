-------------------------- MODULE KartGroveProofs --------------------------
(***************************************************************************)
(* Proofs about the two tables the daemons wait on: the task queue, for    *)
(* any set of tasks, any set of workers and any bound on the faults, and   *)
(* Grove's messages, for any clients, channels, readers and bounds.        *)
(*                                                                         *)
(* KartQueue.  The inductive invariant is TypeOK together with Ownership:  *)
(* the typing of _KART_RUN_IDS already needs that a worker inside the loop *)
(* has a task in hand.                                                     *)
(*                                                                         *)
(* Grove.  What a client is doing agrees with the message it wrote         *)
(* (TableInv); a raised flag is that of a committed command (FlagInv); the *)
(* cursors of a reader never pass the table, the rows in its hand are in   *)
(* order and beyond the cursor, and a connected reader has shown, still    *)
(* has to see, or could not see each committed message (ReaderInv).        *)
(***************************************************************************)
EXTENDS KartQueue, Grove, DataLemmas

-----------------------------------------------------------------------------
(* KartQueue.                                                              *)

\* The inductive invariant of the queue.
IInv == TypeOK /\ Ownership

LEMMA InitIInv == Init => IInv
BY KartAssumption DEF Init, IInv, TypeOK, Statuses, Phases, Results, RunStatuses,
   Ownership, SingleOwner, Holding, RowOK, Busy

\* Typing is preserved by every step, given what Ownership says of the worker.
LEMMA TypeStep == IInv /\ [Next]_vars => TypeOK'
<1> SUFFICES ASSUME TypeOK, Ownership, [Next]_vars PROVE TypeOK'
  BY DEF IInv
<1> USE KartAssumption DEF TypeOK, Statuses, Phases, Results, RunStatuses
<1> USE DEF taskVars, workerVars, runVars, feedVars, histVars, Goto, LetGo
<1>1. ASSUME NEW t \in Tasks, Submit(t) PROVE TypeOK'
  BY <1>1 DEF Submit
<1>2. ASSUME NEW w \in Workers, Connect(w) PROVE TypeOK'
  BY <1>2 DEF Connect
<1>3. ASSUME NEW w \in Workers, NEW t \in Tasks, ClaimSelect(w, t) PROVE TypeOK'
  BY <1>3 DEF ClaimSelect
<1>4. ASSUME NEW w \in Workers, ClaimCommit(w) PROVE TypeOK'
  BY <1>4 DEF ClaimCommit
<1>5. ASSUME NEW w \in Workers, RunOpen(w) PROVE TypeOK'
  <2>1. current[w] \in Tasks
    BY <1>5 DEF RunOpen, Ownership, Holding, Busy
  <2> QED BY <2>1, <1>5 DEF RunOpen
<1>6. ASSUME NEW w \in Workers, ExecBegin(w) PROVE TypeOK'
  <2>1. current[w] \in Tasks
    BY <1>6 DEF ExecBegin, Ownership, Holding, Busy
  <2> QED BY <2>1, <1>6 DEF ExecBegin
<1>7. ASSUME NEW w \in Workers, ExecEnd(w) PROVE TypeOK'
  <2>1. current[w] \in Tasks
    BY <1>7 DEF ExecEnd, Ownership, Holding, Busy
  <2> QED BY <2>1, <1>7 DEF ExecEnd
<1>8. ASSUME NEW w \in Workers, Report(w) PROVE TypeOK'
  BY <1>8 DEF Report, Reported
<1>9. ASSUME NEW w \in Workers, RunClose(w) PROVE TypeOK'
  BY <1>9 DEF RunClose
<1>10. ASSUME NEW w \in Workers, DbError(w) PROVE TypeOK'
  BY <1>10 DEF DbError, Fault, Unlock, Reported
<1>11. ASSUME NEW w \in Workers, Crash(w) PROVE TypeOK'
  BY <1>11 DEF Crash, Fault, Unlock
<1>12. ASSUME NEW w \in Workers, Restart(w) PROVE TypeOK'
  BY <1>12 DEF Restart
<1>13. ASSUME NEW t \in Tasks, FeedPick(t) PROVE TypeOK'
  BY <1>13 DEF FeedPick
<1>14. CASE FeedActivate
  BY <1>14 DEF FeedActivate
<1>15. CASE SessionStart
  BY <1>15 DEF SessionStart
<1>16. CASE UNCHANGED vars
  BY <1>16 DEF vars
<1> QED
  BY <1>1, <1>2, <1>3, <1>4, <1>5, <1>6, <1>7, <1>8, <1>9, <1>10, <1>11,
     <1>12, <1>13, <1>14, <1>15, <1>16 DEF Next, WorkerStep, LoopStep

\* A step of one worker leaves the others' task alone, and no step breaks what
\* a worker knows of its own.
LEMMA OwnershipStep == IInv /\ [Next]_vars => Ownership'
<1> SUFFICES ASSUME TypeOK, TypeOK', Ownership, [Next]_vars PROVE Ownership'
  BY TypeStep DEF IInv
<1> USE KartAssumption DEF TypeOK, Statuses, Phases, Results, RunStatuses, Busy
<1> USE DEF taskVars, workerVars, runVars, feedVars, histVars, Goto, LetGo
<1> USE DEF Ownership, SingleOwner, Holding, RowOK
<1>1. ASSUME NEW t \in Tasks, Submit(t) PROVE Ownership'
  BY <1>1 DEF Submit
<1>2. ASSUME NEW w \in Workers, Connect(w) PROVE Ownership'
  BY <1>2 DEF Connect
<1>3. ASSUME NEW w \in Workers, NEW t \in Tasks, ClaimSelect(w, t) PROVE Ownership'
  BY <1>3 DEF ClaimSelect, Oldest, Claimable
<1>4. ASSUME NEW w \in Workers, ClaimCommit(w) PROVE Ownership'
  BY <1>4 DEF ClaimCommit
<1>5. ASSUME NEW w \in Workers, RunOpen(w) PROVE Ownership'
  BY <1>5 DEF RunOpen
<1>6. ASSUME NEW w \in Workers, ExecBegin(w) PROVE Ownership'
  BY <1>6 DEF ExecBegin
<1>7. ASSUME NEW w \in Workers, ExecEnd(w) PROVE Ownership'
  BY <1>7 DEF ExecEnd
<1>8. ASSUME NEW w \in Workers, Report(w) PROVE Ownership'
  BY <1>8 DEF Report, Reported
<1>9. ASSUME NEW w \in Workers, RunClose(w) PROVE Ownership'
  BY <1>9 DEF RunClose
<1>10. ASSUME NEW w \in Workers, DbError(w) PROVE Ownership'
  BY <1>10 DEF DbError, Fault, Unlock, Reported
<1>11. ASSUME NEW w \in Workers, Crash(w) PROVE Ownership'
  BY <1>11 DEF Crash, Fault, Unlock
<1>12. ASSUME NEW w \in Workers, Restart(w) PROVE Ownership'
  BY <1>12 DEF Restart
<1>13. ASSUME NEW t \in Tasks, FeedPick(t) PROVE Ownership'
  BY <1>13 DEF FeedPick
<1>14. CASE FeedActivate
  BY <1>14 DEF FeedActivate
<1>15. CASE SessionStart
  BY <1>15 DEF SessionStart
<1>16. CASE UNCHANGED vars
  BY <1>16 DEF vars
<1> QED
  BY <1>1, <1>2, <1>3, <1>4, <1>5, <1>6, <1>7, <1>8, <1>9, <1>10, <1>11,
     <1>12, <1>13, <1>14, <1>15, <1>16 DEF Next, WorkerStep, LoopStep

LEMMA IInvariant == Spec => []IInv
BY InitIInv, TypeStep, OwnershipStep, PTL DEF Spec, IInv

-----------------------------------------------------------------------------
\* The variables of the queue hold what they are meant to hold.
THEOREM KartTypeOK == Spec => []TypeOK
BY IInvariant, PTL DEF IInv

\* What each daemon believes of the task it holds is true of the row.
THEOREM KartOwnership == Spec => []Ownership
BY IInvariant, PTL DEF IInv

\* No two daemons ever have the same task in hand.
THEOREM KartSingleOwner == Spec => []SingleOwner
<1>1. IInv => SingleOwner
  BY DEF IInv, Ownership
<1> QED BY <1>1, IInvariant, PTL

\* The commands of a task are begun at most once, over all processes, lost
\* acknowledgements, crashes and restarts.
THEOREM KartAtMostOnce == Spec => []AtMostOnce
<1>1. IInv => AtMostOnce
  BY DEF IInv, Ownership, RowOK, AtMostOnce
<1> QED BY <1>1, IInvariant, PTL

\* A finished row tells what the execution of its task came to.
THEOREM KartReport == Spec => []ReportMatchesOutcome
<1>1. IInv => ReportMatchesOutcome
  BY DEF IInv, Ownership, RowOK, ReportMatchesOutcome
<1> QED BY <1>1, IInvariant, PTL

\* The run ledger is never ahead of the queue.
THEOREM KartRunNeverAhead == Spec => []RunNeverAhead
<1>1. IInv => RunNeverAhead
  BY DEF IInv, Ownership, RowOK, RunNeverAhead
<1> QED BY <1>1, IInvariant, PTL

\* A task the silence feed activated is never executed.
THEOREM KartFedIsStranded == Spec => []FedIsStranded
<1>1. IInv => FedIsStranded
  BY DEF IInv, TypeOK, Ownership, RowOK, FedIsStranded
<1> QED BY <1>1, IInvariant, PTL

-----------------------------------------------------------------------------
\* A finished row and a closed run are never written again.
THEOREM KartFinalStays == Spec => FinalStays
<1> DEFINE Stays == \A t \in Tasks :
       /\ status[t] \in Terminal => status'[t] = status[t]
       /\ runs[t] \in {"completed", "crashed", "abandoned"} => runs'[t] = runs[t]
<1>1. IInv /\ [Next]_vars => Stays
  <2> SUFFICES ASSUME TypeOK, Ownership, [Next]_vars PROVE Stays
    BY DEF IInv
  <2> USE DEF TypeOK, Ownership, Holding, RowOK, Busy, Terminal
  <2> USE DEF taskVars, workerVars, runVars, feedVars, histVars, Goto, LetGo
  <2>1. ASSUME NEW t \in Tasks, Submit(t) PROVE Stays
    BY <2>1 DEF Submit
  <2>2. ASSUME NEW w \in Workers, ClaimCommit(w) PROVE Stays
    BY <2>2 DEF ClaimCommit
  <2>3. ASSUME NEW w \in Workers, RunOpen(w) PROVE Stays
    BY <2>3 DEF RunOpen
  <2>4. ASSUME NEW w \in Workers, Report(w) PROVE Stays
    BY <2>4 DEF Report, Reported
  <2>5. ASSUME NEW w \in Workers, RunClose(w) PROVE Stays
    BY <2>5 DEF RunClose
  <2>6. ASSUME NEW w \in Workers, DbError(w) PROVE Stays
    BY <2>6 DEF DbError, Reported
  <2>7. CASE FeedActivate
    BY <2>7 DEF FeedActivate
  <2>8. CASE SessionStart
    BY <2>8 DEF SessionStart
  <2>9. CASE UNCHANGED <<status, runs>>
    BY <2>9
  <2> QED
    BY <2>1, <2>2, <2>3, <2>4, <2>5, <2>6, <2>7, <2>8, <2>9
    DEF Next, WorkerStep, LoopStep, vars, Connect, ClaimSelect, ExecBegin, ExecEnd, Crash,
        Restart, FeedPick
<1>2. Stays => [Stays]_vars
  OBVIOUS
<1> QED
  BY <1>1, <1>2, IInvariant, PTL DEF Spec, FinalStays

-----------------------------------------------------------------------------
(* The queue implements TaskContract.                                      *)

\* What a step must do to the row of one task, and leave of all the others, to
\* be a move of that task in the contract.
LEMMA StageMoves ==
  ASSUME NEW t \in Tasks,
         \A u \in Tasks \ {t} : /\ status'[u] = status[u]
                                /\ started'[u] = started[u]
                                /\ outcome'[u] = outcome[u]
  PROVE  /\ StageMap' = [StageMap EXCEPT ![t] = Stage(t)']
         /\ ReportMap' = [ReportMap EXCEPT ![t] = ReportOf(t)']
         /\ StageMap[t] = Stage(t)
         /\ ReportOf(t)' = ReportOf(t) => ReportMap' = ReportMap
<1>1. ASSUME NEW u \in Tasks \ {t}
      PROVE  Stage(u)' = Stage(u) /\ ReportOf(u)' = ReportOf(u)
  <2>1. status'[u] = status[u] /\ started'[u] = started[u] /\ outcome'[u] = outcome[u]
    OBVIOUS
  <2> QED BY <2>1 DEF Stage, ReportOf, Terminal
<1> QED
  BY <1>1 DEF StageMap, ReportMap

\* A step that leaves the three columns alone is a stutter of the contract.
LEMMA StageStutters ==
  UNCHANGED <<status, started, outcome>> => UNCHANGED Contract!vars
BY DEF StageMap, ReportMap, Stage, ReportOf, Contract!vars

LEMMA ContractInit == Init => Contract!Init
BY DEF Init, Contract!Init, StageMap, ReportMap, Stage, ReportOf, Terminal

\* The moves of a row, by what the step does to its columns.
LEMMA TakeMove ==
  ASSUME TypeOK, NEW t \in Tasks, status[t] = "pending", started[t] = 0,
         status' = [status EXCEPT ![t] = "running"], UNCHANGED <<started, outcome>>
  PROVE  Contract!Take(t)
<1>1. status'[t] = "running" /\ \A u \in Tasks \ {t} : status'[u] = status[u]
  BY DEF TypeOK
<1>2. Stage(t) = "queued" /\ Stage(t)' = "taken" /\ ReportOf(t)' = ReportOf(t)
  BY <1>1 DEF Stage, ReportOf, Terminal
<1>3. /\ StageMap' = [StageMap EXCEPT ![t] = Stage(t)']
      /\ StageMap[t] = Stage(t)
      /\ ReportMap' = ReportMap
  BY <1>1, <1>2, StageMoves
<1> QED
  BY <1>2, <1>3 DEF Contract!Take, Contract!Move

LEMMA ReportMove ==
  ASSUME TypeOK, NEW w \in Workers, Holding(w), phase[w] = "reporting",
         NEW t \in Tasks, current[w] = t, status' = Reported(w), UNCHANGED <<started, outcome>>
  PROVE  Contract!Report(t)
<1>1. /\ status'[t] = (IF result[w] = "ok" THEN "complete" ELSE "failed")
      /\ \A u \in Tasks \ {t} : status'[u] = status[u]
  BY DEF TypeOK, Reported
<1>2. /\ status[t] = "running"
      /\ started[t] = 1
      /\ outcome[t] = result[w]
      /\ result[w] \in {"ok", "fail"}
  BY DEF TypeOK, Results, Holding
<1>3. Stage(t) = "ended" /\ Stage(t)' = "reported" /\ ReportOf(t)' = outcome[t]
  BY <1>1, <1>2 DEF Stage, ReportOf, Terminal
<1>4. /\ StageMap' = [StageMap EXCEPT ![t] = Stage(t)']
      /\ ReportMap' = [ReportMap EXCEPT ![t] = ReportOf(t)']
      /\ StageMap[t] = Stage(t)
  BY <1>1, StageMoves
<1> QED
  BY <1>3, <1>4 DEF Contract!Report, Contract!Move

LEMMA ContractStep ==
  IInv /\ [Next]_vars => [Contract!Next]_(Contract!vars)
<1> SUFFICES ASSUME TypeOK, Ownership, [Next]_vars
             PROVE  [Contract!Next]_(Contract!vars)
  BY DEF IInv
<1> USE DEF TypeOK, Ownership, Holding, RowOK, Busy, Goto, taskVars, workerVars, histVars
<1>1. ASSUME NEW t \in Tasks, Submit(t) PROVE Contract!Submit(t)
  <2>1. /\ status[t] = "absent" /\ status'[t] = "pending" /\ started[t] = 0
        /\ UNCHANGED <<started, outcome>>
        /\ \A u \in Tasks \ {t} : status'[u] = status[u]
    BY <1>1 DEF Submit
  <2>2. Stage(t) = "absent" /\ Stage(t)' = "queued" /\ ReportOf(t)' = ReportOf(t)
    BY <2>1 DEF Stage, ReportOf, Terminal
  <2>3. /\ StageMap' = [StageMap EXCEPT ![t] = Stage(t)']
        /\ StageMap[t] = Stage(t)
        /\ ReportMap' = ReportMap
    BY <2>1, <2>2, StageMoves
  <2> QED BY <2>1, <2>2, <2>3 DEF Contract!Submit, Contract!Move
<1>2. ASSUME NEW w \in Workers, ClaimCommit(w)
      PROVE  \E t \in Tasks : Contract!Take(t)
  <2>1. /\ current[w] \in Tasks /\ status[current[w]] = "pending"
        /\ started[current[w]] = 0
        /\ status' = [status EXCEPT ![current[w]] = "running"]
        /\ UNCHANGED <<started, outcome>>
    BY <1>2 DEF ClaimCommit
  <2> QED BY <2>1, TakeMove
<1>3. ASSUME NEW w \in Workers, ExecBegin(w)
      PROVE  \E t \in Tasks : Contract!Begin(t)
  <2> PICK t \in Tasks : t = current[w]
    BY <1>3 DEF ExecBegin
  <2>1. /\ status[t] = "running" /\ started[t] = 0 /\ outcome[t] = "none"
        /\ started'[t] = 1
        /\ UNCHANGED <<status, outcome>>
        /\ \A u \in Tasks \ {t} : started'[u] = started[u]
    BY <1>3 DEF ExecBegin
  <2>2. Stage(t) = "taken" /\ Stage(t)' = "begun" /\ ReportOf(t)' = ReportOf(t)
    BY <2>1 DEF Stage, ReportOf, Terminal
  <2>3. /\ StageMap' = [StageMap EXCEPT ![t] = Stage(t)']
        /\ StageMap[t] = Stage(t)
        /\ ReportMap' = ReportMap
    BY <2>1, <2>2, StageMoves
  <2>4. Contract!Begin(t)
    BY <2>1, <2>2, <2>3 DEF Contract!Begin, Contract!Move
  <2> QED BY <2>4
<1>4. ASSUME NEW w \in Workers, ExecEnd(w)
      PROVE  \E t \in Tasks : Contract!End(t)
  <2> PICK t \in Tasks : t = current[w]
    BY <1>4 DEF ExecEnd
  <2> PICK r \in {"ok", "fail"} : outcome' = [outcome EXCEPT ![t] = r]
    BY <1>4 DEF ExecEnd
  <2>1. /\ status[t] = "running" /\ started[t] = 1 /\ outcome[t] = "none"
        /\ outcome'[t] = r
        /\ UNCHANGED <<status, started>>
        /\ \A u \in Tasks \ {t} : outcome'[u] = outcome[u]
    BY <1>4 DEF ExecEnd
  <2>2. Stage(t) = "begun" /\ Stage(t)' = "ended" /\ ReportOf(t)' = ReportOf(t)
    BY <2>1 DEF Stage, ReportOf, Terminal
  <2>3. /\ StageMap' = [StageMap EXCEPT ![t] = Stage(t)']
        /\ StageMap[t] = Stage(t)
        /\ ReportMap' = ReportMap
    BY <2>1, <2>2, StageMoves
  <2>4. Contract!End(t)
    BY <2>1, <2>2, <2>3 DEF Contract!End, Contract!Move
  <2> QED BY <2>4
<1>5. ASSUME NEW w \in Workers, Report(w)
      PROVE  \E t \in Tasks : Contract!Report(t)
  BY <1>5, ReportMove DEF Report
<1>6. ASSUME NEW w \in Workers, DbError(w)
      PROVE  \/ UNCHANGED <<status, started, outcome>>
             \/ \E t \in Tasks : Contract!Take(t) \/ Contract!Report(t)
  <2>1. UNCHANGED <<started, outcome>>
    BY <1>6 DEF DbError
  <2>2. CASE phase[w] = "claiming" /\ status' = [status EXCEPT ![current[w]] = "running"]
    <3>1. /\ current[w] \in Tasks /\ status[current[w]] = "pending"
          /\ started[current[w]] = 0
      BY <2>2
    <3> QED BY <2>1, <2>2, <3>1, TakeMove
  <2>3. CASE phase[w] = "reporting" /\ status' = Reported(w)
    BY <2>1, <2>3, ReportMove
  <2> QED BY <1>6, <2>1, <2>2, <2>3 DEF DbError
<1>7. ASSUME FeedActivate
      PROVE  \/ UNCHANGED <<status, started, outcome>>
             \/ \E t \in Tasks : Contract!Take(t)
  <2>1. CASE UNCHANGED status
    BY <1>7, <2>1 DEF FeedActivate
  <2>2. CASE status[feed] = "pending" /\ status' = [status EXCEPT ![feed] = "running"]
    <3>1. feed \in Tasks /\ started[feed] = 0 /\ UNCHANGED <<started, outcome>>
      BY <1>7, <2>2 DEF FeedActivate
    <3> QED BY <2>2, <3>1, TakeMove
  <2> QED BY <1>7, <2>1, <2>2 DEF FeedActivate
<1>8. UNCHANGED <<status, started, outcome>> => [Contract!Next]_(Contract!vars)
  BY StageStutters
<1>9. ASSUME NEW t \in Tasks,
             \/ Contract!Submit(t) \/ Contract!Take(t) \/ Contract!Begin(t)
             \/ Contract!End(t) \/ Contract!Report(t)
      PROVE  Contract!Next
  BY <1>9 DEF Contract!Next
<1> QED
  BY <1>1, <1>2, <1>3, <1>4, <1>5, <1>6, <1>7, <1>8, <1>9
  DEF Next, WorkerStep, LoopStep, vars, Connect, ClaimSelect, RunOpen, RunClose, Crash,
      Restart, FeedPick, SessionStart

\* Every behaviour of the queue is one TaskContract allows.
THEOREM KartKeepsContract == Spec => KeepsContract
BY ContractInit, ContractStep, IInvariant, PTL DEF Spec, KeepsContract, Contract!Spec

-----------------------------------------------------------------------------
(* Grove.  The tables.                                                     *)

Kinds    == {"send", "post", "command", "ack", "reply", "heartbeat", "answer"}
Messages == [ch : Channels, by : Clients \cup {"willow"}, kind : Kinds, re : Nat, addr : BOOLEAN,
             st : {"open", "in", "gone"}]
Slots    == [step : {"idle", "create", "insert", "commit", "raise", "clear", "read"}, ch : Channels,
             kind : Kinds, re : Nat, addr : BOOLEAN, id : Nat]

\* What a client is doing agrees with the message it has written.
SlotOk(c) ==
    /\ call[c].step \in {"idle", "create", "insert"} => call[c].id = 0
    /\ call[c].step \in {"commit", "raise", "clear", "read"} =>
         /\ call[c].id \in 1 .. Len(msgs)
         /\ msgs[call[c].id].st = IF call[c].step = "commit" THEN "open" ELSE "in"
         /\ msgs[call[c].id].kind = call[c].kind /\ msgs[call[c].id].re = call[c].re
         /\ msgs[call[c].id].ch = call[c].ch
    /\ call[c].step = "raise" => call[c].kind = "command"
    /\ call[c].step = "clear" => call[c].kind \in {"ack", "reply"}

\* The tables: clients write their own messages, and the reader called willow answers only.
TableInv ==
    /\ reader \in Readers /\ chans \subseteq Channels
    /\ msgs \in Seq(Messages) /\ call \in [Clients -> Slots]
    /\ \A c \in Clients : SlotOk(c)
    /\ \A c, d \in Clients : call[c].id = call[d].id /\ call[c].id # 0 => c = d
    /\ \A i \in 1 .. Len(msgs) : msgs[i].by = "willow" => ~msgs[i].addr /\ msgs[i].kind \in {"answer", "heartbeat"}

\* The messages there are keep everything but their status.
SameText(i) ==
    /\ msgs'[i].ch = msgs[i].ch /\ msgs'[i].by = msgs[i].by /\ msgs'[i].kind = msgs[i].kind
    /\ msgs'[i].re = msgs[i].re /\ msgs'[i].addr = msgs[i].addr
Later ==
    /\ msgs' \in Seq(Messages) /\ Len(msgs) \in Nat /\ Len(msgs') \in {Len(msgs), Len(msgs) + 1}
    /\ \A i \in 1 .. Len(msgs) : SameText(i)

LEMMA IdsAre == ASSUME msgs \in Seq(Messages) PROVE Ids = 1 .. Len(msgs) /\ Len(msgs) \in Nat
BY DEF Ids

LEMMA Adding ==
    ASSUME msgs \in Seq(Messages), NEW m \in Messages, msgs' = Append(msgs, m)
    PROVE  /\ Later /\ Len(msgs') = Len(msgs) + 1
           /\ \A i \in 1 .. Len(msgs) : msgs'[i] = msgs[i]
           /\ msgs'[Len(msgs) + 1] = m
           /\ Committed' = IF m.st = "in" THEN Committed \cup {Len(msgs) + 1} ELSE Committed
<1>1. /\ msgs' \in Seq(Messages) /\ Len(msgs') = Len(msgs) + 1 /\ Len(msgs) \in Nat
      /\ \A i \in 1 .. Len(msgs) : msgs'[i] = msgs[i]
      /\ msgs'[Len(msgs) + 1] = m
  BY Appended
<1>2. Ids = 1 .. Len(msgs) /\ Ids' = 1 .. Len(msgs) + 1
  BY <1>1 DEF Ids
<1>3. \A i : i \in Ids' <=> i \in 1 .. Len(msgs) \/ i = Len(msgs) + 1
  BY <1>1, <1>2
<1>4. \A i : i \in Committed' <=> i \in Committed \/ (i = Len(msgs) + 1 /\ m.st = "in")
  BY <1>1, <1>2, <1>3 DEF Committed
<1> QED BY <1>1, <1>4 DEF Later, SameText

LEMMA Settling ==
    ASSUME msgs \in Seq(Messages), NEW k \in 1 .. Len(msgs), NEW s \in {"in", "gone"}, msgs[k].st = "open",
           msgs' = [msgs EXCEPT ![k].st = s]
    PROVE  /\ Later /\ Len(msgs') = Len(msgs)
           /\ \A i \in 1 .. Len(msgs) : msgs'[i].st = IF i = k THEN s ELSE msgs[i].st
           /\ Committed' = IF s = "in" THEN Committed \cup {k} ELSE Committed
           /\ k \notin Committed
<1>1. \A i \in 1 .. Len(msgs) : msgs[i] \in Messages
  OBVIOUS
<1>2. Len(msgs) \in Nat /\ Len(msgs') = Len(msgs) /\ \A i \in 1 .. Len(msgs) : msgs'[i] = IF i = k THEN [msgs[k] EXCEPT !.st = s] ELSE msgs[i]
  OBVIOUS
<1>3. \A i \in 1 .. Len(msgs) : msgs'[i] \in Messages /\ SameText(i) /\ msgs'[i].st = IF i = k THEN s ELSE msgs[i].st
  BY <1>1, <1>2 DEF Messages, SameText
<1>4. msgs' \in Seq(Messages)
  <2>1. [msgs[k] EXCEPT !.st = s] \in Messages
    BY <1>2, <1>3
  <2> QED BY <2>1
<1>5. Ids = 1 .. Len(msgs) /\ Ids' = 1 .. Len(msgs)
  BY <1>2, <1>4 DEF Ids
<1>6. Committed' = IF s = "in" THEN Committed \cup {k} ELSE Committed
  BY <1>3, <1>5 DEF Committed
<1> QED BY <1>2, <1>3, <1>4, <1>6 DEF Later, Committed

\* Slots of other clients, when messages are added or one that is theirs is not settled.
LEMMA SlotKept ==
    ASSUME Later, NEW c, SlotOk(c), call'[c] = call[c],
           call[c].id \in 1 .. Len(msgs) => msgs'[call[c].id].st = msgs[call[c].id].st
    PROVE  SlotOk(c)'
<1>1. Len(msgs) \in Nat /\ Len(msgs') \in Nat /\ Len(msgs) <= Len(msgs')
  BY DEF Later
<1>2. call[c].id \in 1 .. Len(msgs) => call[c].id \in 1 .. Len(msgs') /\ SameText(call[c].id)
  BY <1>1 DEF Later
<1> QED BY <1>2 DEF SlotOk, SameText

LEMMA WillowKept ==
    ASSUME TableInv, Later,
           Len(msgs') # Len(msgs) => LET m == msgs'[Len(msgs) + 1] IN m.by = "willow" => ~m.addr /\ m.kind \in {"answer", "heartbeat"}
    PROVE  \A i \in 1 .. Len(msgs') : msgs'[i].by = "willow" => ~msgs'[i].addr /\ msgs'[i].kind \in {"answer", "heartbeat"}
<1> SUFFICES ASSUME NEW i \in 1 .. Len(msgs'), msgs'[i].by = "willow" PROVE ~msgs'[i].addr /\ msgs'[i].kind \in {"answer", "heartbeat"}
  OBVIOUS
<1>1. i \in 1 .. Len(msgs) \/ (i = Len(msgs) + 1 /\ Len(msgs') # Len(msgs))
  BY DEF Later
<1>2. CASE i \in 1 .. Len(msgs)
  BY <1>2 DEF Later, SameText, TableInv
<1> QED BY <1>1, <1>2

LEMMA CallMoves ==
    ASSUME TableInv, Later, NEW c \in Clients, NEW l \in Slots, call' = [call EXCEPT ![c] = l], SlotOk(c)',
           \A d \in Clients \ {c} : call[d].id \in 1 .. Len(msgs) => msgs'[call[d].id].st = msgs[call[d].id].st,
           l.id \in {0, call[c].id, Len(msgs) + 1},
           UNCHANGED reader, chans' \subseteq Channels,
           Len(msgs') # Len(msgs) => LET m == msgs'[Len(msgs) + 1] IN m.by = "willow" => ~m.addr /\ m.kind \in {"answer", "heartbeat"}
    PROVE  TableInv'
<1>1. call \in [Clients -> Slots] /\ call' \in [Clients -> Slots] /\ call'[c] = l /\ \A d \in Clients \ {c} : call'[d] = call[d]
  BY DEF TableInv
<1>2. \A d \in Clients : SlotOk(d)'
  BY <1>1, SlotKept DEF TableInv
<1>3. \A d \in Clients : call[d].id \in 0 .. Len(msgs)
  <2> TAKE d \in Clients
  <2>1. SlotOk(d) /\ call[d].step \in {"idle", "create", "insert", "commit", "raise", "clear", "read"}
    BY <1>1 DEF TableInv, Slots
  <2> QED BY <2>1 DEF SlotOk, Later
<1>4. \A d, e \in Clients : call'[d].id = call'[e].id /\ call'[d].id # 0 => d = e
  <2> SUFFICES ASSUME NEW d \in Clients, NEW e \in Clients, call'[d].id = call'[e].id, call'[d].id # 0, d # e PROVE FALSE
    OBVIOUS
  <2>1. \A f \in Clients \ {c} : call[f].id # call[c].id \/ call[f].id = 0
    BY DEF TableInv
  <2>2. \A f \in Clients \ {c} : call'[f].id = call[f].id /\ call[f].id # Len(msgs) + 1
    BY <1>1, <1>3 DEF Later
  <2>3. CASE d = c
    BY <1>1, <2>1, <2>2, <2>3
  <2>4. CASE e = c
    BY <1>1, <2>1, <2>2, <2>4
  <2>5. CASE d # c /\ e # c
    BY <2>2, <2>5 DEF TableInv
  <2> QED BY <2>3, <2>4, <2>5
<1>5. \A i \in 1 .. Len(msgs') : msgs'[i].by = "willow" => ~msgs'[i].addr /\ msgs'[i].kind \in {"answer", "heartbeat"}
  BY WillowKept
<1> QED BY <1>1, <1>2, <1>4, <1>5 DEF TableInv, Later

LEMMA IdleSlot == Idle \in Slots /\ Idle.id = 0 /\ Idle.step = "idle"
BY GroveAssumption DEF Idle, Slots, Kinds

LEMMA Unsettled == ASSUME msgs \in Seq(Messages), UNCHANGED msgs PROVE Later /\ Committed' = Committed /\ Len(msgs') = Len(msgs)
BY DEF Later, SameText, Committed, Ids

\* A step of a call that is done.
LEMMA DoneIs ==
    ASSUME TableInv, Later, NEW c \in Clients, Done(c), ~At(c, "idle"), ~At(c, "insert"),
           call[c].id \in 1 .. Len(msgs) => msgs'[call[c].id].st = "in"
    PROVE  \E l \in Slots : call' = [call EXCEPT ![c] = l] /\ SlotOk(c)' /\ l.id \in {0, call[c].id}
<1> DEFINE k == call[c]
           s == After(k.kind, k.step)
           l == IF s = "idle" THEN Idle ELSE [k EXCEPT !.step = s]
<1>1. k \in Slots /\ SlotOk(c) /\ call \in [Clients -> Slots]
  BY DEF TableInv
<1>2. call' = [call EXCEPT ![c] = l] /\ call'[c] = l
  BY <1>1 DEF Done
<1>3. k.step \in {"create", "commit", "raise", "clear", "read"}
  BY <1>1 DEF Slots, At
<1>4. s \in {"idle", "insert", "raise", "clear", "read"}
  BY DEF After
<1>5. l \in Slots
  BY <1>1, <1>4, IdleSlot DEF Slots
<1>6. l.id \in {0, k.id}
  BY <1>1, IdleSlot DEF Slots
<1>7. SlotOk(c)'
  <2>1. CASE s = "idle"
    <3>1. call'[c].step = "idle" /\ call'[c].id = 0
      BY <1>2, <2>1, IdleSlot
    <3> QED BY <3>1 DEF SlotOk
  <2>2. CASE s # "idle"
    <3>1. call'[c].step = s /\ call'[c].id = k.id /\ call'[c].kind = k.kind /\ call'[c].re = k.re /\ call'[c].ch = k.ch
      BY <1>1, <1>2, <2>2 DEF Slots
    <3>2. CASE k.step = "create"
      <4>1. s = "insert" /\ k.id = 0
        BY <1>1, <3>2 DEF After, SlotOk
      <4> QED BY <3>1, <4>1 DEF SlotOk
    <3>3. CASE k.step # "create"
      <4>1. s \in {"raise", "clear", "read"} /\ (s = "raise" => k.kind = "command") /\ (s = "clear" => k.kind \in {"ack", "reply"})
        BY <1>3, <2>2, <3>3 DEF After
      <4>2. k.id \in 1 .. Len(msgs) /\ msgs[k.id].kind = k.kind /\ msgs[k.id].re = k.re /\ msgs[k.id].ch = k.ch
        BY <1>1, <1>3, <3>3 DEF SlotOk
      <4>3. k.id \in 1 .. Len(msgs') /\ msgs'[k.id].kind = k.kind /\ msgs'[k.id].re = k.re /\ msgs'[k.id].ch = k.ch /\ msgs'[k.id].st = "in"
        BY <4>2 DEF Later, SameText
      <4> QED BY <3>1, <4>1, <4>3 DEF SlotOk
    <3> QED BY <3>2, <3>3
  <2> QED BY <2>1, <2>2
<1> QED BY <1>2, <1>5, <1>6, <1>7

\* Of the steps of clients only Commit makes a message visible, and moves or tells the reader.
Talks == Later /\ Committed' = Committed /\ UNCHANGED <<reader, inbound, history>>

LEMMA Taking ==
    ASSUME TableInv, NEW c \in Clients, NEW l \in Slots, l.step \in {"create", "insert"}, l.id = 0, Takes(c, l),
           UNCHANGED <<reader, chans>>, call[c].id = 0
    PROVE  TableInv' /\ Later /\ Committed' = Committed
<1> DEFINE m == Message(l.ch, c, l.kind, l.re, l.addr, "open")
           k == [l EXCEPT !.step = "commit", !.id = Len(msgs) + 1]
<1>1. m \in Messages /\ m.st = "open" /\ m.kind = l.kind /\ m.re = l.re /\ m.ch = l.ch /\ m.by # "willow"
  BY GroveAssumption DEF Messages, Slots, Message
<1>2. msgs \in Seq(Messages) /\ msgs' = Append(msgs, m) /\ Len(msgs) \in Nat /\ call \in [Clients -> Slots]
  BY DEF TableInv, Takes
<1> HIDE DEF m
<1>3. Later /\ Committed' = Committed /\ Len(msgs') = Len(msgs) + 1 /\ msgs'[Len(msgs) + 1] = m /\ \A i \in 1 .. Len(msgs) : msgs'[i] = msgs[i]
  BY <1>1, <1>2, Adding
<1>4. k \in Slots /\ k.step = "commit" /\ k.id = Len(msgs) + 1 /\ k.kind = l.kind /\ k.re = l.re /\ k.ch = l.ch
  <2>1. [l EXCEPT !.step = "commit"] \in Slots
    BY DEF Slots
  <2>2. k = [[l EXCEPT !.step = "commit"] EXCEPT !.id = Len(msgs) + 1]
    BY DEF Slots
  <2>3. Len(msgs) + 1 \in Nat
    BY <1>2
  <2>4. k \in Slots
    <3> HIDE DEF k
    <3> QED BY <2>1, <2>2, <2>3 DEF Slots
  <2> QED BY <2>4, <2>1, <2>2 DEF Slots
<1>5. call' = [call EXCEPT ![c] = k] /\ call'[c] = k
  BY <1>2 DEF Takes
<1> HIDE DEF k
<1>6. SlotOk(c)'
  <2>1. k.id \in 1 .. Len(msgs')
    BY <1>2, <1>3, <1>4
  <2> QED BY <1>1, <1>3, <1>4, <1>5, <2>1 DEF SlotOk
<1>7. chans' \subseteq Channels
  BY DEF TableInv
<1> QED BY <1>1, <1>3, <1>4, <1>5, <1>6, <1>7, CallMoves

LEMMA Calling ==
    ASSUME TableInv, NEW c \in Clients, NEW t \in Kinds, NEW ch \in Channels, NEW re \in Nat, NEW addr \in BOOLEAN,
           Calls(c, t, ch, re, addr)
    PROVE  TableInv' /\ Talks
<1> DEFINE l == [step |-> "create", ch |-> ch, kind |-> t, re |-> re, addr |-> addr, id |-> 0]
<1>1. l \in Slots /\ l.step = "create" /\ l.id = 0
  BY DEF Slots
<1>2. call[c].id = 0 /\ call \in [Clients -> Slots] /\ msgs \in Seq(Messages)
  BY DEF TableInv, Calls, At, SlotOk
<1>3. UNCHANGED <<chans, reader, inbound, history>> /\ (Takes(c, l) \/ (call' = [call EXCEPT ![c] = l] /\ UNCHANGED msgs))
  BY DEF Calls
<1> HIDE DEF l
<1>4. CASE Takes(c, l)
  BY <1>1, <1>2, <1>3, <1>4, Taking DEF Talks
<1>5. CASE call' = [call EXCEPT ![c] = l] /\ UNCHANGED msgs
  <2>1. Later /\ Committed' = Committed /\ Len(msgs') = Len(msgs)
    BY <1>2, <1>5, Unsettled
  <2>2. SlotOk(c)'
    <3>1. call'[c] = l
      BY <1>2, <1>5
    <3> QED BY <1>1, <3>1 DEF SlotOk
  <2>3. chans' \subseteq Channels
    BY <1>3 DEF TableInv
  <2> QED BY <1>1, <1>3, <1>5, <2>1, <2>2, <2>3, CallMoves DEF Talks
<1> QED BY <1>3, <1>4, <1>5

\* A call that goes on, or ends, without a change to the messages.
LEMMA GoingOn ==
    ASSUME TableInv, NEW c \in Clients, Done(c) \/ call' = [call EXCEPT ![c] = Idle], ~At(c, "idle"), ~At(c, "insert"), ~At(c, "commit"),
           UNCHANGED <<msgs, reader>>, chans' \subseteq Channels
    PROVE  TableInv' /\ Later /\ Committed' = Committed
<1>1. msgs \in Seq(Messages) /\ call \in [Clients -> Slots] /\ SlotOk(c)
  BY DEF TableInv
<1>2. Later /\ Committed' = Committed /\ Len(msgs') = Len(msgs)
  BY <1>1, Unsettled
<1>3. call[c].id \in 1 .. Len(msgs) => msgs'[call[c].id].st = "in"
  BY <1>1 DEF SlotOk, At, Slots
<1>4. CASE Done(c)
  BY <1>2, <1>3, <1>4, DoneIs, CallMoves
<1>5. CASE call' = [call EXCEPT ![c] = Idle]
  <2>1. SlotOk(c)'
    <3>1. call'[c] = Idle
      BY <1>1, <1>5
    <3> QED BY <3>1, IdleSlot DEF SlotOk
  <2> QED BY <1>2, <1>5, <2>1, IdleSlot, CallMoves
<1> QED BY <1>4, <1>5

LEMMA Committing ==
    ASSUME TableInv, NEW c \in Clients, Commit(c)
    PROVE  /\ TableInv' /\ Later /\ Committed' = Committed \cup {call[c].id} /\ Len(msgs') = Len(msgs)
           /\ call[c].id \in 1 .. Len(msgs) /\ call[c].id \notin Committed /\ call[c].step = "commit"
           /\ msgs[call[c].id].kind = call[c].kind /\ msgs[call[c].id].ch = call[c].ch
<1> DEFINE k == call[c].id
<1>1. msgs \in Seq(Messages) /\ call \in [Clients -> Slots] /\ call[c].step = "commit" /\ Done(c) /\ UNCHANGED <<chans, reader>>
  BY DEF TableInv, Commit, At
<1>2. k \in 1 .. Len(msgs) /\ msgs[k].st = "open" /\ msgs[k].kind = call[c].kind /\ msgs[k].ch = call[c].ch
  BY <1>1 DEF TableInv, SlotOk
<1>3. msgs' = [msgs EXCEPT ![k].st = "in"]
  BY DEF Commit
<1> HIDE DEF k
<1>4. /\ Later /\ Len(msgs') = Len(msgs) /\ Committed' = Committed \cup {k} /\ k \notin Committed
      /\ \A i \in 1 .. Len(msgs) : msgs'[i].st = IF i = k THEN "in" ELSE msgs[i].st
  BY <1>1, <1>2, <1>3, Settling
<1>5. k # 0 /\ \A d \in Clients \ {c} : call[d].id # k
  BY <1>1, <1>2 DEF TableInv, k
<1>6. \A d \in Clients \ {c} : call[d].id \in 1 .. Len(msgs) => msgs'[call[d].id].st = msgs[call[d].id].st
  BY <1>4, <1>5
<1>7. PICK l \in Slots : call' = [call EXCEPT ![c] = l] /\ SlotOk(c)' /\ l.id \in {0, call[c].id}
  <2>1. msgs'[call[c].id].st = "in"
    BY <1>2, <1>4 DEF k
  <2> QED BY <1>1, <1>4, <2>1, DoneIs DEF At
<1>8. TableInv'
  BY <1>1, <1>4, <1>6, <1>7, CallMoves DEF TableInv
<1> QED BY <1>1, <1>2, <1>4, <1>8 DEF k

LEMMA Dying ==
    ASSUME TableInv, NEW c \in Clients, Die(c)
    PROVE  TableInv' /\ Talks /\ call' = [call EXCEPT ![c] = Idle]
<1> DEFINE k == call[c].id
<1>1. msgs \in Seq(Messages) /\ call \in [Clients -> Slots] /\ UNCHANGED <<chans, reader, inbound, history>> /\ call' = [call EXCEPT ![c] = Idle]
  BY DEF TableInv, Die
<1>2. Ids = 1 .. Len(msgs) /\ Len(msgs) \in Nat
  BY <1>1, IdsAre
<1>3. msgs' = [i \in 1 .. Len(msgs) |-> IF i = k /\ msgs[i].st = "open" THEN [msgs[i] EXCEPT !.st = "gone"] ELSE msgs[i]]
  BY <1>2 DEF Die
<1> HIDE DEF k
<1>4. \A i \in 1 .. Len(msgs) : [msgs[i] EXCEPT !.st = "gone"] \in Messages /\ msgs[i] \in Messages
  <2> TAKE i \in 1 .. Len(msgs)
  <2>1. msgs[i] \in Messages
    BY <1>1
  <2> QED BY <2>1 DEF Messages
<1>5. msgs' \in Seq(Messages) /\ Len(msgs') = Len(msgs)
  BY <1>2, <1>3, <1>4
<1>6. \A i \in 1 .. Len(msgs) : SameText(i) /\ (i # k => msgs'[i].st = msgs[i].st) /\ (msgs'[i].st = "in" <=> msgs[i].st = "in")
  <2> TAKE i \in 1 .. Len(msgs)
  <2>1. msgs'[i] = IF i = k /\ msgs[i].st = "open" THEN [msgs[i] EXCEPT !.st = "gone"] ELSE msgs[i]
    BY <1>3
  <2> QED BY <1>4, <2>1 DEF SameText, Messages
<1>7. Later
  BY <1>2, <1>5, <1>6 DEF Later
<1>8. Committed' = Committed
  <2>1. Ids' = 1 .. Len(msgs)
    BY <1>5 DEF Ids
  <2> QED BY <1>2, <1>6, <2>1 DEF Committed
<1>9. \A d \in Clients \ {c} : call[d].id \in 1 .. Len(msgs) => msgs'[call[d].id].st = msgs[call[d].id].st
  <2>1. k # 0 => \A d \in Clients \ {c} : call[d].id # k
    BY DEF TableInv, k
  <2> QED BY <1>6, <2>1
<1>10. SlotOk(c)'
  <2>1. call'[c] = Idle
    BY <1>1
  <2> QED BY <2>1, IdleSlot DEF SlotOk
<1>11. chans' \subseteq Channels
  BY <1>1 DEF TableInv
<1> QED BY <1>1, <1>5, <1>7, <1>8, <1>9, <1>10, <1>11, IdleSlot, CallMoves DEF Talks

LEMMA ClientTables ==
    ASSUME TableInv, NEW c \in Clients, Client(c)
    PROVE  TableInv' /\ (Talks \/ Commit(c))
<1>1. Tools[reader] \subseteq Kinds /\ Rooms[reader] \subseteq Channels /\ General \in Channels /\ Addressed \subseteq BOOLEAN /\ 0 \in Nat
  BY GroveAssumption DEF TableInv, Kinds, Addressed
<1>2. \A i \in Committed : msgs[i].ch \in Channels /\ i \in Nat
  <2> TAKE i \in Committed
  <2>1. msgs \in Seq(Messages) /\ i \in Ids
    BY DEF TableInv, Committed
  <2>2. i \in 1 .. Len(msgs) /\ Len(msgs) \in Nat
    BY <2>1, IdsAre
  <2>3. msgs[i] \in Messages
    BY <2>1, <2>2
  <2> QED BY <2>2, <2>3 DEF Messages
<1>3. ASSUME NEW t, NEW ch \in Channels, NEW re \in Nat, NEW addr \in BOOLEAN, Calls(c, t, ch, re, addr) PROVE TableInv' /\ Talks
  <2>1. t \in Kinds
    BY <1>1, <1>3 DEF Calls
  <2> QED BY <1>3, <2>1, Calling
<1>4. CASE SendMessage(c)
  BY <1>1, <1>3, <1>4 DEF SendMessage
<1>5. CASE PostSigned(c)
  BY <1>1, <1>3, <1>5 DEF PostSigned
<1>6. CASE Heartbeat(c)
  BY <1>1, <1>3, <1>6 DEF Heartbeat
<1>7. CASE BusSend(c)
  BY <1>1, <1>3, <1>7 DEF BusSend
<1>8. CASE Reply(c)
  BY <1>2, <1>3, <1>8 DEF Reply
<1>9. CASE Ack(c)
  BY <1>2, <1>3, <1>9 DEF Ack
<1>10. CASE CreateChannel(c)
  <2>1. call[c].ch \in Channels /\ chans \subseteq Channels
    BY DEF TableInv, Slots
  <2>2. chans' \subseteq Channels
    BY <1>10, <2>1 DEF CreateChannel
  <2>3. /\ Done(c) \/ call' = [call EXCEPT ![c] = Idle]
        /\ ~At(c, "idle") /\ ~At(c, "insert") /\ ~At(c, "commit")
        /\ UNCHANGED <<msgs, reader, inbound, history>>
    BY <1>10 DEF CreateChannel, At
  <2> QED BY <2>2, <2>3, GoingOn DEF Talks
<1>11. CASE Insert(c)
  <2>1. call[c] \in Slots /\ call[c].step = "insert" /\ call[c].id = 0
    BY <1>11 DEF TableInv, Insert, At, SlotOk
  <2>2. Takes(c, call[c]) /\ UNCHANGED <<reader, chans, inbound, history>>
    BY <1>11 DEF Insert
  <2> QED BY <2>1, <2>2, Taking DEF Talks
<1>12. CASE Commit(c)
  BY <1>12, Committing
<1>13. CASE RaiseFlag(c) \/ ClearFlag(c) \/ MarkRead(c)
  <2>1. /\ Done(c) /\ ~At(c, "idle") /\ ~At(c, "insert") /\ ~At(c, "commit")
        /\ UNCHANGED <<msgs, chans, reader, inbound, history>>
    BY <1>13 DEF RaiseFlag, ClearFlag, MarkRead, At
  <2>2. chans' \subseteq Channels
    BY <2>1 DEF TableInv
  <2> QED BY <2>1, <2>2, GoingOn DEF Talks
<1>14. CASE Die(c)
  BY <1>14, Dying
<1> QED BY <1>4, <1>5, <1>6, <1>7, <1>8, <1>9, <1>10, <1>11, <1>12, <1>13, <1>14 DEF Client

-----------------------------------------------------------------------------
\* The flags of commands that are not there yet are not there either.
FlagInv == FlagsTell /\ \A i : Needs(i) \in flags => i \in Committed

\* No cursor passes the table, and the readers that keep one cursor have the same everywhere.
CursorInv ==
    /\ cursor \in [Channels -> Nat]
    /\ \A ch \in Channels : cursor[ch] <= Len(msgs)
    /\ reader \in {"heimdallr", "watch"} => \A ch, d \in Channels : cursor[ch] = cursor[d]

\* A notified channel has a message; a reader without a connection has nothing in hand, and
\* everything there then is shown or excused.
LinkInv ==
    /\ wire \in Seq(Channels) /\ held \in Seq(Channels)
    /\ \A ch \in ToSet(wire) \cup ToSet(held) : In(ch) # {}
    /\ link \in (IF reader \in {"none", "poller"} THEN {"on"} ELSE IF reader \in {"watch", "coordinator"} THEN {"off", "on"}
                 ELSE {"off", "seeded", "on"})
    /\ link = "off" => work = <<>> /\ doing = 0 /\ wire = <<>> /\ held = <<>> /\ Committed \subseteq ToSet(shown) \cup excused
    /\ doing # 0 => doing \in Committed

\* The rows in the hand of grove_serve are in the order of their ids, and beyond its cursor.
WorkInv ==
    /\ reader = "listen" => work \in Seq(Channels)
    /\ reader = "watch" =>
         /\ work \in Seq(Nat)
         /\ \A j, k \in 1 .. Len(work) : j < k => work[j] < work[k]
         /\ \A k \in 1 .. Len(work) : work[k] \in Committed /\ \A ch \in Channels : cursor[ch] < work[k]

\* What a reader has shown is committed, and not beyond its cursor unless it began without one.
ShownInv ==
    /\ shown \in Seq(Nat) /\ \A k \in 1 .. Len(shown) : shown[k] \in Committed
    /\ reader \in Streams /\ ~unseeded => \A k \in 1 .. Len(shown) : shown[k] <= cursor[msgs[shown[k]].ch]

\* What a reader will not ask for again it has shown, has in hand or could not see.
GapInv == reader \in Streams =>
    \A i \in Committed : Wanted(i) /\ Passed(i) =>
        i \in ToSet(shown) \cup excused \/ (reader = "watch" /\ i \in ToSet(work))

\* All of it about the reader, and about Grove.
ReaderInv == CursorInv /\ LinkInv /\ WorkInv /\ ShownInv /\ ShownInOrder /\ GapInv /\ NewestHandled
GroveInv == TableInv /\ FlagInv /\ ReaderInv

-----------------------------------------------------------------------------
(* The flags.                                                              *)

LEMMA CommittedIs ==
    ASSUME TableInv
    PROVE  /\ msgs \in Seq(Messages) /\ Len(msgs) \in Nat /\ Committed = {i \in 1 .. Len(msgs) : msgs[i].st = "in"}
           /\ \A i \in 1 .. Len(msgs) : msgs[i] \in Messages
<1>1. msgs \in Seq(Messages)
  BY DEF TableInv
<1>2. Ids = 1 .. Len(msgs) /\ Len(msgs) \in Nat
  BY <1>1, IdsAre
<1> QED BY <1>1, <1>2 DEF Committed

LEMMA OthersPending ==
    ASSUME NEW c \in Clients, \A d \in Clients \ {c} : call'[d] = call[d], NEW k, NEW x, Pending(k, x), call[c].id # k \/ ~At(c, x)
    PROVE  Pending(k, x)'
BY DEF Pending, At

LEMMA FlagsKept ==
    ASSUME TableInv, FlagInv, Later, Committed \subseteq Committed',
           \A i \in Committed' \ Committed : msgs'[i].kind \in {"answer", "heartbeat"},
           \A i : Needs(i) \in flags' <=> Needs(i) \in flags,
           overtaken \subseteq overtaken', interrupted \subseteq interrupted',
           \A k \in Committed : \A x \in {"raise", "clear"} : Pending(k, x) => Pending(k, x)' \/ k \in interrupted'
    PROVE  FlagInv'
<1>1. \A i \in Committed : SameText(i)
  BY CommittedIs DEF Later
<1>2. \A i : Answers(i)' = Answers(i)
  BY <1>1 DEF Answers, SameText
<1>3. \A i \in Committed' : msgs'[i].kind = "command" => i \in Committed /\ msgs[i].kind = "command"
  BY <1>1 DEF SameText
<1>4. \A i : Answers(i) \subseteq Committed
  BY DEF Answers
<1>5. FlagsTell'
  <2> SUFFICES ASSUME NEW i \in Committed', msgs'[i].kind = "command"
               PROVE IF Needs(i) \in flags'
                     THEN \A k \in Answers(i)' : Pending(k, "clear")' \/ k \in interrupted' \/ i \in overtaken'
                     ELSE Answers(i)' # {} \/ Pending(i, "raise")' \/ i \in interrupted'
    BY DEF FlagsTell, Needs
  <2>1. i \in Committed
        /\ IF Needs(i) \in flags
           THEN \A k \in Answers(i) : Pending(k, "clear") \/ k \in interrupted \/ i \in overtaken
           ELSE Answers(i) # {} \/ Pending(i, "raise") \/ i \in interrupted
    BY <1>3 DEF FlagInv, FlagsTell
  <2>2. CASE Needs(i) \in flags
    <3>1. Needs(i) \in flags'
      BY <2>2
    <3> QED BY <1>2, <1>4, <2>1, <2>2, <3>1
  <2>3. CASE Needs(i) \notin flags
    <3>1. Needs(i) \notin flags'
      BY <2>3
    <3> QED BY <1>2, <2>1, <2>3, <3>1
  <2> QED BY <2>2, <2>3
<1>6. (\A i : Needs(i) \in flags => i \in Committed)'
  BY DEF FlagInv, Needs
<1> QED BY <1>5, <1>6 DEF FlagInv

LEMMA Raising == ASSUME TableInv, FlagInv, NEW c \in Clients, RaiseFlag(c) PROVE FlagInv'
<1> DEFINE n == call[c].id
<1>1. call \in [Clients -> Slots] /\ call[c].step = "raise" /\ SlotOk(c) /\ UNCHANGED <<msgs, interrupted>> /\ Done(c)
  BY DEF TableInv, RaiseFlag, At
<1>2. n \in Committed /\ msgs[n].kind = "command"
  BY <1>1, CommittedIs DEF SlotOk
<1>3. flags' = flags \cup {Needs(n)} /\ overtaken \subseteq overtaken' /\ (n \in overtaken' \/ \A k \in Answers(n) : Pending(k, "clear"))
  BY DEF RaiseFlag
<1>4. \A d \in Clients \ {c} : call'[d] = call[d]
  BY <1>1 DEF Done
<1>5. \A k, x : Pending(k, x) /\ (k # n \/ x # "raise") => Pending(k, x)'
  BY <1>1, <1>4, OthersPending DEF At
<1> HIDE DEF n
<1>6. Committed' = Committed /\ \A i : Answers(i)' = Answers(i)
  BY <1>1 DEF Answers, Committed, Ids
<1>7. \A i : Needs(i) \in flags' <=> Needs(i) \in flags \/ i = n
  BY <1>3 DEF Needs
<1>8. FlagsTell'
  <2> SUFFICES ASSUME NEW i \in Committed, msgs[i].kind = "command"
               PROVE IF Needs(i) \in flags'
                     THEN \A k \in Answers(i) : Pending(k, "clear")' \/ k \in interrupted \/ i \in overtaken'
                     ELSE Answers(i) # {} \/ Pending(i, "raise")' \/ i \in interrupted
    BY <1>1, <1>6 DEF FlagsTell, Needs
  <2>1. IF Needs(i) \in flags
        THEN \A k \in Answers(i) : Pending(k, "clear") \/ k \in interrupted \/ i \in overtaken
        ELSE Answers(i) # {} \/ Pending(i, "raise") \/ i \in interrupted
    BY DEF FlagInv, FlagsTell
  <2>2. CASE i = n
    BY <1>3, <1>5, <1>7, <2>2
  <2>3. CASE i # n
    BY <1>3, <1>5, <1>7, <2>1, <2>3
  <2> QED BY <2>2, <2>3
<1>9. (\A i : Needs(i) \in flags => i \in Committed)'
  BY <1>2, <1>6, <1>7 DEF FlagInv, Needs
<1> QED BY <1>8, <1>9 DEF FlagInv

LEMMA Clearing == ASSUME TableInv, FlagInv, NEW c \in Clients, ClearFlag(c) PROVE FlagInv'
<1> DEFINE n == call[c].id
           r == call[c].re
<1>1. call \in [Clients -> Slots] /\ call[c].step = "clear" /\ SlotOk(c) /\ UNCHANGED <<msgs, interrupted, overtaken>> /\ Done(c)
  BY DEF TableInv, ClearFlag, At
<1>2. n \in Committed /\ n \in Answers(r)
  BY <1>1, CommittedIs DEF SlotOk, Answers
<1>3. flags' = flags \ {Needs(r)}
  BY DEF ClearFlag
<1>4. \A d \in Clients \ {c} : call'[d] = call[d]
  BY <1>1 DEF Done
<1>5. \A k, x : Pending(k, x) /\ (k # n \/ x # "clear") => Pending(k, x)'
  BY <1>1, <1>4, OthersPending DEF At
<1> HIDE DEF n, r
<1>6. Committed' = Committed /\ \A i : Answers(i)' = Answers(i)
  BY <1>1 DEF Answers, Committed, Ids
<1>7. \A i : Needs(i) \in flags' <=> Needs(i) \in flags /\ i # r
  BY <1>3 DEF Needs
<1>8. \A i : n \in Answers(i) => i = r
  BY <1>2 DEF Answers
<1>9. FlagsTell'
  <2> SUFFICES ASSUME NEW i \in Committed, msgs[i].kind = "command"
               PROVE IF Needs(i) \in flags'
                     THEN \A k \in Answers(i) : Pending(k, "clear")' \/ k \in interrupted \/ i \in overtaken
                     ELSE Answers(i) # {} \/ Pending(i, "raise")' \/ i \in interrupted
    BY <1>1, <1>6 DEF FlagsTell, Needs
  <2>1. IF Needs(i) \in flags
        THEN \A k \in Answers(i) : Pending(k, "clear") \/ k \in interrupted \/ i \in overtaken
        ELSE Answers(i) # {} \/ Pending(i, "raise") \/ i \in interrupted
    BY DEF FlagInv, FlagsTell
  <2>2. CASE i = r
    BY <1>2, <1>7, <2>2
  <2>3. CASE i # r
    BY <1>5, <1>7, <1>8, <2>1, <2>3
  <2> QED BY <2>2, <2>3
<1>10. (\A i : Needs(i) \in flags => i \in Committed)'
  BY <1>6, <1>7 DEF FlagInv, Needs
<1> QED BY <1>9, <1>10 DEF FlagInv

LEMMA CommitsFlags == ASSUME TableInv, FlagInv, NEW c \in Clients, Commit(c) PROVE FlagInv'
<1> DEFINE n == call[c].id
<1>1. /\ Later /\ Committed' = Committed \cup {n} /\ n \in 1 .. Len(msgs) /\ n \notin Committed /\ call[c].step = "commit"
      /\ msgs[n].kind = call[c].kind /\ TableInv'
  BY Committing
<1>2. call \in [Clients -> Slots] /\ Done(c) /\ UNCHANGED <<flags, interrupted, overtaken>> /\ msgs[n].re = call[c].re
  BY <1>1 DEF TableInv, Commit, SlotOk
<1>3. \A d \in Clients \ {c} : call'[d] = call[d]
  BY <1>2 DEF Done
<1>4. \A k, x : Pending(k, x) /\ x # "commit" => Pending(k, x)'
  BY <1>1, <1>3, OthersPending DEF At
<1>5. \A i \in Committed \cup {n} : SameText(i)
  BY <1>1, CommittedIs DEF Later
<1>6. \A k, x : k = n /\ (\/ x = "raise" /\ call[c].kind = "command"
                          \/ x = "clear" /\ call[c].kind \in {"ack", "reply"}) => Pending(k, x)'
  <2>1. /\ call[c].kind = "command" => After(call[c].kind, call[c].step) = "raise"
        /\ call[c].kind \in {"ack", "reply"} => After(call[c].kind, call[c].step) = "clear"
    BY <1>1 DEF After
  <2>2. call[c].kind \in {"command", "ack", "reply"} =>
          call'[c].id = n /\ call'[c].step = After(call[c].kind, call[c].step)
    <3> SUFFICES ASSUME call[c].kind \in {"command", "ack", "reply"}
                 PROVE call'[c].id = n /\ call'[c].step = After(call[c].kind, call[c].step)
      OBVIOUS
    <3>1. call' = [call EXCEPT ![c] = [call[c] EXCEPT !.step = After(call[c].kind, call[c].step)]]
      BY <1>2, <2>1 DEF Done
    <3>2. call'[c] = [call[c] EXCEPT !.step = After(call[c].kind, call[c].step)]
      BY <1>2, <3>1
    <3>3. call[c] \in Slots
      BY <1>2
    <3> QED BY <3>2, <3>3 DEF Slots
  <2> QED BY <2>1, <2>2 DEF Pending, At
<1> HIDE DEF n
<1>7. \A i : \A k \in Answers(i)' : k \in Answers(i) \/ (k = n /\ call[c].kind \in {"ack", "reply"})
  BY <1>1, <1>5 DEF Answers, SameText
<1>8. \A i : Answers(i) \subseteq Answers(i)'
  BY <1>1, <1>5 DEF Answers, SameText
<1>9. Needs(n) \notin flags
  BY <1>1 DEF FlagInv
<1>10. FlagsTell'
  <2> SUFFICES ASSUME NEW i \in Committed', msgs'[i].kind = "command"
               PROVE IF Needs(i) \in flags
                     THEN \A k \in Answers(i)' : Pending(k, "clear")' \/ k \in interrupted \/ i \in overtaken
                     ELSE Answers(i)' # {} \/ Pending(i, "raise")' \/ i \in interrupted
    BY <1>2 DEF FlagsTell, Needs
  <2>1. msgs[i].kind = "command" /\ (i \in Committed \/ i = n)
    BY <1>1, <1>5 DEF SameText
  <2>2. CASE i = n
    <3>1. call[c].kind = "command"
      BY <1>1, <2>1, <2>2
    <3>2. Pending(i, "raise")'
      BY <1>6, <2>2, <3>1
    <3>3. Needs(i) \notin flags
      BY <1>9, <2>2
    <3> QED BY <3>2, <3>3
  <2>3. CASE i \in Committed
    <3>1. IF Needs(i) \in flags
          THEN \A k \in Answers(i) : Pending(k, "clear") \/ k \in interrupted \/ i \in overtaken
          ELSE Answers(i) # {} \/ Pending(i, "raise") \/ i \in interrupted
      BY <2>1, <2>3 DEF FlagInv, FlagsTell
    <3> QED BY <1>4, <1>6, <1>7, <1>8, <3>1
  <2> QED BY <2>1, <2>2, <2>3
<1>11. (\A i : Needs(i) \in flags => i \in Committed)'
  BY <1>1, <1>2 DEF FlagInv, Needs
<1> QED BY <1>10, <1>11 DEF FlagInv

LEMMA ClientFlags == ASSUME TableInv, FlagInv, NEW c \in Clients, Client(c) PROVE FlagInv'
<1>1. CASE Commit(c)
  BY <1>1, CommitsFlags
<1>2. CASE RaiseFlag(c)
  BY <1>2, Raising
<1>3. CASE ClearFlag(c)
  BY <1>3, Clearing
<1>4. CASE ~Commit(c) /\ ~RaiseFlag(c) /\ ~ClearFlag(c)
  <2>1. Later /\ Committed' = Committed
    BY <1>4, ClientTables DEF Talks
  <2>2. call \in [Clients -> Slots] /\ SlotOk(c)
    BY DEF TableInv
  <2>3. CASE Die(c)
    <3>1. /\ call' = [call EXCEPT ![c] = Idle] /\ UNCHANGED <<flags, overtaken>>
          /\ interrupted' = IF call[c].id \in Committed THEN interrupted \cup {call[c].id} ELSE interrupted
      BY <2>3 DEF Die
    <3>2. \A k \in Committed : \A x : Pending(k, x) => Pending(k, x)' \/ k \in interrupted'
      BY <2>2, <3>1, OthersPending
    <3> QED BY <2>1, <3>1, <3>2, FlagsKept DEF Needs
  <2>4. CASE ~Die(c)
    <3>1. \/ \E t, ch, re, addr : Calls(c, t, ch, re, addr)
          \/ CreateChannel(c) \/ Insert(c) \/ MarkRead(c)
      BY <1>4, <2>4 DEF Client, SendMessage, PostSigned, Heartbeat, BusSend, Reply, Ack
    <3>2. /\ ~At(c, "raise") /\ ~At(c, "clear") /\ UNCHANGED <<interrupted, overtaken>>
          /\ \A d \in Clients \ {c} : call'[d] = call[d]
          /\ \A i : Needs(i) \in flags' <=> Needs(i) \in flags
      <4>1. CASE \E t, ch, re, addr : Calls(c, t, ch, re, addr)
        BY <2>2, <4>1 DEF Calls, Takes, At, Needs
      <4>2. CASE CreateChannel(c)
        BY <2>2, <4>2 DEF CreateChannel, Done, At, Needs
      <4>3. CASE Insert(c)
        BY <2>2, <4>3 DEF Insert, Takes, At, Needs
      <4>4. CASE MarkRead(c)
        BY <2>2, <4>4 DEF MarkRead, Done, At, Needs
      <4> QED BY <3>1, <4>1, <4>2, <4>3, <4>4
    <3>3. \A k \in Committed : \A x \in {"raise", "clear"} : Pending(k, x) => Pending(k, x)'
      BY <3>2, OthersPending
    <3> QED BY <2>1, <3>2, <3>3, FlagsKept
  <2> QED BY <2>3, <2>4
<1> QED BY <1>1, <1>2, <1>3, <1>4
-----------------------------------------------------------------------------
(* Sets of messages and the rows of queries.                               *)

LEMMA NewestIs ==
    ASSUME NEW n \in Nat, NEW S \in SUBSET (0 .. n)
    PROVE  Newest(S) \in 0 .. n /\ (\A s \in S : s <= Newest(S)) /\ (S # {} => Newest(S) \in S)
<1>1. CASE S = {}
  BY <1>1 DEF Newest
<1>2. CASE S # {}
  <2>1. S \in SUBSET Nat /\ \A s \in S : s <= n
    OBVIOUS
  <2>2. \E m \in S : \A s \in S : s <= m
    BY <1>2, <2>1, NatMax
  <2>3. \E m \in S : \A s \in S : m >= s
    BY <2>2
  <2>4. Max(S) \in S /\ \A s \in S : Max(S) >= s
    BY <2>3 DEF Max
  <2> QED BY <1>2, <2>1, <2>4 DEF Newest
<1> QED BY <1>1, <1>2

LEMMA AllRows ==
    ASSUME NEW n \in Nat, NEW U \in SUBSET (1 .. n)
    PROVE  /\ Sorted(U) \in Seq(U) /\ Len(Sorted(U)) \in Nat
           /\ \A i, j \in 1 .. Len(Sorted(U)) : i < j <=> Sorted(U)[i] < Sorted(U)[j]
           /\ \A u \in U : \E i \in 1 .. Len(Sorted(U)) : Sorted(U)[i] = u
<1>1. IsFiniteSet(1 .. n)
  BY FS_Interval
<1>2. U \in SUBSET Nat /\ IsFiniteSet(U)
  <2>1. U \in SUBSET Nat
    OBVIOUS
  <2> QED BY <1>1, <2>1, FS_Subset
<1>3. /\ Sorted(U) \in Seq(U) /\ Len(Sorted(U)) = Cardinality(U) /\ Cardinality(U) \in Nat
      /\ \A i, j \in 1 .. Cardinality(U) : i < j <=> Sorted(U)[i] < Sorted(U)[j]
      /\ \A m \in U : \E i \in 1 .. Cardinality(U) : Sorted(U)[i] = m
  BY <1>2, SortedIs
<1> QED BY <1>3

LEMMA RowsAre ==
    ASSUME NEW n \in Nat, NEW U \in SUBSET (1 .. n)
    PROVE  LET rows == Limit(Sorted(U))
           IN  /\ rows \in Seq(U) /\ Len(rows) \in Nat
               /\ \A i, j \in 1 .. Len(rows) : i < j <=> rows[i] < rows[j]
               /\ \A u \in U, k \in 1 .. Len(rows) : u <= rows[k] => \E j \in 1 .. k : rows[j] = u
<1> DEFINE rows == Limit(Sorted(U))
           s == Sorted(U)
           b == Min({Len(s), Batch})
<1>1. /\ s \in Seq(U) /\ Len(s) \in Nat
      /\ \A i, j \in 1 .. Len(s) : i < j <=> s[i] < s[j]
      /\ \A u \in U : \E i \in 1 .. Len(s) : s[i] = u
  BY AllRows
<1> HIDE DEF s
<1>2. b \in 0 .. Len(s)
  <2>1. \E x \in {Len(s), Batch} : \A y \in {Len(s), Batch} : x <= y
    BY <1>1, GroveAssumption
  <2>2. b \in {Len(s), Batch} /\ \A y \in {Len(s), Batch} : b <= y
    BY <2>1 DEF Min
  <2> QED BY <1>1, <2>2, GroveAssumption
<1>3. rows = SubSeq(s, 1, b)
  BY DEF Limit, s
<1> HIDE DEF b, rows
<1>4. rows \in Seq(U) /\ Len(rows) = b /\ \A j \in 1 .. b : rows[j] = s[j] /\ j \in 1 .. Len(s)
  BY <1>1, <1>2, <1>3
<1>5. \A u \in U, k \in 1 .. Len(rows) : u <= rows[k] => \E j \in 1 .. k : rows[j] = u
  <2> SUFFICES ASSUME NEW u \in U, NEW k \in 1 .. b, u <= rows[k] PROVE \E j \in 1 .. k : rows[j] = u
    BY <1>4
  <2>1. PICK i \in 1 .. Len(s) : s[i] = u
    BY <1>1
  <2>2. k \in 1 .. Len(s) /\ ~(s[k] < s[i])
    <3>1. s[i] <= s[k] /\ k \in 1 .. Len(s)
      BY <1>4, <2>1
    <3>2. s[i] \in U /\ s[k] \in U
      BY <1>1, <2>1, <3>1
    <3>3. s[i] \in Nat /\ s[k] \in Nat
      <4>1. \A x \in U : x \in Nat
        OBVIOUS
      <4> QED BY <3>2, <4>1
    <3> QED BY <3>1, <3>3
  <2>3. i <= k
    BY <1>1, <2>1, <2>2
  <2> QED BY <1>2, <1>4, <2>1, <2>3
<1>6. \A i, j \in 1 .. Len(rows) : i < j <=> rows[i] < rows[j]
  BY <1>1, <1>4
<1> QED BY <1>2, <1>4, <1>5, <1>6 DEF rows

\* The rows a reader shows are above its cursors and below the new ones.
LEMMA Showing ==
    ASSUME TableInv, ReaderInv, UNCHANGED <<msgs, reader>>, ~unseeded' => ~unseeded, NEW U \in SUBSET Committed, NEW rows \in Seq(U),
           \A j, k \in 1 .. Len(rows) : j < k => rows[j] < rows[k],
           shown' = shown \o rows,
           reader \in Streams => \A u \in U : cursor[msgs[u].ch] < u,
           reader \in Streams => \A k \in 1 .. Len(rows) : rows[k] <= cursor'[msgs[rows[k]].ch],
           cursor' \in [Channels -> Nat], reader \in Streams => \A ch \in Channels : cursor[ch] <= cursor'[ch]
    PROVE  /\ ShownInv' /\ (reader \in Streams => ShownInOrder')
           /\ \A i \in ToSet(shown) : i \in ToSet(shown')
           /\ \A k \in 1 .. Len(rows) : rows[k] \in ToSet(shown')
<1>1. Committed' = Committed /\ Committed \subseteq 1 .. Len(msgs) /\ Len(msgs) \in Nat /\ \A i \in Committed : msgs[i].ch \in Channels
  BY CommittedIs DEF Committed, Ids, Messages
<1>2. shown \in Seq(Nat) /\ rows \in Seq(Nat) /\ \A k \in 1 .. Len(rows) : rows[k] \in U /\ rows[k] \in Committed
  <2>1. \A k \in 1 .. Len(rows) : rows[k] \in U
    OBVIOUS
  <2>2. U \in SUBSET Nat
    BY <1>1
  <2>3. shown \in Seq(Nat)
    BY DEF ReaderInv, ShownInv
  <2>4. rows \in Seq(Nat)
    BY <2>2, WiderSequence
  <2>5. \A k \in 1 .. Len(rows) : rows[k] \in Committed
    BY <2>1
  <2> QED BY <2>1, <2>3, <2>4, <2>5
<1>3. /\ shown' \in Seq(Nat) /\ Len(shown') = Len(shown) + Len(rows) /\ Len(shown) \in Nat /\ Len(rows) \in Nat
      /\ \A j \in 1 .. Len(shown) : shown'[j] = shown[j]
      /\ \A j \in 1 .. Len(rows) : shown'[Len(shown) + j] = rows[j]
      /\ DOMAIN shown = 1 .. Len(shown) /\ DOMAIN shown' = 1 .. Len(shown')
  BY <1>2, Concatenated
<1>4. \A k \in 1 .. Len(shown') : \/ k \in 1 .. Len(shown) /\ shown'[k] = shown[k]
                                  \/ k - Len(shown) \in 1 .. Len(rows) /\ shown'[k] = rows[k - Len(shown)]
  <2> SUFFICES ASSUME NEW j \in 1 .. Len(shown'), j \notin 1 .. Len(shown)
               PROVE  j - Len(shown) \in 1 .. Len(rows) /\ shown'[j] = rows[j - Len(shown)]
    BY <1>3
  <2>1. j - Len(shown) \in 1 .. Len(rows) /\ Len(shown) + (j - Len(shown)) = j
    BY <1>3
  <2> QED BY <1>3, <2>1
<1>5. \A k \in 1 .. Len(shown) : shown[k] \in Committed
  BY DEF ReaderInv, ShownInv
<1>6. ASSUME reader \in Streams, ~unseeded'
      PROVE  \A k \in 1 .. Len(shown) : shown[k] <= cursor[msgs[shown[k]].ch]
  BY <1>6 DEF ReaderInv, ShownInv
<1>7. cursor \in [Channels -> Nat]
  BY DEF ReaderInv, CursorInv
<1>8. ShownInv'
  <2>1. \A k \in 1 .. Len(shown') : shown'[k] \in Committed
    BY <1>2, <1>4, <1>5
  <2>2. ASSUME reader \in Streams, ~unseeded', NEW k \in 1 .. Len(shown') PROVE shown'[k] <= cursor'[msgs[shown'[k]].ch]
    <3>1. CASE k \in 1 .. Len(shown) /\ shown'[k] = shown[k]
      <4> DEFINE i == shown[k]
      <4>1. i \in Nat /\ msgs[i].ch \in Channels /\ i <= cursor[msgs[i].ch]
        BY <1>1, <1>2, <1>5, <1>6, <2>2, <3>1
      <4>2. cursor[msgs[i].ch] <= cursor'[msgs[i].ch] /\ cursor[msgs[i].ch] \in Nat /\ cursor'[msgs[i].ch] \in Nat
        BY <1>7, <2>2, <4>1
      <4> HIDE DEF i
      <4>3. i <= cursor'[msgs[i].ch]
        BY <4>1, <4>2
      <4> QED BY <3>1, <4>3 DEF i
    <3>2. CASE k - Len(shown) \in 1 .. Len(rows) /\ shown'[k] = rows[k - Len(shown)]
      BY <2>2, <3>2
    <3> QED BY <1>4, <3>1, <3>2
  <2> QED BY <1>1, <1>3, <2>1, <2>2 DEF ShownInv, Streams
<1>9. ASSUME reader \in Streams PROVE ShownInOrder'
  <2>1. SUFFICES ASSUME ~unseeded', NEW j \in 1 .. Len(shown'), NEW k \in 1 .. Len(shown'), j < k,
                        msgs[shown'[j]].ch = msgs[shown'[k]].ch
                 PROVE  shown'[j] < shown'[k]
    BY <1>3 DEF ShownInOrder
  <2>2. CASE j \in 1 .. Len(shown) /\ shown'[j] = shown[j] /\ k \in 1 .. Len(shown) /\ shown'[k] = shown[k]
    <3>1. ~unseeded /\ j \in DOMAIN shown /\ k \in DOMAIN shown
      BY <1>3, <2>1, <2>2
    <3> QED BY <1>9, <2>1, <2>2, <3>1 DEF ReaderInv, ShownInOrder
  <2>3. CASE j \in 1 .. Len(shown) /\ shown'[j] = shown[j]
             /\ k - Len(shown) \in 1 .. Len(rows) /\ shown'[k] = rows[k - Len(shown)]
    <3> DEFINE x == shown'[j]
               y == shown'[k]
    <3>1. y \in U /\ y \in Committed /\ y \in Nat
      BY <1>1, <1>2, <2>3
    <3>2. x \in Nat /\ x <= cursor[msgs[x].ch]
      BY <1>2, <1>6, <1>9, <2>1, <2>3
    <3>3. cursor[msgs[y].ch] < y /\ cursor[msgs[y].ch] \in Nat
      BY <1>1, <1>7, <1>9, <3>1
    <3>4. msgs[x].ch = msgs[y].ch
      BY <2>1
    <3> HIDE DEF x, y
    <3>5. x < y
      BY <3>1, <3>2, <3>3, <3>4
    <3> QED BY <3>5 DEF x, y
  <2>4. CASE j - Len(shown) \in 1 .. Len(rows) /\ k \in 1 .. Len(shown)
    BY <1>3, <2>1, <2>4
  <2>5. CASE /\ j - Len(shown) \in 1 .. Len(rows) /\ shown'[j] = rows[j - Len(shown)]
             /\ k - Len(shown) \in 1 .. Len(rows) /\ shown'[k] = rows[k - Len(shown)]
    <3>1. j - Len(shown) < k - Len(shown)
      BY <1>3, <2>1
    <3>2. rows[j - Len(shown)] < rows[k - Len(shown)]
      BY <2>5, <3>1
    <3> QED BY <2>5, <3>2
  <2> QED BY <1>4, <2>2, <2>3, <2>4, <2>5
<1>10. \A i \in ToSet(shown) : i \in ToSet(shown')
  BY <1>2, <1>3 DEF ToSet
<1>11. \A k \in 1 .. Len(rows) : rows[k] \in ToSet(shown')
  <2> TAKE k \in 1 .. Len(rows)
  <2>1. Len(shown) + k \in 1 .. Len(shown') /\ shown'[Len(shown) + k] = rows[k]
    BY <1>3
  <2> QED BY <1>3, <2>1 DEF ToSet
<1> QED BY <1>8, <1>9, <1>10, <1>11

\* Messages that become visible, and what the reader hears of them.
LEMMA Grown ==
    ASSUME TableInv, TableInv', ReaderInv, Later, Committed \subseteq Committed', excused \subseteq excused',
           UNCHANGED <<reader, cursor, work, shown, unseeded>>, doing' \in {0, doing},
           link' = link \/ (link = "seeded" /\ link' = "on"), link = "off" => UNCHANGED <<wire, held>>,
           wire' \in Seq(Channels), held' \in Seq(Channels),
           reader = "coordinator" => ToSet(wire) \cup ToSet(held) \subseteq ToSet(wire') \cup ToSet(held'),
           \A ch \in ToSet(wire') \cup ToSet(held') :
               ch \in ToSet(wire) \cup ToSet(held) \/ \E i \in Committed' : msgs'[i].ch = ch,
           \A i \in Committed' \ Committed :
               /\ link = "off" => i \in excused'
               /\ reader \in Streams /\ Passed(i)' => i \in excused'
               /\ reader = "coordinator" /\ msgs'[i].addr => i \in excused' \/ msgs'[i].ch \in ToSet(wire')
    PROVE  ReaderInv'
<1>1. /\ Committed \subseteq 1 .. Len(msgs) /\ Len(msgs) \in Nat /\ \A i \in Committed : SameText(i) /\ msgs[i].ch \in Channels
      /\ Len(msgs') \in Nat /\ Len(msgs) <= Len(msgs')
  <2>1. Committed \subseteq 1 .. Len(msgs) /\ Len(msgs) \in Nat /\ \A i \in Committed : msgs[i].ch \in Channels
    BY CommittedIs DEF Messages
  <2> QED BY <2>1 DEF Later
<1>2. CursorInv'
  BY <1>1 DEF ReaderInv, CursorInv
<1>3. \A ch : In(ch) \subseteq In(ch)'
  BY <1>1 DEF In, SameText
<1>4. LinkInv'
  <2>1. \A ch \in ToSet(wire') \cup ToSet(held') : In(ch)' # {}
    <3> TAKE ch \in ToSet(wire') \cup ToSet(held')
    <3>1. CASE ch \in ToSet(wire) \cup ToSet(held)
      <4>1. In(ch) # {}
        BY <3>1 DEF ReaderInv, LinkInv
      <4> QED BY <1>3, <4>1
    <3>2. CASE \E i \in Committed' : msgs'[i].ch = ch
      BY <3>2 DEF In
    <3> QED BY <3>1, <3>2
  <2>2. /\ link' \in (IF reader \in {"none", "poller"} THEN {"on"} ELSE IF reader \in {"watch", "coordinator"} THEN {"off", "on"}
                      ELSE {"off", "seeded", "on"})
        /\ link' = "off" => link = "off"
    BY DEF ReaderInv, LinkInv
  <2>3. link' = "off" => work' = <<>> /\ doing' = 0 /\ wire' = <<>> /\ held' = <<>> /\ Committed' \subseteq ToSet(shown') \cup excused'
    BY <2>2 DEF ReaderInv, LinkInv
  <2>4. doing' # 0 => doing' \in Committed'
    BY DEF ReaderInv, LinkInv
  <2> QED BY <2>1, <2>2, <2>3, <2>4 DEF LinkInv
<1>5. WorkInv'
  BY DEF ReaderInv, WorkInv
<1>6. ShownInv'
  <2>1. shown \in Seq(Nat) /\ \A k \in 1 .. Len(shown) : shown[k] \in Committed
    BY DEF ReaderInv, ShownInv
  <2>2. ASSUME reader \in Streams, ~unseeded, NEW k \in 1 .. Len(shown) PROVE shown[k] <= cursor[msgs'[shown[k]].ch]
    <3>1. shown[k] <= cursor[msgs[shown[k]].ch] /\ SameText(shown[k])
      BY <1>1, <2>1, <2>2 DEF ReaderInv, ShownInv
    <3> QED BY <3>1 DEF SameText
  <2> QED BY <2>1, <2>2 DEF ShownInv, Streams
<1>7. ShownInOrder'
  <2> SUFFICES ASSUME reader \in Streams, ~unseeded, NEW j \in DOMAIN shown, NEW k \in DOMAIN shown, j < k,
                      msgs'[shown[j]].ch = msgs'[shown[k]].ch
               PROVE  shown[j] < shown[k]
    BY DEF ShownInOrder, Streams
  <2>1. shown \in Seq(Nat) /\ shown[j] \in Committed /\ shown[k] \in Committed
    BY DEF ReaderInv, ShownInv
  <2>2. SameText(shown[j]) /\ SameText(shown[k])
    BY <1>1, <2>1
  <2>3. msgs[shown[j]].ch = msgs[shown[k]].ch
    BY <2>2 DEF SameText
  <2> QED BY <2>3 DEF ReaderInv, ShownInOrder
<1>8. GapInv'
  <2> SUFFICES ASSUME reader \in Streams, NEW i \in Committed', Wanted(i)', Passed(i)'
               PROVE i \in ToSet(shown) \cup excused' \/ (reader = "watch" /\ i \in ToSet(work))
    BY DEF GapInv, Streams
  <2>1. CASE i \notin Committed
    BY <2>1
  <2>2. CASE i \in Committed
    <3>1. Wanted(i) /\ Passed(i)
      BY <1>1, <2>2 DEF Wanted, Passed, SameText
    <3> QED BY <2>2, <3>1 DEF ReaderInv, GapInv
  <2> QED BY <2>1, <2>2
<1>9. NewestHandled'
  <2> SUFFICES ASSUME reader = "coordinator", NEW i \in Committed', msgs'[i].addr, i \notin excused'
               PROVE \/ msgs'[i].ch \in ToSet(wire') \cup ToSet(held')
                     \/ i \in ToSet(shown) \/ \E j \in Committed' : msgs'[j].ch = msgs'[i].ch /\ j > i
    BY DEF NewestHandled, In
  <2>1. CASE i \notin Committed
    BY <2>1
  <2>2. CASE i \in Committed
    <3>1. msgs[i].addr /\ i \notin excused /\ msgs'[i].ch = msgs[i].ch
      BY <1>1, <2>2 DEF SameText
    <3>2. msgs[i].ch \in ToSet(wire) \cup ToSet(held) \/ i \in ToSet(shown) \/ \E j \in In(msgs[i].ch) : j > i
      BY <2>2, <3>1 DEF ReaderInv, NewestHandled
    <3>3. CASE \E j \in In(msgs[i].ch) : j > i
      <4>1. PICK j \in In(msgs[i].ch) : j > i
        BY <3>3
      <4>2. j \in Committed' /\ msgs'[j].ch = msgs'[i].ch
        BY <1>1, <3>1, <4>1 DEF In, SameText
      <4> QED BY <4>1, <4>2
    <3> QED BY <3>1, <3>2, <3>3
  <2> QED BY <2>1, <2>2
<1> QED BY <1>2, <1>4, <1>5, <1>6, <1>7, <1>8, <1>9 DEF ReaderInv

LEMMA OneMember == ASSUME NEW S, NEW r \in Seq(S), NEW x \in S PROVE ToSet(Append(r, x)) = ToSet(r) \cup {x}
<1>1. DOMAIN Append(r, x) = 1 .. Len(r) + 1 /\ DOMAIN r = 1 .. Len(r) /\ Len(r) \in Nat
  BY Appended
<1>2. \A y : y \in ToSet(Append(r, x)) <=> \E j \in 1 .. Len(r) + 1 : y = Append(r, x)[j]
  BY <1>1 DEF ToSet
<1>3. \A y : y \in ToSet(r) <=> \E j \in 1 .. Len(r) : y = r[j]
  BY <1>1 DEF ToSet
<1>4. (\A j \in 1 .. Len(r) : Append(r, x)[j] = r[j]) /\ Append(r, x)[Len(r) + 1] = x
  BY Appended
<1>5. \A j : j \in 1 .. Len(r) + 1 <=> j \in 1 .. Len(r) \/ j = Len(r) + 1
  BY <1>1
<1> QED BY <1>2, <1>3, <1>4, <1>5

LEMMA Members ==
    ASSUME NEW S, NEW r \in Seq(S), NEW s \in Seq(S)
    PROVE  ToSet(r) \subseteq S /\ ToSet(r \o s) = ToSet(r) \cup ToSet(s)
<1>1. ToSet(r) \subseteq S
  BY DEF ToSet
<1>3. ToSet(r \o s) = ToSet(r) \cup ToSet(s)
  <2> DEFINE q == r \o s
  <2>1. /\ q \in Seq(S) /\ Len(q) = Len(r) + Len(s) /\ Len(r) \in Nat /\ Len(s) \in Nat
        /\ \A j \in 1 .. Len(r) : q[j] = r[j]
        /\ \A j \in 1 .. Len(s) : q[Len(r) + j] = s[j]
    BY Concatenated
  <2>2. DOMAIN q = 1 .. Len(r) + Len(s) /\ DOMAIN r = 1 .. Len(r) /\ DOMAIN s = 1 .. Len(s)
    BY <2>1
  <2> HIDE DEF q
  <2>3. \A j \in 1 .. Len(r) + Len(s) : j \in 1 .. Len(r) \/ (j - Len(r) \in 1 .. Len(s) /\ Len(r) + (j - Len(r)) = j)
    BY <2>1
  <2>4. \A j \in 1 .. Len(s) : Len(r) + j \in 1 .. Len(r) + Len(s)
    BY <2>1
  <2>5. \A j \in 1 .. Len(r) : j \in 1 .. Len(r) + Len(s)
    BY <2>1
  <2>6. ToSet(q) \subseteq ToSet(r) \cup ToSet(s)
    <3> SUFFICES ASSUME NEW j \in 1 .. Len(r) + Len(s) PROVE q[j] \in ToSet(r) \cup ToSet(s)
      BY <2>2 DEF ToSet
    <3>1. CASE j \in 1 .. Len(r)
      BY <2>1, <2>2, <3>1 DEF ToSet
    <3>2. CASE j - Len(r) \in 1 .. Len(s) /\ Len(r) + (j - Len(r)) = j
      <4>1. q[j] = s[j - Len(r)]
        BY <2>1, <3>2
      <4> QED BY <2>2, <3>2, <4>1 DEF ToSet
    <3> QED BY <2>3, <3>1, <3>2
  <2>7. ToSet(r) \subseteq ToSet(q)
    BY <2>1, <2>2, <2>5 DEF ToSet
  <2>8. ToSet(s) \subseteq ToSet(q)
    <3> SUFFICES ASSUME NEW j \in 1 .. Len(s) PROVE s[j] \in ToSet(q)
      BY <2>2 DEF ToSet
    <3>1. q[Len(r) + j] = s[j] /\ Len(r) + j \in DOMAIN q
      BY <2>1, <2>2, <2>4
    <3> QED BY <3>1 DEF ToSet
  <2> QED BY <2>6, <2>7, <2>8 DEF q
<1> QED BY <1>1, <1>3

LEMMA ClientReader == ASSUME TableInv, ReaderInv, NEW c \in Clients, Client(c) PROVE ReaderInv'
<1>1. TableInv' /\ (Talks \/ Commit(c))
  BY ClientTables
<1>2. wire \in Seq(Channels) /\ held \in Seq(Channels)
  BY DEF ReaderInv, LinkInv
<1>3. CASE Talks
  <2>1. Later /\ Committed' = Committed /\ UNCHANGED <<reader, link, cursor, wire, held, work, doing, shown, excused, unseeded>>
    BY <1>3 DEF Talks, inbound, history
  <2> QED BY <1>1, <1>2, <2>1, Grown
<1>4. CASE Commit(c)
  <2> DEFINE n == call[c].id
             ch == call[c].ch
  <2>1. Later /\ Committed' = Committed \cup {n} /\ n \in 1 .. Len(msgs) /\ msgs[n].ch = ch
    BY <1>4, Committing
  <2>2. /\ UNCHANGED <<reader, link, cursor, held, work, doing, shown, unseeded>>
        /\ wire' = (IF Listening THEN Append(wire, ch) ELSE wire)
        /\ excused' = IF link = "off" \/ Passed(n) THEN excused \cup {n} ELSE excused
    BY <1>4 DEF Commit, Notify, Excuse
  <2>3. ch \in Channels
    BY DEF TableInv, Slots
  <2> HIDE DEF n, ch
  <2>4. msgs'[n].ch = ch
    BY <2>1 DEF Later, SameText
  <2>5. /\ wire' \in Seq(Channels) /\ ToSet(wire) \subseteq ToSet(wire') /\ ToSet(wire') \subseteq ToSet(wire) \cup {ch}
        /\ Listening => ch \in ToSet(wire')
    <3>1. CASE Listening
      <4>1. wire' = Append(wire, ch)
        BY <2>2, <3>1
      <4>2. Append(wire, ch) \in Seq(Channels) /\ ToSet(Append(wire, ch)) = ToSet(wire) \cup {ch}
        <5>1. Append(wire, ch) \in Seq(Channels)
          BY <1>2, <2>3, Appended
        <5>2. ToSet(Append(wire, ch)) = ToSet(wire) \cup {ch}
          BY <1>2, <2>3, OneMember
        <5> QED BY <5>1, <5>2
      <4> QED BY <4>1, <4>2
    <3>2. CASE ~Listening
      BY <1>2, <2>2, <3>2
    <3> QED BY <3>1, <3>2
  <2>6. \A d \in ToSet(wire') \cup ToSet(held') : d \in ToSet(wire) \cup ToSet(held) \/ \E i \in Committed' : msgs'[i].ch = d
    <3>1. n \in Committed' /\ held' = held /\ ToSet(wire') \subseteq ToSet(wire) \cup {ch}
      BY <2>1, <2>2, <2>5
    <3> QED BY <2>4, <3>1
  <2>7. \A i : i = n => Passed(i)' = Passed(i)
    BY <2>1, <2>2, <2>4 DEF Passed
  <2>8. link = "off" => n \in excused'
    BY <2>2
  <2>9. ASSUME NEW i, i = n, Passed(i)' PROVE i \in excused'
    BY <2>2, <2>7, <2>9
  <2>10. reader = "coordinator" => n \in excused' \/ msgs'[n].ch \in ToSet(wire')
    <3>1. reader = "coordinator" => link = "off" \/ Listening
      BY DEF ReaderInv, LinkInv, Listening
    <3>2. Listening => msgs'[n].ch \in ToSet(wire')
      BY <2>4, <2>5
    <3> QED BY <2>8, <3>1, <3>2
  <2>11. \A i \in Committed' \ Committed : i = n
    BY <2>1
  <2>12. \A i \in Committed' \ Committed :
           /\ link = "off" => i \in excused'
           /\ reader \in Streams /\ Passed(i)' => i \in excused'
           /\ reader = "coordinator" /\ msgs'[i].addr => i \in excused' \/ msgs'[i].ch \in ToSet(wire')
    BY <2>8, <2>9, <2>10, <2>11
  <2>13. /\ Committed \subseteq Committed' /\ excused \subseteq excused'
         /\ held' \in Seq(Channels) /\ ToSet(wire) \cup ToSet(held) \subseteq ToSet(wire') \cup ToSet(held')
    BY <1>2, <2>1, <2>2, <2>5
  <2>14. UNCHANGED <<reader, cursor, work, shown, unseeded>> /\ doing' = doing /\ link' = link /\ (link = "off" => UNCHANGED <<wire, held>>)
    BY <2>2 DEF Listening
  <2> QED BY <1>1, <2>1, <2>5, <2>6, <2>12, <2>13, <2>14, Grown
<1> QED BY <1>1, <1>3, <1>4

\* A step of a reader that leaves the tables alone, and one that posts.
LEMMA TablesStand ==
    ASSUME TableInv, FlagInv, UNCHANGED <<tables, call, reader, overtaken, interrupted>>
    PROVE  /\ TableInv' /\ FlagInv' /\ Committed' = Committed /\ \A ch : In(ch)' = In(ch)
<1>1. UNCHANGED <<chans, msgs, flags, call, reader, overtaken, interrupted>>
  BY DEF tables
<1>2. Later /\ Committed' = Committed
  BY <1>1, Unsettled DEF TableInv
<1>3. \A c : SlotOk(c)' <=> SlotOk(c)
  BY <1>1 DEF SlotOk
<1>4. TableInv'
  BY <1>1, <1>3 DEF TableInv
<1>5. \A k, x : Pending(k, x) => Pending(k, x)'
  BY <1>1 DEF Pending, At
<1>6. FlagInv'
  BY <1>1, <1>2, <1>5, FlagsKept DEF Needs
<1> QED BY <1>1, <1>2, <1>4, <1>6 DEF In

LEMMA Posting ==
    ASSUME TableInv, FlagInv, ReaderInv, NEW ch \in Channels, NEW kind \in {"answer", "heartbeat"}, NEW re \in Nat,
           Post(ch, kind, re), UNCHANGED <<chans, flags, call, reader, overtaken, interrupted>>
    PROVE  /\ TableInv' /\ FlagInv' /\ Later /\ Committed' = Committed \cup {Len(msgs) + 1}
           /\ msgs'[Len(msgs) + 1].ch = ch /\ ~msgs'[Len(msgs) + 1].addr
<1> DEFINE m == Message(ch, "willow", kind, re, FALSE, "in")
           n == Len(msgs) + 1
<1>1. m \in Messages /\ m.st = "in" /\ m.ch = ch /\ m.addr = FALSE /\ m.kind = kind /\ m.by = "willow"
  BY DEF Messages, Message, Kinds
<1>2. msgs \in Seq(Messages) /\ msgs' = Append(msgs, m)
  BY DEF TableInv, Post
<1> HIDE DEF m
<1>3. /\ Later /\ Len(msgs') = n /\ msgs'[n] = m /\ Committed' = Committed \cup {n}
      /\ \A i \in 1 .. Len(msgs) : msgs'[i] = msgs[i]
  BY <1>1, <1>2, Adding
<1> HIDE DEF n
<1>4. \A c \in Clients : SlotOk(c)'
  <2> TAKE c \in Clients
  <2>1. SlotOk(c) /\ call'[c] = call[c] /\ (call[c].id \in 1 .. Len(msgs) => msgs'[call[c].id].st = msgs[call[c].id].st)
    BY <1>3 DEF TableInv
  <2> QED BY <1>3, <2>1, SlotKept
<1>5. \A i \in 1 .. Len(msgs') : msgs'[i].by = "willow" => ~msgs'[i].addr /\ msgs'[i].kind \in {"answer", "heartbeat"}
  BY <1>1, <1>3, WillowKept DEF n
<1>6. TableInv'
  BY <1>3, <1>4, <1>5 DEF TableInv, Later
<1>7. \A k, x : Pending(k, x) => Pending(k, x)'
  BY DEF Pending, At
<1>8. \A i \in Committed' \ Committed : msgs'[i].kind \in {"answer", "heartbeat"}
  BY <1>1, <1>3
<1>9. FlagInv'
  <2>1. \A i : Needs(i) \in flags' <=> Needs(i) \in flags
    BY DEF Needs
  <2> QED BY <1>3, <1>7, <1>8, <2>1, FlagsKept
<1> QED BY <1>1, <1>3, <1>6, <1>9 DEF n

LEMMA PostsReader ==
    ASSUME TableInv, FlagInv, ReaderInv, NEW ch \in Channels, NEW kind \in {"answer", "heartbeat"}, NEW re \in Nat,
           Post(ch, kind, re), UNCHANGED <<chans, flags, call, reader, overtaken, interrupted>>,
           UNCHANGED <<cursor, work, shown, excused, unseeded>>, doing' \in {0, doing}, link # "off",
           link' = link \/ (link = "seeded" /\ link' = "on"),
           wire' \in Seq(Channels), held' \in Seq(Channels),
           reader = "coordinator" => ToSet(wire) \cup ToSet(held) \subseteq ToSet(wire') \cup ToSet(held'),
           ToSet(wire') \cup ToSet(held') \subseteq ToSet(wire) \cup ToSet(held) \cup {ch}
    PROVE  ReaderInv'
<1> DEFINE n == Len(msgs) + 1
<1>1. /\ TableInv' /\ Later /\ Committed' = Committed \cup {n} /\ msgs'[n].ch = ch /\ ~msgs'[n].addr
  BY Posting
<1>2. Len(msgs) \in Nat /\ Committed \subseteq 1 .. Len(msgs)
  BY CommittedIs
<1>3. n \in Nat /\ cursor[ch] \in Nat /\ cursor[ch] < n /\ (reader = "watch" => \A k \in ToSet(work) : k < n)
  <2>1. cursor[ch] \in Nat /\ cursor[ch] <= Len(msgs)
    BY DEF ReaderInv, CursorInv
  <2>2. reader = "watch" => \A k \in ToSet(work) : k \in Committed
    BY DEF ReaderInv, WorkInv, ToSet
  <2>3. n \in Nat /\ cursor[ch] < n
    BY <1>2, <2>1
  <2>4. \A k \in Committed : k < n
    BY <1>2
  <2> QED BY <2>1, <2>2, <2>3, <2>4
<1> HIDE DEF n
<1>4. ASSUME NEW i, i = n PROVE ~Passed(i)'
  <2>1. SUFFICES ASSUME i <= cursor[msgs'[i].ch] \/ (reader = "watch" /\ \E k \in ToSet(work) : k > i) PROVE FALSE
    BY DEF Passed
  <2>2. CASE i <= cursor[msgs'[i].ch]
    BY <1>1, <1>3, <1>4, <2>2
  <2>3. CASE reader = "watch" /\ \E k \in ToSet(work) : k > i
    <3>1. PICK k \in ToSet(work) : k > n /\ k < n
      BY <1>3, <1>4, <2>3
    <3>2. k \in Nat
      BY <1>2, <2>3 DEF ReaderInv, WorkInv, ToSet
    <3> QED BY <1>3, <3>1, <3>2
  <2> QED BY <2>1, <2>2, <2>3
<1>5. \A i \in Committed' \ Committed :
        /\ link = "off" => i \in excused'
        /\ reader \in Streams /\ Passed(i)' => i \in excused'
        /\ reader = "coordinator" /\ msgs'[i].addr => i \in excused' \/ msgs'[i].ch \in ToSet(wire')
  BY <1>1, <1>4
<1>6. \A d \in ToSet(wire') \cup ToSet(held') :
        d \in ToSet(wire) \cup ToSet(held) \/ \E i \in Committed' : msgs'[i].ch = d
  BY <1>1
<1>7. Committed \subseteq Committed' /\ excused \subseteq excused' /\ UNCHANGED <<reader, cursor, work, shown, unseeded>>
  BY <1>1
<1> QED BY <1>1, <1>5, <1>6, <1>7, Grown

\* The steps of readers that post.
LEMMA Listens == ASSUME TableInv, FlagInv, ReaderInv, Listen PROVE TableInv' /\ FlagInv' /\ ReaderInv'
<1>1. /\ link = "seeded" /\ link' = "on" /\ reader # "coordinator" /\ wire \in Seq(Channels) /\ held \in Seq(Channels)
      /\ UNCHANGED <<chans, flags, call, reader, overtaken, interrupted, cursor, wire, work, doing, shown, excused, unseeded>>
  BY DEF ReaderInv, LinkInv, Listen, Outside, history
<1>2. CASE Post(General, "heartbeat", 0) /\ held' = <<General>>
  <2>1. General \in Channels
    BY GroveAssumption
  <2>2. held' \in Seq(Channels) /\ ToSet(held') = {General}
    BY <1>2, <2>1 DEF ToSet
  <2>3. TableInv' /\ FlagInv'
    BY <1>1, <1>2, <2>1, Posting
  <2>4. ReaderInv'
    BY <1>1, <1>2, <2>1, <2>2, PostsReader
  <2> QED BY <2>3, <2>4
<1>3. CASE UNCHANGED <<msgs, held>>
  <2>1. TableInv' /\ FlagInv' /\ Committed' = Committed /\ Later
    BY <1>1, <1>3, TablesStand, Unsettled DEF tables, TableInv
  <2>2. ReaderInv'
    BY <1>1, <1>3, <2>1, Grown
  <2> QED BY <2>1, <2>2
<1> QED BY <1>2, <1>3 DEF Listen

LEMMA AnsweredIs ==
    ASSUME TableInv, ReaderInv, doing # 0
    PROVE  doing \in Nat /\ msgs[doing].ch \in Channels /\ link # "off"
<1>1. doing \in Committed /\ link # "off"
  BY DEF ReaderInv, LinkInv
<1> QED BY <1>1, CommittedIs DEF Messages

LEMMA WatchAnswered == ASSUME TableInv, FlagInv, ReaderInv, WatchAnswers PROVE TableInv' /\ FlagInv' /\ ReaderInv'
<1>1. /\ doing' = 0 /\ doing # 0 /\ reader = "watch" /\ wire \in Seq(Channels) /\ held \in Seq(Channels)
      /\ UNCHANGED <<chans, flags, call, reader, overtaken, interrupted, link, cursor, wire, held, work, shown, excused, unseeded>>
  BY DEF ReaderInv, LinkInv, WatchAnswers, Quiet, Outside
<1>2. doing \in Nat /\ msgs[doing].ch \in Channels /\ link # "off"
  BY <1>1, AnsweredIs
<1>3. CASE Post(msgs[doing].ch, "answer", doing)
  <2>1. TableInv' /\ FlagInv'
    BY <1>1, <1>2, <1>3, Posting
  <2>2. ReaderInv'
    BY <1>1, <1>2, <1>3, PostsReader
  <2> QED BY <2>1, <2>2
<1>4. CASE UNCHANGED msgs
  <2>1. TableInv' /\ FlagInv' /\ Committed' = Committed /\ Later
    BY <1>1, <1>4, TablesStand, Unsettled DEF tables, TableInv
  <2>2. ReaderInv'
    BY <1>1, <1>4, <2>1, Grown
  <2> QED BY <2>1, <2>2
<1> QED BY <1>3, <1>4 DEF WatchAnswers

LEMMA CoordinatorAnswered == ASSUME TableInv, FlagInv, ReaderInv, CoordinatorAnswers PROVE TableInv' /\ FlagInv' /\ ReaderInv'
<1>1. /\ doing' = 0 /\ doing # 0 /\ reader = "coordinator" /\ wire \in Seq(Channels) /\ held \in Seq(Channels)
      /\ UNCHANGED <<chans, flags, call, reader, overtaken, interrupted, link, cursor, held, work, shown, excused, unseeded>>
  BY DEF ReaderInv, LinkInv, CoordinatorAnswers, Quiet, Outside
<1>2. doing \in Nat /\ msgs[doing].ch \in Channels /\ link # "off"
  BY <1>1, AnsweredIs
<1>3. CASE Post(msgs[doing].ch, "answer", doing) /\ Notify(msgs[doing].ch)
  <2>1. TableInv' /\ FlagInv'
    BY <1>1, <1>2, <1>3, Posting
  <2>2. wire' = Append(wire, msgs[doing].ch) \/ wire' = wire
    BY <1>3 DEF Notify
  <2>3. wire' \in Seq(Channels) /\ ToSet(wire) \subseteq ToSet(wire') /\ ToSet(wire') \subseteq ToSet(wire) \cup {msgs[doing].ch}
    <3>1. CASE wire' = Append(wire, msgs[doing].ch)
      <4>1. Append(wire, msgs[doing].ch) \in Seq(Channels)
        BY <1>1, <1>2, Appended
      <4>2. ToSet(Append(wire, msgs[doing].ch)) = ToSet(wire) \cup {msgs[doing].ch}
        BY <1>1, <1>2, OneMember
      <4> QED BY <3>1, <4>1, <4>2
    <3> QED BY <1>1, <2>2, <3>1
  <2>4. ReaderInv'
    BY <1>1, <1>2, <1>3, <2>3, PostsReader
  <2> QED BY <2>1, <2>4
<1>4. CASE UNCHANGED <<msgs, wire>>
  <2>1. TableInv' /\ FlagInv' /\ Committed' = Committed /\ Later
    BY <1>1, <1>4, TablesStand, Unsettled DEF tables, TableInv
  <2>2. ReaderInv'
    BY <1>1, <1>4, <2>1, Grown
  <2> QED BY <2>1, <2>2
<1> QED BY <1>3, <1>4 DEF CoordinatorAnswers

-----------------------------------------------------------------------------
(* The steps of readers that read.                                         *)

LEMMA HeadAndTail ==
    ASSUME NEW S, NEW s \in Seq(S), s # <<>>
    PROVE  /\ Len(s) \in Nat /\ Head(s) \in S /\ Head(s) = s[1] /\ Tail(s) \in Seq(S) /\ Len(Tail(s)) = Len(s) - 1 /\ 1 \in 1 .. Len(s)
           /\ \A k \in 1 .. Len(s) - 1 : Tail(s)[k] = s[k + 1] /\ k + 1 \in 1 .. Len(s)
           /\ ToSet(s) = {Head(s)} \cup ToSet(Tail(s))
<1>1. /\ Len(s) \in Nat /\ Head(s) \in S /\ Head(s) = s[1] /\ Tail(s) \in Seq(S) /\ Len(Tail(s)) = Len(s) - 1 /\ 1 \in 1 .. Len(s)
      /\ \A k \in 1 .. Len(s) - 1 : Tail(s)[k] = s[k + 1] /\ k + 1 \in 1 .. Len(s)
  OBVIOUS
<1>2. DOMAIN s = 1 .. Len(s) /\ DOMAIN Tail(s) = 1 .. Len(s) - 1
  BY <1>1
<1>3. \A k \in 1 .. Len(s) : k = 1 \/ (k - 1 \in 1 .. Len(s) - 1 /\ (k - 1) + 1 = k)
  BY <1>1
<1>4. ToSet(s) \subseteq {Head(s)} \cup ToSet(Tail(s))
  <2> SUFFICES ASSUME NEW k \in 1 .. Len(s) PROVE s[k] \in {Head(s)} \cup ToSet(Tail(s))
    BY <1>2 DEF ToSet
  <2>1. CASE k - 1 \in 1 .. Len(s) - 1 /\ (k - 1) + 1 = k
    <3>1. s[k] = Tail(s)[k - 1]
      BY <1>1, <2>1
    <3> QED BY <1>2, <2>1, <3>1 DEF ToSet
  <2> QED BY <1>1, <1>3, <2>1
<1>5. {Head(s)} \cup ToSet(Tail(s)) \subseteq ToSet(s)
  <2>1. Head(s) \in ToSet(s)
    BY <1>1, <1>2 DEF ToSet
  <2>2. ASSUME NEW k \in 1 .. Len(s) - 1 PROVE Tail(s)[k] \in ToSet(s)
    BY <1>1, <1>2 DEF ToSet
  <2> QED BY <1>2, <2>1, <2>2 DEF ToSet
<1> QED BY <1>1, <1>4, <1>5

LEMMA FrontAndLast ==
    ASSUME NEW S, NEW s \in Seq(S), s # <<>>
    PROVE  Front(s) \in Seq(S) /\ Last(s) \in S /\ ToSet(s) = ToSet(Front(s)) \cup {Last(s)}
<1>1. /\ Len(s) \in Nat /\ Len(s) \in 1 .. Len(s) /\ Last(s) = s[Len(s)] /\ Front(s) \in Seq(S) /\ Len(Front(s)) = Len(s) - 1
      /\ \A k \in 1 .. Len(s) - 1 : Front(s)[k] = s[k] /\ k \in 1 .. Len(s)
  <2>1. Len(s) \in Nat /\ Len(s) \in 1 .. Len(s) /\ Last(s) = s[Len(s)]
    BY DEF Last
  <2>2. ASSUME NEW m \in Nat, m = Len(s) - 1
        PROVE  /\ SubSeq(s, 1, m) \in Seq(S) /\ Len(SubSeq(s, 1, m)) = m
               /\ \A k \in 1 .. m : SubSeq(s, 1, m)[k] = s[k] /\ k \in 1 .. Len(s)
    BY <2>1, <2>2
  <2>3. Len(s) - 1 \in Nat
    BY <2>1
  <2> QED BY <2>1, <2>2, <2>3 DEF Front
<1>2. DOMAIN s = 1 .. Len(s) /\ DOMAIN Front(s) = 1 .. Len(s) - 1
  BY <1>1
<1>3. \A k \in 1 .. Len(s) : k = Len(s) \/ k \in 1 .. Len(s) - 1
  BY <1>1
<1>4. ToSet(s) \subseteq ToSet(Front(s)) \cup {Last(s)}
  <2> SUFFICES ASSUME NEW k \in 1 .. Len(s) PROVE s[k] \in ToSet(Front(s)) \cup {Last(s)}
    BY <1>2 DEF ToSet
  <2>1. CASE k \in 1 .. Len(s) - 1
    BY <1>1, <1>2, <2>1 DEF ToSet
  <2> QED BY <1>1, <1>3, <2>1
<1>5. ToSet(Front(s)) \cup {Last(s)} \subseteq ToSet(s)
  <2>1. Last(s) \in ToSet(s)
    BY <1>1, <1>2 DEF ToSet
  <2>2. ASSUME NEW k \in 1 .. Len(s) - 1 PROVE Front(s)[k] \in ToSet(s)
    BY <1>1, <1>2 DEF ToSet
  <2> QED BY <1>2, <2>1, <2>2 DEF ToSet
<1> QED BY <1>1, <1>4, <1>5

\* What no step of a reader that reads changes.
Reads ==
    /\ UNCHANGED <<chans, msgs, flags, call, overtaken, interrupted, reader>>
    /\ Committed' = Committed /\ Committed \subseteq 1 .. Len(msgs) /\ Len(msgs) \in Nat
    /\ \A i \in Committed : msgs[i].ch \in Channels
    /\ \A ch : In(ch)' = In(ch)
    /\ \A i : Wanted(i)' = Wanted(i)

LEMMA ReadsAre ==
    ASSUME TableInv, FlagInv, UNCHANGED <<tables, Outside, reader>>
    PROVE  TableInv' /\ FlagInv' /\ Reads
<1>1. UNCHANGED <<chans, msgs, flags, call, overtaken, interrupted, reader>>
  BY DEF tables, Outside
<1>2. TableInv' /\ FlagInv' /\ Committed' = Committed /\ \A ch : In(ch)' = In(ch)
  BY <1>1, TablesStand DEF Outside
<1>3. Committed \subseteq 1 .. Len(msgs) /\ Len(msgs) \in Nat /\ \A i \in Committed : msgs[i].ch \in Channels
  BY CommittedIs DEF Messages
<1>4. \A i : Wanted(i)' = Wanted(i)
  BY <1>1 DEF Wanted
<1> QED BY <1>1, <1>2, <1>3, <1>4 DEF Reads

LEMMA NotifiedIs ==
    ASSUME Reads, ReaderInv, wire' \in Seq(Channels), held' \in Seq(Channels), UNCHANGED link,
           ToSet(wire') \cup ToSet(held') \subseteq ToSet(wire) \cup ToSet(held),
           doing' = 0 \/ doing' \in Committed, link # "off" 
    PROVE  LinkInv'
BY DEF Reads, ReaderInv, LinkInv

LEMMA Wakes == ASSUME TableInv, FlagInv, ReaderInv, ListenWakes PROVE ReaderInv'
<1>1. /\ reader = "listen" /\ link = "on" /\ UNCHANGED <<tables, Outside, reader, link, cursor, doing, shown, excused, unseeded>>
      /\ work' \in SetToSeqs(ToSet(held) \cup ToSet(wire)) /\ wire' = <<>> /\ held' = <<>>
  BY DEF ListenWakes, Quiet
<1>2. Reads
  BY <1>1, ReadsAre
<1>3. held \in Seq(Channels) /\ wire \in Seq(Channels) /\ (doing = 0 \/ doing \in Committed)
  BY DEF ReaderInv, LinkInv
<1>4. work' \in Seq(Channels)
  <2> DEFINE S == ToSet(held) \cup ToSet(wire)
  <2>1. S \in SUBSET Channels
    BY <1>3, Members
  <2>2. Cardinality(S) \in Nat
    <3>1. ASSUME NEW s \in Seq(Channels) PROVE IsFiniteSet(ToSet(s))
      <4>1. Len(s) \in Nat /\ DOMAIN s = 1 .. Len(s)
        OBVIOUS
      <4>2. IsFiniteSet(1 .. Len(s))
        BY <4>1, FS_Interval
      <4>3. [i \in 1 .. Len(s) |-> s[i]] \in Surjection(1 .. Len(s), ToSet(s))
        BY <4>1 DEF ToSet, Surjection
      <4> QED BY <4>2, <4>3, FS_Surjection
    <3>2. IsFiniteSet(S)
      BY <1>3, <3>1, FS_Union
    <3> QED BY <3>2, FS_CardinalityType
  <2> HIDE DEF S
  <2>3. work' \in [1 .. Cardinality(S) -> S]
    BY <1>1 DEF SetToSeqs, S
  <2>4. work' \in [1 .. Cardinality(S) -> Channels]
    BY <2>1, <2>3
  <2> QED BY <2>2, <2>4
<1>5. LinkInv'
  <2>1. wire' \in Seq(Channels) /\ held' \in Seq(Channels) /\ ToSet(wire') = {} /\ ToSet(held') = {}
    BY <1>1 DEF ToSet
  <2> QED BY <1>1, <1>2, <1>3, <2>1, NotifiedIs
<1>6. CursorInv' /\ WorkInv'
  BY <1>1, <1>2, <1>4 DEF ReaderInv, CursorInv, WorkInv, Reads
<1>7. ShownInv' /\ ShownInOrder'
  BY <1>1, <1>2 DEF ReaderInv, ShownInv, ShownInOrder, Streams, Reads
<1>8. GapInv'
  <2> SUFFICES ASSUME NEW i \in Committed, Wanted(i), i <= cursor[msgs[i].ch]
               PROVE i \in ToSet(shown) \cup excused
    BY <1>1, <1>2 DEF GapInv, Passed, Reads
  <2> QED BY <1>1 DEF ReaderInv, GapInv, Streams, Passed
<1>9. NewestHandled'
  BY <1>1 DEF NewestHandled
<1> QED BY <1>5, <1>6, <1>7, <1>8, <1>9 DEF ReaderInv

LEMMA Looks == ASSUME TableInv, FlagInv, ReaderInv, ListenLooks PROVE ReaderInv'
<1> DEFINE ch == Head(work)
           U  == Unread(ch)
           N  == Newest(U \cup {cursor[ch]})
<1>1. /\ reader = "listen" /\ work # <<>> /\ UNCHANGED <<tables, Outside, reader, link, doing, excused, unseeded>>
      /\ shown' = shown \o Sorted(U) /\ cursor' = [cursor EXCEPT ![ch] = N]
      /\ work' = Tail(work) /\ held' = held \o wire /\ wire' = <<>>
  BY DEF ListenLooks, Quiet
<1>2. Reads
  BY <1>1, ReadsAre
<1>3. held \in Seq(Channels) /\ wire \in Seq(Channels) /\ (doing = 0 \/ doing \in Committed) /\ link # "off" /\ work \in Seq(Channels)
  BY <1>1 DEF ReaderInv, LinkInv, WorkInv
<1>4. ch \in Channels /\ work' \in Seq(Channels)
  BY <1>1, <1>3, HeadAndTail
<1>5. cursor \in [Channels -> Nat] /\ cursor[ch] \in 0 .. Len(msgs)
  BY <1>2, <1>4 DEF ReaderInv, CursorInv, Reads
<1>6. U \in SUBSET Committed /\ U \in SUBSET (1 .. Len(msgs)) /\ \A u \in U : msgs[u].ch = ch /\ cursor[ch] < u
  BY <1>2, <1>5 DEF Unread, In, Reads
<1>7. N \in 0 .. Len(msgs) /\ cursor[ch] <= N /\ \A u \in U : u <= N
  <2> DEFINE V == U \cup {cursor[ch]}
  <2>1. V \in SUBSET (0 .. Len(msgs)) /\ Len(msgs) \in Nat
    BY <1>2, <1>5, <1>6 DEF Reads
  <2>2. Newest(V) \in 0 .. Len(msgs) /\ \A v \in V : v <= Newest(V)
    BY <2>1, NewestIs, Zenon
  <2> QED BY <2>2
<1>8. /\ Sorted(U) \in Seq(U) /\ Len(Sorted(U)) \in Nat
      /\ \A i, j \in 1 .. Len(Sorted(U)) : i < j <=> Sorted(U)[i] < Sorted(U)[j]
      /\ \A u \in U : \E i \in 1 .. Len(Sorted(U)) : Sorted(U)[i] = u
  <2>1. Len(msgs) \in Nat
    BY <1>2 DEF Reads
  <2> QED BY <1>6, <2>1, AllRows, Zenon
<1> HIDE DEF ch, U, N
<1>9. cursor'[ch] = N /\ cursor' \in [Channels -> Nat] /\ \A d \in Channels : d # ch => cursor'[d] = cursor[d]
  BY <1>1, <1>2, <1>4, <1>5, <1>7 DEF Reads
<1>10. \A d \in Channels : cursor[d] <= cursor'[d] /\ cursor'[d] <= Len(msgs)
  <2> TAKE d \in Channels
  <2>1. cursor[d] \in Nat /\ cursor[d] <= Len(msgs)
    BY <1>5 DEF ReaderInv, CursorInv
  <2>2. CASE d = ch
    BY <1>2, <1>7, <1>9, <2>2 DEF Reads
  <2>3. CASE d # ch
    BY <1>9, <2>1, <2>3
  <2> QED BY <2>2, <2>3
<1> DEFINE rows == Sorted(U)
<1>11. /\ \A k \in 1 .. Len(rows) : rows[k] \in U /\ rows[k] \in Nat
       /\ \A j, k \in 1 .. Len(rows) : j < k => rows[j] < rows[k]
  <2>1. \A k \in 1 .. Len(rows) : rows[k] \in U
    BY <1>8
  <2>2. \A u \in U : u \in Nat
    BY <1>2, <1>6 DEF Reads
  <2>3. \A k \in 1 .. Len(rows) : rows[k] \in Nat
    BY <2>1, <2>2
  <2> QED BY <1>8, <2>1, <2>3
<1>12. /\ ShownInv' /\ ShownInOrder'
       /\ \A i \in ToSet(shown) : i \in ToSet(shown')
       /\ \A u \in U : u \in ToSet(shown')
  <2>1. /\ UNCHANGED <<msgs, reader>> /\ (~unseeded' => ~unseeded) /\ rows \in Seq(U) /\ shown' = shown \o rows
        /\ \A u \in U : cursor[msgs[u].ch] < u
        /\ reader \in Streams
    BY <1>1, <1>2, <1>6, <1>8 DEF Reads, Streams
  <2>2. \A k \in 1 .. Len(rows) : rows[k] <= cursor'[msgs[rows[k]].ch]
    BY <1>6, <1>7, <1>9, <1>11
  <2> HIDE DEF rows
  <2>3. ShownInv' /\ ShownInOrder' /\ (\A i \in ToSet(shown) : i \in ToSet(shown')) /\ (\A k \in 1 .. Len(rows) : rows[k] \in ToSet(shown'))
    BY <1>6, <1>9, <1>10, <1>11, <2>1, <2>2, Showing
  <2>4. \A u \in U : u \in ToSet(shown')
    BY <1>8, <2>3 DEF rows
  <2> QED BY <2>3, <2>4
<1>13. LinkInv'
  <2>1. wire' \in Seq(Channels) /\ held' \in Seq(Channels) /\ ToSet(wire') = {} /\ ToSet(held') = ToSet(held) \cup ToSet(wire)
    <3>1. held \o wire \in Seq(Channels)
      BY <1>3, Concatenated
    <3>2. ToSet(held \o wire) = ToSet(held) \cup ToSet(wire)
      BY <1>3, Members
    <3>3. <<>> \in Seq(Channels) /\ ToSet(<<>>) = {}
      BY DEF ToSet
    <3> QED BY <1>1, <3>1, <3>2, <3>3
  <2> QED BY <1>1, <1>2, <1>3, <2>1, NotifiedIs
<1>14. CursorInv' /\ WorkInv'
  BY <1>1, <1>2, <1>4, <1>9, <1>10 DEF CursorInv, WorkInv, Reads
<1>15. GapInv'
  <2> SUFFICES ASSUME NEW i \in Committed, Wanted(i), i <= cursor'[msgs[i].ch]
               PROVE i \in ToSet(shown') \cup excused
    BY <1>1, <1>2 DEF GapInv, Passed, Reads
  <2>1. msgs[i].ch \in Channels /\ i \in Nat
    BY <1>2 DEF Reads
  <2>2. CASE i <= cursor[msgs[i].ch]
    <3>1. i \in ToSet(shown) \cup excused
      BY <1>1, <2>2 DEF ReaderInv, GapInv, Streams, Passed
    <3> QED BY <1>12, <3>1
  <2>3. CASE ~(i <= cursor[msgs[i].ch])
    <3>1. msgs[i].ch = ch
      BY <1>9, <2>1, <2>3
    <3>2. i \in U
      BY <1>5, <2>1, <2>3, <3>1 DEF U, Unread, In
    <3> QED BY <1>12, <3>2
  <2> QED BY <2>2, <2>3
<1>16. NewestHandled'
  BY <1>1 DEF NewestHandled
<1> QED BY <1>12, <1>13, <1>14, <1>15, <1>16 DEF ReaderInv

\* What a query that is cut off after Batch rows shows, and where the cursor goes.
LEMMA RowsShown ==
    ASSUME Reads, ReaderInv, NEW U \in SUBSET Committed, NEW rows, rows = Limit(Sorted(U))
    PROVE  /\ rows \in Seq(U) /\ Len(rows) \in Nat
           /\ \A k \in 1 .. Len(rows) : rows[k] \in U /\ rows[k] \in Nat
           /\ \A j, k \in 1 .. Len(rows) : j < k <=> rows[j] < rows[k]
           /\ \A u \in U, k \in 1 .. Len(rows) : u <= rows[k] => \E j \in 1 .. Len(rows) : rows[j] = u
           /\ rows # <<>> => Len(rows) \in 1 .. Len(rows) /\ Last(rows) = rows[Len(rows)]
                            /\ \A k \in 1 .. Len(rows) : rows[k] <= Last(rows)
<1>1. U \in SUBSET (1 .. Len(msgs)) /\ Len(msgs) \in Nat /\ \A u \in U : u \in Nat
  BY DEF Reads
<1>2. /\ rows \in Seq(U) /\ Len(rows) \in Nat
      /\ \A i, j \in 1 .. Len(rows) : i < j <=> rows[i] < rows[j]
      /\ \A u \in U, k \in 1 .. Len(rows) : u <= rows[k] => \E j \in 1 .. k : rows[j] = u
  BY <1>1, RowsAre
<1>3. \A k \in 1 .. Len(rows) : rows[k] \in U
  BY <1>2
<1>4. \A k \in 1 .. Len(rows) : rows[k] \in Nat
  BY <1>1, <1>3
<1>6. \A u \in U, k \in 1 .. Len(rows) : u <= rows[k] => \E j \in 1 .. Len(rows) : rows[j] = u
  <2> SUFFICES ASSUME NEW u \in U, NEW k \in 1 .. Len(rows), u <= rows[k] PROVE \E j \in 1 .. Len(rows) : rows[j] = u
    OBVIOUS
  <2>1. PICK j \in 1 .. k : rows[j] = u
    BY <1>2
  <2> QED BY <1>2, <2>1
<1>7. ASSUME rows # <<>> PROVE Len(rows) \in 1 .. Len(rows) /\ Last(rows) = rows[Len(rows)] /\ \A k \in 1 .. Len(rows) : rows[k] <= Last(rows)
  <2>1. Len(rows) \in 1 .. Len(rows) /\ Last(rows) = rows[Len(rows)]
    BY <1>2, <1>7 DEF Last
  <2>2. ASSUME NEW k \in 1 .. Len(rows) PROVE rows[k] <= rows[Len(rows)]
    <3>1. CASE k = Len(rows)
      BY <1>4, <2>1, <3>1
    <3>2. CASE k < Len(rows)
      <4>1. rows[k] < rows[Len(rows)]
        BY <1>2, <2>1, <3>2
      <4> QED BY <1>4, <2>1, <4>1
    <3> QED BY <1>2, <3>1, <3>2
  <2> QED BY <2>1, <2>2
<1> QED BY <1>2, <1>3, <1>4, <1>6, <1>7

LEMMA Heimdallr == ASSUME TableInv, FlagInv, ReaderInv, HeimdallrPolls PROVE ReaderInv'
<1> DEFINE U == {i \in Committed : i > cursor[General]}
           rows == Limit(Sorted(U))
<1>1. /\ reader = "heimdallr" /\ link = "on" /\ UNCHANGED <<tables, Outside, reader, link, held, work, doing, excused, unseeded>>
      /\ shown' = shown \o rows /\ cursor' = [ch \in Channels |-> IF rows = <<>> THEN cursor[ch] ELSE Last(rows)]
      /\ wire' = <<>>
  BY DEF HeimdallrPolls, Quiet
<1>2. Reads
  BY <1>1, ReadsAre
<1>3. held \in Seq(Channels) /\ wire \in Seq(Channels) /\ (doing = 0 \/ doing \in Committed)
  BY DEF ReaderInv, LinkInv
<1>4. General \in Channels /\ cursor \in [Channels -> Nat] /\ \A ch \in Channels : cursor[ch] = cursor[General] /\ cursor[ch] <= Len(msgs)
  BY <1>1, GroveAssumption DEF ReaderInv, CursorInv
<1>5. U \in SUBSET Committed /\ \A u \in U : u \in Nat /\ u \in 1 .. Len(msgs) /\ cursor[General] < u /\ msgs[u].ch \in Channels
  BY <1>2, <1>4 DEF Reads
<1>6. \A i \in Committed : i \in U \/ i <= cursor[General]
  BY <1>2, <1>4 DEF Reads
<1> HIDE DEF U
<1>7. /\ rows \in Seq(U) /\ Len(rows) \in Nat
      /\ \A k \in 1 .. Len(rows) : rows[k] \in U /\ rows[k] \in Nat
      /\ \A j, k \in 1 .. Len(rows) : j < k => rows[j] < rows[k]
      /\ \A u \in U, k \in 1 .. Len(rows) : u <= rows[k] => \E j \in 1 .. Len(rows) : rows[j] = u
      /\ rows # <<>> => Len(rows) \in 1 .. Len(rows) /\ Last(rows) = rows[Len(rows)]
                       /\ \A k \in 1 .. Len(rows) : rows[k] <= Last(rows)
  BY <1>2, <1>5, RowsShown
<1> HIDE DEF rows
<1>8. \A ch \in Channels : cursor'[ch] = cursor'[General] /\ cursor'[ch] \in Nat /\ cursor[ch] <= cursor'[ch] /\ cursor'[ch] <= Len(msgs)
  <2>1. CASE rows = <<>>
    BY <1>1, <1>4, <2>1
  <2>2. CASE rows # <<>>
    <3>1. Last(rows) \in U
      BY <1>7, <2>2
    <3>2. Last(rows) \in Nat /\ Last(rows) <= Len(msgs) /\ cursor[General] < Last(rows)
      <4>1. Last(rows) \in 1 .. Len(msgs) /\ cursor[General] < Last(rows)
        BY <1>5, <3>1
      <4>2. Len(msgs) \in Nat
        BY <1>2 DEF Reads
      <4> QED BY <4>1, <4>2
    <3>3. \A ch \in Channels : cursor'[ch] = Last(rows)
      BY <1>1, <2>2
    <3> QED BY <1>4, <3>2, <3>3
  <2> QED BY <2>1, <2>2
<1>9. cursor' \in [Channels -> Nat]
  BY <1>1, <1>8
<1>10. \A k \in 1 .. Len(rows) : rows # <<>> /\ rows[k] <= cursor'[msgs[rows[k]].ch]
  <2> TAKE k \in 1 .. Len(rows)
  <2>1. rows # <<>> /\ rows[k] <= Last(rows) /\ msgs[rows[k]].ch \in Channels
    BY <1>5, <1>7
  <2> QED BY <1>1, <2>1
<1>11. /\ ShownInv' /\ ShownInOrder'
       /\ \A i \in ToSet(shown) : i \in ToSet(shown')
       /\ \A k \in 1 .. Len(rows) : rows[k] \in ToSet(shown')
  <2>1. /\ UNCHANGED <<msgs, reader>> /\ (~unseeded' => ~unseeded) /\ reader \in Streams
        /\ \A u \in U : cursor[msgs[u].ch] < u
    <3>1. \A u \in U : cursor[msgs[u].ch] = cursor[General]
      BY <1>4, <1>5
    <3> QED BY <1>1, <1>2, <1>5, <3>1 DEF Reads, Streams
  <2> QED BY <1>1, <1>5, <1>7, <1>8, <1>9, <1>10, <2>1, Showing
<1>12. LinkInv'
  <2>1. wire' \in Seq(Channels) /\ held' \in Seq(Channels) /\ ToSet(wire') = {} /\ ToSet(held') = ToSet(held)
    <3>1. <<>> \in Seq(Channels) /\ ToSet(<<>>) = {}
      BY DEF ToSet
    <3> QED BY <1>1, <1>3, <3>1
  <2> QED BY <1>1, <1>2, <1>3, <2>1, NotifiedIs
<1>13. CursorInv' /\ WorkInv'
  BY <1>1, <1>2, <1>4, <1>8, <1>9 DEF CursorInv, WorkInv, Reads
<1>14. GapInv'
  <2> SUFFICES ASSUME NEW i \in Committed, Wanted(i), i <= cursor'[msgs[i].ch]
               PROVE i \in ToSet(shown') \cup excused
    BY <1>1, <1>2 DEF GapInv, Passed, Reads
  <2>1. msgs[i].ch \in Channels /\ i \in Nat
    BY <1>2 DEF Reads
  <2>2. CASE i <= cursor[msgs[i].ch]
    <3>1. i \in ToSet(shown) \cup excused
      BY <1>1, <2>2 DEF ReaderInv, GapInv, Streams, Passed
    <3> QED BY <1>11, <3>1
  <2>3. CASE ~(i <= cursor[msgs[i].ch])
    <3>1. i \in U
      BY <1>4, <1>6, <2>1, <2>3
    <3>2. rows # <<>> /\ i <= Last(rows)
      BY <1>1, <2>1, <2>3
    <3>3. \E j \in 1 .. Len(rows) : rows[j] = i
      BY <1>7, <3>1, <3>2
    <3> QED BY <1>11, <3>3
  <2> QED BY <2>2, <2>3
<1>15. NewestHandled'
  BY <1>1 DEF NewestHandled
<1> QED BY <1>11, <1>12, <1>13, <1>14, <1>15 DEF ReaderInv

LEMMA Poller == ASSUME TableInv, FlagInv, ReaderInv, PollerPolls PROVE ReaderInv'
<1>1. PICK ch \in chans :
        LET rows == Limit(Sorted({i \in Unread(ch) : msgs[i].kind # "reply"}))
        IN  rows # <<>> /\ shown' = shown \o rows /\ cursor' = [cursor EXCEPT ![ch] = Last(rows)]
  BY DEF PollerPolls
<1> DEFINE U == {i \in Unread(ch) : msgs[i].kind # "reply"}
           rows == Limit(Sorted(U))
<1>2. /\ reader = "poller" /\ UNCHANGED <<tables, Outside, reader, link, wire, held, work, doing, excused, unseeded>>
      /\ rows # <<>> /\ shown' = shown \o rows /\ cursor' = [cursor EXCEPT ![ch] = Last(rows)]
  BY <1>1 DEF PollerPolls, Quiet
<1>3. Reads
  BY <1>2, ReadsAre
<1>4. held \in Seq(Channels) /\ wire \in Seq(Channels) /\ (doing = 0 \/ doing \in Committed) /\ link # "off"
  BY <1>2 DEF ReaderInv, LinkInv
<1>5. ch \in Channels /\ cursor \in [Channels -> Nat] /\ \A d \in Channels : cursor[d] <= Len(msgs)
  BY DEF TableInv, ReaderInv, CursorInv
<1>6. U \in SUBSET Committed /\ \A u \in U : u \in 1 .. Len(msgs) /\ msgs[u].ch = ch /\ cursor[ch] < u
  <2>1. U \in SUBSET Committed /\ \A u \in U : msgs[u].ch = ch /\ u > cursor[ch]
    BY DEF Unread, In
  <2>2. \A u \in U : u \in 1 .. Len(msgs) /\ Len(msgs) \in Nat
    BY <1>3, <2>1 DEF Reads
  <2> QED BY <1>5, <2>1, <2>2
<1>7. \A i \in Committed : msgs[i].ch = ch /\ msgs[i].kind # "reply" => i \in U \/ i <= cursor[ch]
  <2> TAKE i \in Committed
  <2>1. i \in Nat
    BY <1>3 DEF Reads
  <2> QED BY <1>5, <2>1 DEF Unread, In
<1> HIDE DEF U
<1>8. /\ rows \in Seq(U) /\ Len(rows) \in Nat
      /\ \A k \in 1 .. Len(rows) : rows[k] \in U /\ rows[k] \in Nat
      /\ \A j, k \in 1 .. Len(rows) : j < k => rows[j] < rows[k]
      /\ \A u \in U, k \in 1 .. Len(rows) : u <= rows[k] => \E j \in 1 .. Len(rows) : rows[j] = u
      /\ rows # <<>> => Len(rows) \in 1 .. Len(rows) /\ Last(rows) = rows[Len(rows)]
                       /\ \A k \in 1 .. Len(rows) : rows[k] <= Last(rows)
  BY <1>3, <1>6, RowsShown
<1> HIDE DEF rows
<1>9. Last(rows) \in Nat /\ Last(rows) <= Len(msgs) /\ cursor[ch] < Last(rows)
  <2>1. Last(rows) \in U
    BY <1>2, <1>8
  <2>2. Last(rows) \in 1 .. Len(msgs) /\ cursor[ch] < Last(rows)
    BY <1>6, <2>1
  <2>3. Len(msgs) \in Nat
    BY <1>3 DEF Reads
  <2> QED BY <2>2, <2>3
<1>10. cursor'[ch] = Last(rows) /\ cursor' \in [Channels -> Nat] /\ \A d \in Channels : d # ch => cursor'[d] = cursor[d]
  BY <1>2, <1>5, <1>9
<1>11. \A d \in Channels : cursor[d] <= cursor'[d] /\ cursor'[d] <= Len(msgs)
  <2> TAKE d \in Channels
  <2>1. CASE d = ch
    BY <1>5, <1>9, <1>10, <2>1
  <2>2. CASE d # ch
    BY <1>5, <1>10, <2>2
  <2> QED BY <2>1, <2>2
<1>12. /\ ShownInv' /\ ShownInOrder'
       /\ \A i \in ToSet(shown) : i \in ToSet(shown')
       /\ \A k \in 1 .. Len(rows) : rows[k] \in ToSet(shown')
  <2>1. /\ UNCHANGED <<msgs, reader>> /\ (~unseeded' => ~unseeded) /\ reader \in Streams
        /\ \A u \in U : cursor[msgs[u].ch] < u
    BY <1>2, <1>3, <1>6 DEF Reads, Streams
  <2>2. \A k \in 1 .. Len(rows) : rows[k] <= cursor'[msgs[rows[k]].ch]
    BY <1>2, <1>6, <1>8, <1>10
  <2> QED BY <1>2, <1>6, <1>8, <1>10, <1>11, <2>1, <2>2, Showing
<1>13. LinkInv'
  <2>1. wire' \in Seq(Channels) /\ held' \in Seq(Channels) /\ ToSet(wire') = ToSet(wire) /\ ToSet(held') = ToSet(held)
    BY <1>2, <1>4
  <2> QED BY <1>2, <1>3, <1>4, <2>1, NotifiedIs
<1>14. CursorInv' /\ WorkInv'
  BY <1>2, <1>3, <1>5, <1>10, <1>11 DEF CursorInv, WorkInv, Reads
<1>15. GapInv'
  <2> SUFFICES ASSUME NEW i \in Committed, Wanted(i), i <= cursor'[msgs[i].ch]
               PROVE i \in ToSet(shown') \cup excused
    BY <1>2, <1>3 DEF GapInv, Passed, Reads
  <2>1. msgs[i].ch \in Channels /\ i \in Nat
    BY <1>3 DEF Reads
  <2>2. CASE i <= cursor[msgs[i].ch]
    <3>1. i \in ToSet(shown) \cup excused
      BY <1>2, <2>2 DEF ReaderInv, GapInv, Streams, Passed
    <3> QED BY <1>12, <3>1
  <2>3. CASE ~(i <= cursor[msgs[i].ch])
    <3>1. msgs[i].ch = ch
      BY <1>10, <2>1, <2>3
    <3>2. msgs[i].kind # "reply"
      BY <1>2 DEF Wanted
    <3>3. i \in U /\ i <= Last(rows)
      BY <1>7, <1>10, <2>3, <3>1, <3>2
    <3>4. \E j \in 1 .. Len(rows) : rows[j] = i
      BY <1>2, <1>8, <3>3
    <3> QED BY <1>12, <3>4
  <2> QED BY <2>2, <2>3
<1>16. NewestHandled'
  BY <1>2 DEF NewestHandled
<1> QED BY <1>12, <1>13, <1>14, <1>15, <1>16 DEF ReaderInv

LEMMA WatchPolled == ASSUME TableInv, FlagInv, ReaderInv, WatchPolls PROVE ReaderInv'
<1> DEFINE U == {i \in Committed : msgs[i].addr /\ i > cursor[General]}
           rows == Limit(Sorted(U))
<1>1. /\ reader = "watch" /\ link = "on" /\ work = <<>> /\ work' = rows
      /\ UNCHANGED <<tables, Outside, reader, link, cursor, wire, held, doing, shown, excused, unseeded>>
  BY DEF WatchPolls, Quiet
<1>2. Reads
  BY <1>1, ReadsAre
<1>3. held \in Seq(Channels) /\ wire \in Seq(Channels) /\ (doing = 0 \/ doing \in Committed)
  BY DEF ReaderInv, LinkInv
<1>4. General \in Channels /\ cursor \in [Channels -> Nat] /\ \A ch \in Channels : cursor[ch] = cursor[General]
  BY <1>1, GroveAssumption DEF ReaderInv, CursorInv
<1>5. U \in SUBSET Committed /\ \A u \in U : u \in Nat /\ cursor[General] < u
  BY <1>2, <1>4 DEF Reads
<1>6. \A i \in Committed : msgs[i].addr => i \in U \/ i <= cursor[General]
  BY <1>2, <1>4 DEF Reads
<1> HIDE DEF U
<1>7. /\ rows \in Seq(U) /\ Len(rows) \in Nat
      /\ \A k \in 1 .. Len(rows) : rows[k] \in U /\ rows[k] \in Nat
      /\ \A j, k \in 1 .. Len(rows) : j < k <=> rows[j] < rows[k]
      /\ \A u \in U, k \in 1 .. Len(rows) : u <= rows[k] => \E j \in 1 .. Len(rows) : rows[j] = u
  BY <1>2, <1>5, RowsShown
<1> HIDE DEF rows
<1>8. rows \in Seq(Nat) /\ DOMAIN rows = 1 .. Len(rows)
  BY <1>7
<1>9. LinkInv'
  <2>1. wire' \in Seq(Channels) /\ held' \in Seq(Channels) /\ ToSet(wire') = ToSet(wire) /\ ToSet(held') = ToSet(held)
    BY <1>1, <1>3
  <2> QED BY <1>1, <1>2, <1>3, <2>1, NotifiedIs
<1>10. CursorInv'
  BY <1>1, <1>2 DEF ReaderInv, CursorInv, Reads
<1>11. WorkInv'
  <2>1. \A k \in 1 .. Len(rows) : rows[k] \in Committed /\ \A ch \in Channels : cursor[ch] < rows[k]
    <3> TAKE k \in 1 .. Len(rows)
    <3>1. rows[k] \in Committed /\ cursor[General] < rows[k]
      BY <1>5, <1>7
    <3> QED BY <1>4, <3>1
  <2> QED BY <1>1, <1>2, <1>7, <1>8, <2>1 DEF WorkInv, Reads
<1>12. ShownInv' /\ ShownInOrder'
  BY <1>1, <1>2 DEF ReaderInv, ShownInv, ShownInOrder, Streams, Reads
<1>13. GapInv'
  <2> SUFFICES ASSUME NEW i \in Committed, Wanted(i), i <= cursor[msgs[i].ch] \/ \E k \in ToSet(rows) : k > i
               PROVE i \in ToSet(shown) \cup excused \/ i \in ToSet(rows)
    BY <1>1, <1>2 DEF GapInv, Passed, Reads
  <2>1. msgs[i].ch \in Channels /\ i \in Nat /\ msgs[i].addr
    BY <1>1, <1>2 DEF Reads, Wanted
  <2>2. CASE i <= cursor[msgs[i].ch]
    <3>1. i \notin ToSet(work)
      BY <1>1 DEF ToSet
    <3> QED BY <1>1, <2>2, <3>1 DEF ReaderInv, GapInv, Streams, Passed
  <2>3. CASE ~(i <= cursor[msgs[i].ch])
    <3>1. i \in U
      BY <1>4, <1>6, <2>1, <2>3
    <3>2. PICK k \in 1 .. Len(rows) : rows[k] > i
      BY <1>8, <2>3 DEF ToSet
    <3>3. i <= rows[k]
      BY <1>7, <2>1, <3>2
    <3>4. \E j \in 1 .. Len(rows) : rows[j] = i
      BY <1>7, <3>1, <3>3
    <3> QED BY <1>8, <3>4 DEF ToSet
  <2> QED BY <2>2, <2>3
<1>14. NewestHandled'
  BY <1>1 DEF NewestHandled
<1> QED BY <1>9, <1>10, <1>11, <1>12, <1>13, <1>14 DEF ReaderInv

LEMMA WatchTook == ASSUME TableInv, FlagInv, ReaderInv, WatchTakes PROVE ReaderInv'
<1> DEFINE h == Head(work)
<1>1. /\ reader = "watch" /\ work # <<>> /\ doing' = h /\ work' = Tail(work) /\ cursor' = [ch \in Channels |-> h] /\ shown' = Append(shown, h)
      /\ UNCHANGED <<tables, Outside, reader, link, wire, held, excused, unseeded>>
  BY DEF WatchTakes, Quiet
<1>2. Reads
  BY <1>1, ReadsAre
<1>3. held \in Seq(Channels) /\ wire \in Seq(Channels) /\ link # "off"
  BY <1>1 DEF ReaderInv, LinkInv
<1>4. /\ work \in Seq(Nat) /\ \A j, k \in 1 .. Len(work) : j < k => work[j] < work[k]
      /\ \A k \in 1 .. Len(work) : work[k] \in Committed /\ \A ch \in Channels : cursor[ch] < work[k]
      /\ cursor \in [Channels -> Nat] /\ shown \in Seq(Nat)
  BY <1>1 DEF ReaderInv, WorkInv, CursorInv, ShownInv
<1>5. /\ Len(work) \in Nat /\ h \in Nat /\ h = work[1] /\ Tail(work) \in Seq(Nat) /\ Len(Tail(work)) = Len(work) - 1 /\ 1 \in 1 .. Len(work)
      /\ \A k \in 1 .. Len(work) - 1 : Tail(work)[k] = work[k + 1] /\ k + 1 \in 1 .. Len(work)
      /\ ToSet(work) = {h} \cup ToSet(Tail(work))
  BY <1>1, <1>4, HeadAndTail
<1>6. h \in Committed /\ h \in 1 .. Len(msgs) /\ \A ch \in Channels : cursor[ch] < h /\ cursor[ch] \in Nat
  BY <1>2, <1>4, <1>5 DEF Reads
<1> HIDE DEF h
<1>7. \A ch \in Channels : cursor'[ch] = h
  BY <1>1
<1>8. CursorInv'
  BY <1>1, <1>2, <1>6, <1>7 DEF CursorInv, Reads
<1>9. LinkInv'
  <2>1. wire' \in Seq(Channels) /\ held' \in Seq(Channels) /\ ToSet(wire') = ToSet(wire) /\ ToSet(held') = ToSet(held) /\ doing' \in Committed
    BY <1>1, <1>3, <1>6
  <2> QED BY <1>1, <1>2, <1>3, <2>1, NotifiedIs
<1>10. WorkInv'
  <2>1. Len(work') = Len(work) - 1 /\ work' \in Seq(Nat)
    BY <1>1, <1>5
  <2>2. \A k \in 1 .. Len(work') : work'[k] = work[k + 1] /\ k + 1 \in 1 .. Len(work) /\ 1 < k + 1
    BY <1>1, <1>5, <2>1
  <2>3. \A k \in 1 .. Len(work') : work'[k] \in Committed /\ h < work'[k]
    BY <1>4, <1>5, <2>2
  <2>4. \A j, k \in 1 .. Len(work') : j < k => work'[j] < work'[k]
    <3> SUFFICES ASSUME NEW j \in 1 .. Len(work'), NEW k \in 1 .. Len(work'), j < k PROVE work'[j] < work'[k]
      OBVIOUS
    <3>1. j + 1 \in 1 .. Len(work) /\ k + 1 \in 1 .. Len(work) /\ j + 1 < k + 1 /\ work'[j] = work[j + 1] /\ work'[k] = work[k + 1]
      BY <2>2
    <3> QED BY <1>4, <3>1
  <2> QED BY <1>1, <1>2, <1>7, <2>1, <2>3, <2>4 DEF WorkInv, Reads
<1>11. /\ ShownInv' /\ ShownInOrder'
       /\ \A i \in ToSet(shown) : i \in ToSet(shown')
       /\ h \in ToSet(shown')
  <2> DEFINE rows == <<h>>
             U == {h}
  <2>1. /\ UNCHANGED <<msgs, reader>> /\ (~unseeded' => ~unseeded) /\ reader \in Streams
        /\ \A u \in U : cursor[msgs[u].ch] < u
    BY <1>1, <1>2, <1>6 DEF Reads, Streams
  <2>2. U \in SUBSET Committed /\ rows \in Seq(U) /\ Len(rows) = 1 /\ rows[1] = h
    BY <1>6
  <2>3. shown' = shown \o rows
    BY <1>1, <1>4, <1>6
  <2> HIDE DEF rows
  <2>4. \A j, k \in 1 .. Len(rows) : j < k => rows[j] < rows[k]
    BY <2>2
  <2>5. \A k \in 1 .. Len(rows) : rows[k] <= cursor'[msgs[rows[k]].ch]
    <3>1. msgs[h].ch \in Channels
      BY <1>2, <1>6 DEF Reads
    <3> QED BY <1>5, <1>7, <2>2, <3>1
  <2>6. cursor' \in [Channels -> Nat] /\ \A ch \in Channels : cursor[ch] <= cursor'[ch]
    BY <1>1, <1>6, <1>7
  <2>7. /\ ShownInv' /\ ShownInOrder'
        /\ \A i \in ToSet(shown) : i \in ToSet(shown')
        /\ \A k \in 1 .. Len(rows) : rows[k] \in ToSet(shown')
    BY <2>1, <2>2, <2>3, <2>4, <2>5, <2>6, Showing
  <2> QED BY <2>2, <2>7
<1>12. GapInv'
  <2> SUFFICES ASSUME NEW i \in Committed, Wanted(i), i <= cursor'[msgs[i].ch] \/ \E k \in ToSet(work') : k > i
               PROVE i \in ToSet(shown') \cup excused \/ i \in ToSet(work')
    BY <1>1, <1>2 DEF GapInv, Passed, Reads
  <2>1. msgs[i].ch \in Channels /\ i \in Nat
    BY <1>2 DEF Reads
  <2>2. CASE i = h
    BY <1>11, <2>2
  <2>3. CASE i # h
    <3>1. h > i \/ \E k \in ToSet(work') : k > i
      BY <1>6, <1>7, <2>1, <2>3
    <3>2. \E k \in ToSet(work) : k > i
      BY <1>1, <1>5, <3>1
    <3>3. i \in ToSet(shown) \cup excused \/ i \in ToSet(work)
      BY <1>1, <3>2 DEF ReaderInv, GapInv, Streams, Passed
    <3> QED BY <1>1, <1>5, <1>11, <2>3, <3>3
  <2> QED BY <2>2, <2>3
<1>13. NewestHandled'
  BY <1>1 DEF NewestHandled
<1> QED BY <1>8, <1>9, <1>10, <1>11, <1>12, <1>13 DEF ReaderInv

\* For the coordinator only what is heard and shown is of interest.
LEMMA CoordinatorReads ==
    ASSUME Reads, ReaderInv, reader = "coordinator", LinkInv', NewestHandled', ShownInv', UNCHANGED <<cursor, work>>
    PROVE  ReaderInv'
<1>1. CursorInv' /\ WorkInv'
  BY DEF ReaderInv, CursorInv, WorkInv, Reads
<1>2. ShownInOrder' /\ GapInv'
  BY DEF ShownInOrder, GapInv, Streams, Reads
<1> QED BY <1>1, <1>2 DEF ReaderInv

LEMMA CoordinatorWoke == ASSUME TableInv, FlagInv, ReaderInv, CoordinatorWakes PROVE ReaderInv'
<1>1. /\ reader = "coordinator" /\ link = "on" /\ held = <<>> /\ held' = wire /\ wire' = <<>>
      /\ UNCHANGED <<tables, Outside, reader, link, cursor, work, doing, shown, excused, unseeded>>
  BY DEF CoordinatorWakes, Quiet
<1>2. Reads
  BY <1>1, ReadsAre
<1>3. wire \in Seq(Channels) /\ (doing = 0 \/ doing \in Committed)
  BY DEF ReaderInv, LinkInv
<1>4. wire' \in Seq(Channels) /\ held' \in Seq(Channels) /\ ToSet(wire') = {} /\ ToSet(held') = ToSet(wire) /\ ToSet(held) = {}
  <2>1. <<>> \in Seq(Channels) /\ ToSet(<<>>) = {}
    BY DEF ToSet
  <2> QED BY <1>1, <1>3, <2>1
<1>5. LinkInv'
  BY <1>1, <1>2, <1>3, <1>4, NotifiedIs
<1>6. ShownInv'
  BY <1>1, <1>2 DEF ReaderInv, ShownInv, Streams, Reads
<1>7. NewestHandled'
  <2> SUFFICES ASSUME NEW i \in Committed, msgs[i].addr, i \notin excused
               PROVE  msgs[i].ch \in ToSet(wire') \cup ToSet(held') \/ i \in ToSet(shown) \/ \E j \in In(msgs[i].ch) : j > i
    BY <1>1, <1>2 DEF NewestHandled, Reads
  <2> QED BY <1>1, <1>4 DEF ReaderInv, NewestHandled
<1> QED BY <1>1, <1>2, <1>5, <1>6, <1>7, CoordinatorReads

LEMMA CoordinatorFailed == ASSUME TableInv, FlagInv, ReaderInv, CoordinatorFetchFails PROVE ReaderInv'
<1> DEFINE ch == Last(held)
           m  == Newest(In(ch))
<1>1. /\ reader = "coordinator" /\ held # <<>> /\ doing = 0 /\ held' = Front(held) /\ excused' = excused \cup {m}
      /\ UNCHANGED <<tables, Outside, reader, link, cursor, wire, work, doing, shown, unseeded>>
  BY DEF CoordinatorFetchFails
<1>2. Reads
  BY <1>1, ReadsAre
<1>3. wire \in Seq(Channels) /\ held \in Seq(Channels)
  BY DEF ReaderInv, LinkInv
<1>4. Front(held) \in Seq(Channels) /\ ch \in Channels /\ ToSet(held) = ToSet(Front(held)) \cup {ch}
  BY <1>1, <1>3, FrontAndLast
<1>5. \A i \in In(ch) : i \in Nat /\ m \in Nat /\ i <= m /\ m \in In(ch)
  <2>1. In(ch) \in SUBSET (0 .. Len(msgs)) /\ Len(msgs) \in Nat
    <3>1. In(ch) \subseteq Committed
      BY DEF In
    <3>2. Committed \subseteq 0 .. Len(msgs) /\ Len(msgs) \in Nat
      BY <1>2 DEF Reads
    <3> QED BY <3>1, <3>2
  <2> SUFFICES ASSUME In(ch) # {} PROVE m \in In(ch) /\ \A i \in In(ch) : i <= m
    BY <2>1
  <2> QED BY <2>1, NewestIs, Zenon
<1> HIDE DEF ch, m
<1>6. LinkInv'
  <2>1. link # "off"
    BY <1>1, <1>3 DEF ReaderInv, LinkInv
  <2> QED BY <1>1, <1>2, <1>3, <1>4, <2>1, NotifiedIs
<1>7. ShownInv'
  BY <1>1, <1>2 DEF ReaderInv, ShownInv, Streams, Reads
<1>8. NewestHandled'
  <2> SUFFICES ASSUME NEW i \in Committed, msgs[i].addr, i \notin excused, i # m
               PROVE  msgs[i].ch \in ToSet(wire') \cup ToSet(held') \/ i \in ToSet(shown) \/ \E j \in In(msgs[i].ch) : j > i
    BY <1>1, <1>2 DEF NewestHandled, Reads
  <2>1. msgs[i].ch \in ToSet(wire) \cup ToSet(held) \/ i \in ToSet(shown) \/ \E j \in In(msgs[i].ch) : j > i
    BY <1>1 DEF ReaderInv, NewestHandled
  <2>2. CASE msgs[i].ch = ch
    <3>1. i \in In(ch)
      BY <2>2 DEF In
    <3>2. m \in In(ch) /\ m > i
      BY <1>5, <3>1
    <3> QED BY <2>2, <3>2
  <2>3. CASE msgs[i].ch # ch
    BY <1>1, <1>4, <2>1, <2>3
  <2> QED BY <2>2, <2>3
<1> QED BY <1>1, <1>2, <1>6, <1>7, <1>8, CoordinatorReads

LEMMA CoordinatorFetched == ASSUME TableInv, FlagInv, ReaderInv, CoordinatorFetches PROVE ReaderInv'
<1> DEFINE ch == Last(held)
           m  == Newest(In(ch))
<1>1. /\ reader = "coordinator" /\ held # <<>> /\ doing = 0 /\ held' = Front(held)
      /\ UNCHANGED <<tables, Outside, reader, link, cursor, wire, work, excused, unseeded>>
      /\ IF Signals(m) THEN doing' = m /\ shown' = Append(shown, m) ELSE UNCHANGED <<doing, shown>>
  BY DEF CoordinatorFetches, Quiet
<1>2. Reads
  BY <1>1, ReadsAre
<1>3. /\ wire \in Seq(Channels) /\ held \in Seq(Channels) /\ \A d \in ToSet(held) : In(d) # {}
  BY DEF ReaderInv, LinkInv
<1>4. Front(held) \in Seq(Channels) /\ ch \in Channels /\ ToSet(held) = ToSet(Front(held)) \cup {ch}
  BY <1>1, <1>3, FrontAndLast
<1>5. m \in In(ch) /\ m \in Committed /\ m \in Nat /\ \A i \in In(ch) : i <= m
  <2>1. In(ch) \in SUBSET (0 .. Len(msgs)) /\ Len(msgs) \in Nat
    <3>1. In(ch) \subseteq Committed
      BY DEF In
    <3>2. Committed \subseteq 0 .. Len(msgs) /\ Len(msgs) \in Nat
      BY <1>2 DEF Reads
    <3> QED BY <3>1, <3>2
  <2>2. In(ch) # {}
    BY <1>3, <1>4
  <2>3. Newest(In(ch)) \in 0 .. Len(msgs) /\ (\A i \in In(ch) : i <= Newest(In(ch))) /\ Newest(In(ch)) \in In(ch)
    BY <2>1, <2>2, NewestIs, Zenon
  <2> QED BY <2>3 DEF In
<1> HIDE DEF ch, m
<1>6. LinkInv'
  <2>1. link # "off"
    BY <1>1, <1>3 DEF ReaderInv, LinkInv
  <2> QED BY <1>1, <1>2, <1>3, <1>4, <1>5, <2>1, NotifiedIs
<1>7. ShownInv' /\ (\A i \in ToSet(shown) : i \in ToSet(shown')) /\ (Signals(m) => m \in ToSet(shown'))
  <2>1. shown \in Seq(Nat) /\ \A k \in 1 .. Len(shown) : shown[k] \in Committed
    BY DEF ReaderInv, ShownInv
  <2>2. CASE Signals(m)
    <3>1. /\ shown' \in Seq(Nat) /\ Len(shown') = Len(shown) + 1 /\ Len(shown) \in Nat
          /\ \A j \in 1 .. Len(shown) : shown'[j] = shown[j]
          /\ shown'[Len(shown) + 1] = m
      BY <1>1, <1>5, <2>1, <2>2, Appended
    <3>2. \A k \in 1 .. Len(shown') : shown'[k] \in Committed
      <4> TAKE k \in 1 .. Len(shown')
      <4>1. k \in 1 .. Len(shown) \/ k = Len(shown) + 1
        BY <3>1
      <4> QED BY <1>5, <2>1, <3>1, <4>1
    <3>3. ToSet(shown') = ToSet(shown) \cup {m}
      <4>1. ToSet(Append(shown, m)) = ToSet(shown) \cup {m}
        BY <1>5, <2>1, OneMember
      <4> QED BY <1>1, <2>2, <4>1
    <3> QED BY <1>1, <1>2, <3>1, <3>2, <3>3 DEF ShownInv, Streams, Reads
  <2>3. CASE ~Signals(m)
    BY <1>1, <1>2, <2>1, <2>3 DEF ShownInv, Streams, Reads
  <2> QED BY <2>2, <2>3
<1>8. NewestHandled'
  <2> SUFFICES ASSUME NEW i \in Committed, msgs[i].addr, i \notin excused
               PROVE  msgs[i].ch \in ToSet(wire') \cup ToSet(held') \/ i \in ToSet(shown') \/ \E j \in In(msgs[i].ch) : j > i
    BY <1>1, <1>2 DEF NewestHandled, Reads
  <2>1. msgs[i].ch \in ToSet(wire) \cup ToSet(held) \/ i \in ToSet(shown) \/ \E j \in In(msgs[i].ch) : j > i
    BY <1>1 DEF ReaderInv, NewestHandled
  <2>2. CASE msgs[i].ch = ch
    <3>1. i \in In(ch) /\ i \in Nat
      BY <1>2, <2>2 DEF In, Reads
    <3>2. CASE i = m
      <4>1. Signals(m)
        <5>1. i \in 1 .. Len(msgs)
          BY <1>2 DEF Reads
        <5> QED BY <3>2, <5>1 DEF Signals, TableInv
      <4> QED BY <1>7, <3>2, <4>1
    <3>3. CASE i # m
      <4>1. m > i
        BY <1>5, <3>1, <3>3
      <4> QED BY <1>5, <2>2, <4>1
    <3> QED BY <3>2, <3>3
  <2>3. CASE msgs[i].ch # ch
    BY <1>1, <1>4, <1>7, <2>1, <2>3
  <2> QED BY <2>2, <2>3
<1> QED BY <1>1, <1>2, <1>6, <1>7, <1>8, CoordinatorReads

-----------------------------------------------------------------------------
(* Connections made and lost.                                              *)

\* A reader without a connection has everything behind it, whatever its cursors become.
LEMMA Unconnected ==
    ASSUME Reads, ReaderInv, link = "off" \/ link' = "off", CursorInv', work' = <<>>, wire' = <<>>, held' = <<>>, doing' = 0, UNCHANGED shown,
           link' \in (IF reader \in {"none", "poller"} THEN {"on"} ELSE IF reader \in {"watch", "coordinator"} THEN {"off", "on"}
                     ELSE {"off", "seeded", "on"}),
           excused' = IF link' = "off" THEN excused \cup (Committed \ ToSet(shown)) ELSE excused,
           unseeded => unseeded',
           reader \in Streams /\ ~unseeded' => \A k \in 1 .. Len(shown) : shown[k] <= cursor'[msgs[shown[k]].ch]
    PROVE  ReaderInv'
<1>1. Committed \subseteq ToSet(shown) \cup excused'
  BY DEF ReaderInv, LinkInv
<1>2. WorkInv'
  <2>1. work' \in Seq(Channels) /\ work' \in Seq(Nat) /\ Len(work') = 0
    OBVIOUS
  <2> QED BY <2>1 DEF WorkInv
<1>3. LinkInv'
  <2>1. wire' \in Seq(Channels) /\ held' \in Seq(Channels) /\ ToSet(wire') = {} /\ ToSet(held') = {}
    BY DEF ToSet
  <2> QED BY <1>1, <2>1 DEF LinkInv, Reads
<1>4. ShownInv'
  BY DEF ReaderInv, ShownInv, Streams, Reads
<1>5. ShownInOrder'
  BY DEF ReaderInv, ShownInOrder, Streams, Reads
<1>6. GapInv'
  BY <1>1 DEF GapInv, Reads
<1>7. NewestHandled'
  BY <1>1 DEF NewestHandled, Reads
<1> QED BY <1>2, <1>3, <1>4, <1>5, <1>6, <1>7 DEF ReaderInv

LEMMA Seeds == ASSUME TableInv, FlagInv, ReaderInv, Seed PROVE ReaderInv'
<1>1. /\ link = "off" /\ link' = (IF reader \in {"watch", "coordinator"} THEN "on" ELSE "seeded")
      /\ cursor' = [ch \in Channels |-> Start(ch)]
      /\ UNCHANGED <<tables, Outside, reader, wire, held, work, doing, shown, excused, unseeded>>
  BY DEF Seed, history
<1>2. Reads
  BY <1>1, ReadsAre
<1>3. /\ reader \in Readers /\ reader \notin {"none", "poller"} /\ work = <<>> /\ wire = <<>> /\ held = <<>> /\ doing = 0
  BY <1>1 DEF TableInv, ReaderInv, LinkInv
<1>4. Committed \in SUBSET (0 .. Len(msgs)) /\ Len(msgs) \in Nat /\ \A ch : In(ch) \in SUBSET (0 .. Len(msgs)) /\ In(ch) \subseteq Committed
  <2>1. \A ch : In(ch) \subseteq Committed
    BY DEF In
  <2>2. Committed \subseteq 0 .. Len(msgs) /\ Len(msgs) \in Nat
    BY <1>2 DEF Reads
  <2> QED BY <2>1, <2>2
<1>5. Newest(Committed) \in 0 .. Len(msgs) /\ \A i \in Committed : i <= Newest(Committed)
  BY <1>4, NewestIs, Zenon
<1>6. ASSUME NEW ch PROVE Newest(In(ch)) \in 0 .. Len(msgs) /\ \A i \in In(ch) : i <= Newest(In(ch))
  <2>1. In(ch) \in SUBSET (0 .. Len(msgs)) /\ Len(msgs) \in Nat
    BY <1>4
  <2> QED BY <2>1, NewestIs, Zenon
<1>7. \A ch \in Channels : Start(ch) \in 0 .. Len(msgs)
  BY <1>4, <1>5, <1>6 DEF Start
<1>8. CursorInv'
  <2>1. \A ch \in Channels : Start(ch) \in Nat /\ Start(ch) <= Len(msgs)
    BY <1>4, <1>7
  <2>2. reader \in {"heimdallr", "watch"} => \A ch, d \in Channels : Start(ch) = Start(d)
    BY DEF Start
  <2> QED BY <1>1, <1>2, <2>1, <2>2 DEF CursorInv, Reads
<1>9. ASSUME reader \in Streams, NEW k \in 1 .. Len(shown) PROVE shown[k] <= cursor'[msgs[shown[k]].ch]
  <2>1. shown[k] \in Committed /\ msgs[shown[k]].ch \in Channels /\ shown[k] \in In(msgs[shown[k]].ch)
    BY <1>2 DEF ReaderInv, ShownInv, Reads, In
  <2>2. cursor'[msgs[shown[k]].ch] = Start(msgs[shown[k]].ch)
    BY <1>1, <2>1
  <2>3. Start(msgs[shown[k]].ch) \in {Newest(Committed), Newest(In(msgs[shown[k]].ch))}
    BY <1>3, <1>9 DEF Start, Streams
  <2> QED BY <1>5, <1>6, <2>1, <2>2, <2>3
<1>10. link' \in (IF reader \in {"none", "poller"} THEN {"on"} ELSE IF reader \in {"watch", "coordinator"} THEN {"off", "on"}
                 ELSE {"off", "seeded", "on"}) /\ link' # "off"
  BY <1>1, <1>3
<1> QED BY <1>1, <1>2, <1>3, <1>8, <1>9, <1>10, Unconnected

LEMMA SeedsNot == ASSUME TableInv, FlagInv, ReaderInv, SeedFails PROVE ReaderInv'
<1>1. /\ reader = "watch" /\ link = "off" /\ link' = "on" /\ unseeded' = TRUE /\ cursor' = [ch \in Channels |-> 0]
      /\ UNCHANGED <<tables, Outside, reader, wire, held, work, doing, shown, excused>>
  BY DEF SeedFails
<1>2. Reads
  BY <1>1, ReadsAre
<1>3. work = <<>> /\ wire = <<>> /\ held = <<>> /\ doing = 0
  BY <1>1 DEF ReaderInv, LinkInv
<1>4. CursorInv'
  BY <1>1, <1>2 DEF CursorInv, Reads
<1> QED BY <1>1, <1>2, <1>3, <1>4, Unconnected

LEMMA Drops == ASSUME TableInv, FlagInv, ReaderInv, Drop PROVE ReaderInv'
<1>1. /\ reader \notin {"none", "poller"} /\ link' = "off" /\ wire' = <<>> /\ held' = <<>> /\ work' = <<>> /\ doing' = 0
      /\ excused' = excused \cup (Committed \ ToSet(shown))
      /\ UNCHANGED <<tables, Outside, reader, cursor, shown, unseeded>>
  BY DEF Drop
<1>2. Reads
  BY <1>1, ReadsAre
<1>3. CursorInv'
  BY <1>1, <1>2 DEF ReaderInv, CursorInv, Reads
<1>4. reader \in Streams /\ ~unseeded' => \A k \in 1 .. Len(shown) : shown[k] <= cursor'[msgs[shown[k]].ch]
  BY <1>1 DEF ReaderInv, ShownInv
<1> QED BY <1>1, <1>2, <1>3, <1>4, Unconnected

-----------------------------------------------------------------------------

LEMMA GroveStarts == GroveInit => GroveInv
<1> SUFFICES ASSUME GroveInit PROVE GroveInv
  OBVIOUS
<1>1. /\ msgs = <<>> /\ flags = {} /\ call = [c \in Clients |-> Idle] /\ reader \in Readers /\ chans = Existing[reader]
      /\ link = (IF reader \in {"none", "poller"} THEN "on" ELSE "off") /\ cursor = [ch \in Channels |-> 0]
      /\ wire = <<>> /\ held = <<>> /\ work = <<>> /\ doing = 0 /\ shown = <<>>
  BY DEF GroveInit
<1>2. Len(msgs) = 0 /\ msgs \in Seq(Messages) /\ Ids = {} /\ Committed = {}
  BY <1>1 DEF Ids, Committed
<1>3. TableInv
  <2>1. chans \subseteq Channels
    BY <1>1, GroveAssumption
  <2>2. \A c \in Clients : call[c] = Idle
    BY <1>1
  <2>3. call \in [Clients -> Slots] /\ \A c \in Clients : SlotOk(c) /\ call[c].id = 0
    BY <1>1, <2>2, IdleSlot DEF SlotOk
  <2> QED BY <1>1, <1>2, <2>1, <2>3 DEF TableInv
<1>4. FlagInv
  BY <1>1, <1>2 DEF FlagInv, FlagsTell
<1>5. CursorInv
  BY <1>1, <1>2 DEF CursorInv
<1>6. LinkInv
  <2>1. wire \in Seq(Channels) /\ held \in Seq(Channels) /\ ToSet(wire) = {} /\ ToSet(held) = {}
    BY <1>1 DEF ToSet
  <2> QED BY <1>1, <1>2, <2>1, GroveAssumption DEF LinkInv
<1>7. WorkInv
  BY <1>1 DEF WorkInv
<1>8. ShownInv /\ ShownInOrder
  BY <1>1 DEF ShownInv, ShownInOrder
<1>9. GapInv /\ NewestHandled
  BY <1>2 DEF GapInv, NewestHandled
<1> QED BY <1>3, <1>4, <1>5, <1>6, <1>7, <1>8, <1>9 DEF GroveInv, ReaderInv

LEMMA GroveKept == GroveInv /\ [GroveNext]_groveVars => GroveInv'
<1> SUFFICES ASSUME TableInv, FlagInv, ReaderInv, [GroveNext]_groveVars PROVE TableInv' /\ FlagInv' /\ ReaderInv'
  BY DEF GroveInv
<1>1. ASSUME NEW c \in Clients, Client(c) PROVE TableInv' /\ FlagInv' /\ ReaderInv'
  BY <1>1, ClientTables, ClientFlags, ClientReader
<1>2. CASE Seed
  BY <1>2, Seeds, ReadsAre DEF Seed
<1>3. CASE SeedFails
  BY <1>3, SeedsNot, ReadsAre DEF SeedFails
<1>4. CASE Listen
  BY <1>4, Listens
<1>5. CASE Drop
  BY <1>5, Drops, ReadsAre DEF Drop
<1>6. CASE ListenWakes
  BY <1>6, Wakes, ReadsAre DEF ListenWakes, Quiet
<1>7. CASE ListenLooks
  BY <1>7, Looks, ReadsAre DEF ListenLooks, Quiet
<1>8. CASE HeimdallrPolls
  BY <1>8, Heimdallr, ReadsAre DEF HeimdallrPolls, Quiet
<1>9. CASE PollerPolls
  BY <1>9, Poller, ReadsAre DEF PollerPolls, Quiet
<1>10. CASE WatchPolls
  BY <1>10, WatchPolled, ReadsAre DEF WatchPolls, Quiet
<1>11. CASE WatchTakes
  BY <1>11, WatchTook, ReadsAre DEF WatchTakes, Quiet
<1>12. CASE WatchAnswers
  BY <1>12, WatchAnswered
<1>13. CASE CoordinatorWakes
  BY <1>13, CoordinatorWoke, ReadsAre DEF CoordinatorWakes, Quiet
<1>14. CASE CoordinatorFetches
  BY <1>14, CoordinatorFetched, ReadsAre DEF CoordinatorFetches, Quiet
<1>15. CASE CoordinatorAnswers
  BY <1>15, CoordinatorAnswered
<1>17. CASE CoordinatorFetchFails
  BY <1>17, CoordinatorFailed, ReadsAre DEF CoordinatorFetchFails
<1>16. CASE UNCHANGED groveVars
  <2>1. UNCHANGED <<tables, call, reader, link, cursor, wire, held, work, doing, shown, excused, unseeded, overtaken, interrupted>>
    BY <1>16 DEF groveVars, inbound, history
  <2>2. TableInv' /\ FlagInv' /\ Committed' = Committed /\ Later
    BY <2>1, TablesStand, Unsettled DEF tables, TableInv
  <2>3. ReaderInv'
    <3>1. wire' \in Seq(Channels) /\ held' \in Seq(Channels)
      BY <2>1 DEF ReaderInv, LinkInv
    <3> QED BY <2>1, <2>2, <3>1, Grown
  <2> QED BY <2>2, <2>3
<1> QED BY <1>1, <1>2, <1>3, <1>4, <1>5, <1>6, <1>7, <1>8, <1>9, <1>10, <1>11, <1>12, <1>13, <1>14, <1>15, <1>16, <1>17
        DEF GroveNext, Reading

LEMMA GroveInvariant == GroveSpec => []GroveInv
BY GroveStarts, GroveKept, PTL DEF GroveSpec

\* A reader that keeps a cursor shows or answers the messages of a channel in their order, and
\* none twice, whatever connections it lost in between.
THEOREM SpecShownInOrder == GroveSpec => []ShownInOrder
BY GroveInvariant, PTL DEF GroveInv, ReaderInv

\* A wanted message a stream's cursor is past is shown, or was committed out of order (ids are
\* given at the insert and seen at the commit) or while the reader had no connection.
THEOREM SpecMissedExplained == GroveSpec => []MissedExplained
<1>1. GroveInv => MissedExplained
  <2> SUFFICES ASSUME GroveInv, reader \in Streams, NEW i \in Committed, Wanted(i), i <= cursor[msgs[i].ch]
               PROVE i \in ToSet(shown) \cup excused
    BY DEF MissedExplained
  <2>1. i \in ToSet(shown) \cup excused \/ (reader = "watch" /\ i \in ToSet(work))
    BY DEF GroveInv, ReaderInv, GapInv, Passed
  <2>2. ASSUME reader = "watch", i \in ToSet(work) PROVE FALSE
    <3>1. PICK k \in 1 .. Len(work) : work[k] = i
      BY <2>2 DEF GroveInv, ReaderInv, WorkInv, ToSet
    <3>2. msgs[i].ch \in Channels /\ i \in Nat
      BY CommittedIs DEF GroveInv, Messages
    <3>3. cursor[msgs[i].ch] < i /\ cursor[msgs[i].ch] \in Nat
      BY <2>2, <3>1, <3>2 DEF GroveInv, ReaderInv, WorkInv, CursorInv
    <3> QED BY <3>2, <3>3
  <2> QED BY <2>1, <2>2
<1> QED BY <1>1, GroveInvariant, PTL

\* The needs-reply flags of grove_bus_send, grove_reply and grove_ack tell what waits, but for a
\* flag set after its answer and a call that was cut short.
THEOREM SpecFlagsTell == GroveSpec => []FlagsTell
<1>1. GroveInv => FlagsTell
  BY DEF GroveInv, FlagInv
<1> QED BY <1>1, GroveInvariant, PTL

\* With nothing more to hear and nothing in hand, the coordinator has handled the newest message
\* of each channel it was told of, its own posts included.
THEOREM SpecNewestHandled == GroveSpec => []NewestHandled
<1>1. GroveInv => NewestHandled
  BY DEF GroveInv, ReaderInv
<1> QED BY <1>1, GroveInvariant, PTL
=============================================================================
