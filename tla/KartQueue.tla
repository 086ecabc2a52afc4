------------------------------ MODULE KartQueue ------------------------------
(***************************************************************************)
(* The Kart task queue: rows of public.tasks, the daemon loop of           *)
(* kart_worker.py in each dashboard process that claims and executes them, *)
(* the child run it keeps for each in willow.runs, and the "silence feed"  *)
(* of willow/coordinator.py, which writes to the same rows.                *)
(*                                                                         *)
(* A claim is one UPDATE over SELECT .. FOR UPDATE SKIP LOCKED and a       *)
(* commit, so it is two steps here with the row locked in between.  A      *)
(* database error loses the connection; the commit in flight may have      *)
(* reached the server or not.  A crash takes the process and its memory.   *)
(***************************************************************************)
EXTENDS Naturals, FiniteSets

CONSTANTS Tasks,      \* ids of the tasks that may be submitted
          Workers,    \* dashboard processes, one Kart daemon in each
          Stamps,     \* values of created_at
          NoTask,     \* a worker, or the coordinator, has no task in hand
          NoWorker,   \* a row nobody has locked
          MaxFaults,  \* bound: lost connections and crashes
          MaxFeeds    \* bound: activations by the silence feed

ASSUME KartAssumption ==
    /\ NoTask \notin Tasks
    /\ NoWorker \notin Workers
    /\ Stamps \subseteq Nat
    /\ MaxFaults \in Nat
    /\ MaxFeeds \in Nat

VARIABLES
    status,   \* public.tasks.status; "absent" before the INSERT
    created,  \* public.tasks.created_at
    lock,     \* who holds the row lock of a task
    phase,    \* where each worker is in kart_loop
    current,  \* the task it has in hand
    result,   \* what execute_task returned to it
    runIds,   \* _KART_RUN_IDS: the tasks whose child run it must close
    runs,     \* willow.runs.status of each task's child run
    feed,     \* the task _kart_next_pending returned to the coordinator
    fed,      \* tasks the silence feed set to 'running' (history)
    started,  \* how often the commands of a task were begun (history)
    outcome,  \* what its last execution came to (history)
    faults, feeds

taskVars   == <<status, created, lock>>
workerVars == <<phase, current, result>>
runVars    == <<runIds, runs>>
feedVars   == <<feed, fed, feeds>>
histVars   == <<started, outcome>>
vars == <<taskVars, workerVars, runVars, feedVars, histVars, faults>>

Statuses == {"absent", "pending", "running", "complete", "failed"}
Terminal == {"complete", "failed"}
Results  == {"none", "ok", "fail"}
Phases   == {"dead", "down", "idle", "claiming", "claimed", "opened",
             "executing", "reporting", "closing"}
Busy     == {"claiming", "claimed", "opened", "executing", "reporting", "closing"}
RunStatuses == {"none", "running", "completed", "crashed", "abandoned"}

TypeOK ==
    /\ status  \in [Tasks -> Statuses]
    /\ created \in [Tasks -> Nat]
    /\ lock    \in [Tasks -> Workers \cup {NoWorker}]
    /\ phase   \in [Workers -> Phases]
    /\ current \in [Workers -> Tasks \cup {NoTask}]
    /\ result  \in [Workers -> Results]
    /\ runIds  \in [Workers -> SUBSET Tasks]
    /\ runs    \in [Tasks -> RunStatuses]
    /\ feed    \in Tasks \cup {NoTask}
    /\ fed     \in SUBSET Tasks
    /\ started \in [Tasks -> Nat]
    /\ outcome \in [Tasks -> Results]
    /\ faults  \in 0..MaxFaults
    /\ feeds   \in 0..MaxFeeds

Init ==
    /\ status  = [t \in Tasks |-> "absent"]
    /\ created = [t \in Tasks |-> 0]
    /\ lock    = [t \in Tasks |-> NoWorker]
    /\ phase   = [w \in Workers |-> "down"]
    /\ current = [w \in Workers |-> NoTask]
    /\ result  = [w \in Workers |-> "none"]
    /\ runIds  = [w \in Workers |-> {}]
    /\ runs    = [t \in Tasks |-> "none"]
    /\ feed    = NoTask
    /\ fed     = {}
    /\ started = [t \in Tasks |-> 0]
    /\ outcome = [t \in Tasks |-> "none"]
    /\ faults  = 0
    /\ feeds   = 0

-----------------------------------------------------------------------------
(* Submission: PgBridge.submit_task and the coordinator's _kart_submit.    *)
(* created_at defaults to the start of the inserting transaction, which on *)
(* a connection that has been reading may lie before an earlier INSERT.    *)

Submit(t) ==
    /\ status[t] = "absent"
    /\ status' = [status EXCEPT ![t] = "pending"]
    /\ \E c \in Stamps : created' = [created EXCEPT ![t] = c]
    /\ UNCHANGED <<lock, workerVars, runVars, feedVars, histVars, faults>>

-----------------------------------------------------------------------------
(* The daemon loop, one worker.                                            *)

Goto(w, from, to) ==
    /\ phase[w] = from
    /\ phase' = [phase EXCEPT ![w] = to]

Connect(w) ==
    /\ Goto(w, "down", "idle")
    /\ UNCHANGED <<taskVars, current, result, runVars, feedVars, histVars, faults>>

Oldest(t, S) == t \in S /\ \A u \in S : created[t] <= created[u]

\* Faulty: tasks that were left running, or that failed, are claimed again.
ClaimableRequeued == {t \in Tasks : status[t] \in {"pending", "running"} /\ lock[t] = NoWorker}
ClaimableRetried  == {t \in Tasks : status[t] \in {"pending", "failed"} /\ lock[t] = NoWorker}

Claimable == {t \in Tasks : status[t] = "pending" /\ lock[t] = NoWorker}

\* _claim_task: the UPDATE has run, the row is locked, nothing is committed.
ClaimSelect(w, t) ==
    /\ Goto(w, "idle", "claiming")
    /\ Oldest(t, Claimable)
    /\ lock' = [lock EXCEPT ![t] = w]
    /\ current' = [current EXCEPT ![w] = t]
    /\ UNCHANGED <<status, created, result, runVars, feedVars, histVars, faults>>

ClaimCommit(w) ==
    /\ Goto(w, "claiming", "claimed")
    /\ status' = [status EXCEPT ![current[w]] = "running"]
    /\ lock' = [lock EXCEPT ![current[w]] = NoWorker]
    /\ UNCHANGED <<created, current, result, runVars, feedVars, histVars, faults>>

\* _kart_run_open.  Best effort: it may do nothing, and open_run returns ''
\* when its second INSERT fails, with the run row already there.
RunOpen(w) ==
    /\ Goto(w, "claimed", "opened")
    /\ \/ UNCHANGED runVars
       \/ /\ runs' = [runs EXCEPT ![current[w]] = "running"]
          /\ \/ runIds' = [runIds EXCEPT ![w] = @ \cup {current[w]}]
             \/ UNCHANGED runIds
    /\ UNCHANGED <<taskVars, current, result, feedVars, histVars, faults>>

ExecBegin(w) ==
    /\ Goto(w, "opened", "executing")
    /\ started' = [started EXCEPT ![current[w]] = @ + 1]
    /\ UNCHANGED <<taskVars, current, result, runVars, feedVars, outcome, faults>>

ExecEnd(w) ==
    /\ Goto(w, "executing", "reporting")
    /\ \E r \in {"ok", "fail"} :
          /\ result'  = [result EXCEPT ![w] = r]
          /\ outcome' = [outcome EXCEPT ![current[w]] = r]
    /\ UNCHANGED <<taskVars, current, runVars, feedVars, started, faults>>

\* The UPDATE of _complete_task and _fail_task names the row by id alone.
Reported(w) ==
    [status EXCEPT ![current[w]] = IF result[w] = "ok" THEN "complete" ELSE "failed"]

\* Faulty: the UPDATE of the row is never committed.
ReportUncommitted(w) ==
    /\ Goto(w, "reporting", "closing")
    /\ UNCHANGED <<taskVars, current, result, runVars, feedVars, histVars, faults>>

Report(w) ==
    /\ Goto(w, "reporting", "closing")
    /\ status' = Reported(w)
    /\ UNCHANGED <<created, lock, current, result, runVars, feedVars, histVars, faults>>

LetGo(w) ==
    /\ current' = [current EXCEPT ![w] = NoTask]
    /\ result'  = [result EXCEPT ![w] = "none"]

\* _kart_run_close: the run is closed if it is known here and still running,
\* and if the database answers; the entry is gone either way.
RunClose(w) ==
    /\ Goto(w, "closing", "idle")
    /\ LetGo(w)
    /\ runIds' = [runIds EXCEPT ![w] = @ \ {current[w]}]
    /\ \/ UNCHANGED runs
       \/ /\ current[w] \in runIds[w]
          /\ runs[current[w]] = "running"
          /\ runs' = [runs EXCEPT ![current[w]] =
                         IF result[w] = "ok" THEN "completed" ELSE "crashed"]
    /\ UNCHANGED <<taskVars, feedVars, histVars, faults>>

-----------------------------------------------------------------------------
(* Faults.                                                                 *)

Unlock(w) == [t \in Tasks |-> IF lock[t] = w THEN NoWorker ELSE lock[t]]

Fault ==
    /\ faults < MaxFaults
    /\ faults' = faults + 1

\* An exception in kart_loop: the connection is dropped and the task in hand
\* forgotten.  A commit in flight is rolled back, or it went through and only
\* the answer was lost.
DbError(w) ==
    /\ Fault
    /\ phase[w] \in {"idle", "claiming", "reporting"}
    /\ phase' = [phase EXCEPT ![w] = "down"]
    /\ LetGo(w)
    /\ lock' = Unlock(w)
    /\ \/ UNCHANGED status
       \/ /\ phase[w] = "claiming"
          /\ status' = [status EXCEPT ![current[w]] = "running"]
       \/ /\ phase[w] = "reporting"
          /\ status' = Reported(w)
    /\ UNCHANGED <<created, runVars, feedVars, histVars>>

\* The dashboard process dies at any point; its open transaction rolls back.
Crash(w) ==
    /\ Fault
    /\ phase[w] # "dead"
    /\ phase' = [phase EXCEPT ![w] = "dead"]
    /\ LetGo(w)
    /\ lock' = Unlock(w)
    /\ runIds' = [runIds EXCEPT ![w] = {}]
    /\ UNCHANGED <<status, created, runs, feedVars, histVars>>

Restart(w) ==
    /\ Goto(w, "dead", "down")
    /\ UNCHANGED <<taskVars, current, result, runVars, feedVars, histVars, faults>>

-----------------------------------------------------------------------------
(* Other writers of the same rows.                                         *)

\* _handle_silence_feed reads the oldest pending task and announces it ..
FeedPick(t) ==
    /\ feeds < MaxFeeds
    /\ feed = NoTask
    /\ Oldest(t, {u \in Tasks : status[u] = "pending"})
    /\ feed' = t
    /\ feeds' = feeds + 1
    /\ UNCHANGED <<taskVars, workerVars, runVars, fed, histVars, faults>>

\* .. and then sets it to 'running' if it still is pending.  The UPDATE waits
\* for a claim that has the row locked; an error is logged and forgotten.
FeedActivate ==
    /\ feed # NoTask
    /\ feed' = NoTask
    /\ \/ /\ lock[feed] = NoWorker
          /\ status[feed] = "pending"
          /\ status' = [status EXCEPT ![feed] = "running"]
          /\ fed' = fed \cup {feed}
       \/ UNCHANGED <<status, fed>>
    /\ UNCHANGED <<created, lock, workerVars, runVars, feeds, histVars, faults>>

\* session_start._open_run: every run of the agent that is still 'running',
\* Kart's children included, is abandoned.
SessionStart ==
    /\ \E t \in Tasks : runs[t] = "running"
    /\ runs' = [t \in Tasks |-> IF runs[t] = "running" THEN "abandoned" ELSE runs[t]]
    /\ UNCHANGED <<taskVars, workerVars, runIds, feedVars, histVars, faults>>

-----------------------------------------------------------------------------
LoopStep(w) ==
    \/ Connect(w)
    \/ \E t \in Tasks : ClaimSelect(w, t)
    \/ ClaimCommit(w)
    \/ RunOpen(w)
    \/ ExecBegin(w)
    \/ Report(w)
    \/ RunClose(w)

WorkerStep(w) == LoopStep(w) \/ ExecEnd(w)

Next ==
    \/ \E t \in Tasks : Submit(t)
    \/ \E w \in Workers : WorkerStep(w)
    \/ \E w \in Workers : DbError(w) \/ Crash(w) \/ Restart(w)
    \/ \E t \in Tasks : FeedPick(t)
    \/ FeedActivate
    \/ SessionStart

Spec == Init /\ [][Next]_vars

\* A live daemon keeps looping.  Its commands may never end: the deadline of
\* execute_task is looked at only when a line of output arrives.  And nobody
\* promises that a task is submitted, that the feed fires or that a dead process
\* is restarted.
FairSpec == Spec /\ \A w \in Workers : WF_vars(LoopStep(w))

-----------------------------------------------------------------------------
(* The inductive invariant behind the safety properties: what each daemon  *)
(* knows of the task in its hands, and what each row allows.               *)

\* A worker has a task exactly while it is busy, and the row says what its
\* place in the loop implies.
Holding(w) ==
    LET t == current[w] IN
    /\ phase[w] \in Busy <=> t # NoTask
    /\ phase[w] = "claiming" => status[t] = "pending" /\ lock[t] = w
    /\ phase[w] \in {"claimed", "opened"} => status[t] = "running" /\ started[t] = 0
    /\ phase[w] = "claimed" => runs[t] = "none"
    /\ phase[w] = "executing" => /\ status[t] = "running"
                                 /\ started[t] = 1
                                 /\ outcome[t] = "none"
    /\ phase[w] \in {"reporting", "closing"} => /\ result[w] # "none"
                                               /\ outcome[t] = result[w]
                                               /\ started[t] = 1
    /\ phase[w] = "reporting" => status[t] = "running"
    /\ phase[w] = "closing" =>
          status[t] = IF result[w] = "ok" THEN "complete" ELSE "failed"

\* A row nobody executed says so, a finished row has its one execution behind
\* it, and a fed row has no owner.
RowOK(t) ==
    /\ status[t] \in {"absent", "pending"} => started[t] = 0 /\ runs[t] = "none"
    /\ started[t] \in {0, 1}
    /\ started[t] = 0 => outcome[t] = "none"
    /\ status[t] = "complete" => outcome[t] = "ok"
    /\ status[t] = "failed" => outcome[t] = "fail"
    /\ runs[t] = "completed" => status[t] = "complete"
    /\ runs[t] = "crashed" => status[t] = "failed"
    /\ t \in fed => /\ status[t] = "running"
                    /\ started[t] = 0
                    /\ \A w \in Workers : current[w] # t
    /\ \A w \in Workers : lock[t] = w => phase[w] = "claiming" /\ current[w] = t

-----------------------------------------------------------------------------
(* Properties.                                                             *)

\* Two daemons never have the same task in hand, whatever the claims, lost
\* acknowledgements, crashes and feeds in between (FOR UPDATE SKIP LOCKED).
SingleOwner ==
    \A v, w \in Workers :
        v # w /\ current[v] # NoTask => current[v] # current[w]

\* What every daemon believes of the task it holds is true of the row, at every
\* point of its loop and whatever the other daemons, the feed and the faults do
\* to the table: the inductive strengthening of the properties below.
Ownership ==
    /\ SingleOwner
    /\ \A w \in Workers : Holding(w)
    /\ \A t \in Tasks : RowOK(t)

\* The commands of a task are begun at most once over all processes and
\* restarts: nothing ever puts a task that was taken back on the queue.
AtMostOnce == \A t \in Tasks : started[t] <= 1

\* What the row says of a finished task is what its execution came to, although
\* the UPDATE that writes it checks neither the status nor the owner.
ReportMatchesOutcome ==
    \A t \in Tasks : /\ status[t] = "complete" => outcome[t] = "ok"
                     /\ status[t] = "failed"   => outcome[t] = "fail"

\* The run ledger never speaks of a result the queue does not show yet: the row
\* is committed before the child run is closed, so a crash in between leaves
\* the ledger behind and never ahead.
RunNeverAhead ==
    \A t \in Tasks : /\ runs[t] = "completed" => status[t] = "complete"
                     /\ runs[t] = "crashed"   => status[t] = "failed"

\* A task the silence feed set to 'running' is never executed by anyone.
FedIsStranded ==
    \A t \in fed : status[t] = "running" /\ started[t] = 0

\* A row that reached a final status, or a run that was closed or abandoned,
\* is never written again: a late report cannot overwrite an earlier one.
FinalStays ==
    [][\A t \in Tasks :
          /\ status[t] \in Terminal => status'[t] = status[t]
          /\ runs[t] \in {"completed", "crashed", "abandoned"} => runs'[t] = runs[t]
      ]_vars

\* The queue keeps the promise of TaskContract: taken once, begun at most once,
\* and reported only with the verdict of that execution.
Stage(t) ==
    CASE status[t] = "absent"    -> "absent"
      [] status[t] = "pending"   -> "queued"
      [] status[t] \in Terminal  -> "reported"
      [] status[t] = "running" /\ started[t] = 0 -> "taken"
      [] status[t] = "running" /\ started[t] # 0 /\ outcome[t] = "none" -> "begun"
      [] OTHER -> "ended"

ReportOf(t) ==
    CASE status[t] = "complete" -> "ok"
      [] status[t] = "failed"   -> "fail"
      [] OTHER                  -> "none"

StageMap  == [t \in Tasks |-> Stage(t)]
ReportMap == [t \in Tasks |-> ReportOf(t)]

Contract == INSTANCE TaskContract WITH
    stage <- StageMap, verdict <- outcome, report <- ReportMap

KeepsContract == Contract!Spec

\* A daemon is stuck with a command that does not end.
Stuck(w) == phase[w] = "executing"

\* A pending task leaves the queue, whatever claims are lost and whatever the
\* feed does, unless in the end every daemon is dead or stuck.
PendingLeaves ==
    \/ \A t \in Tasks : status[t] = "pending" ~> status[t] # "pending"
    \/ <>[](\A w \in Workers : phase[w] = "dead" \/ Stuck(w))

\* No task is parked, and one reaches a final status unless a fault or the silence
\* feed got in the way, its own command does not end, or every daemon is stuck:
\* these are the only ways to lose one.
FinishesUnlessDisturbed ==
    /\ PendingLeaves
    /\ \A t \in Tasks :
        \/ status[t] = "pending" ~> status[t] \in Terminal \/ t \in fed \/ faults > 0
        \/ <>[](\E w \in Workers : current[w] = t /\ Stuck(w))
        \/ <>[](\A w \in Workers : Stuck(w))

\* coordinator.py:417 marks the fed task as running "so Kart picks it up".
FedIsPickedUp ==
    \A t \in Tasks : t \in fed ~> \E w \in Workers : current[w] = t
=============================================================================
