------------------------------- MODULE Fleet -------------------------------
(***************************************************************************)
(* The services a dashboard starts and watches (fleet.py), and the PID     *)
(* file by which one dashboard keeps out another (app.py, on_mount).       *)
(*                                                                         *)
(* A dashboard has two threads: its own, which starts the services one     *)
(* after the other and stops them, and the monitor, which looks at each    *)
(* every five seconds and starts those that ended again.                   *)
(***************************************************************************)
EXTENDS Naturals, Sequences, FiniteSets

CONSTANTS Boards,     \* dashboards
          Services,
          Order,      \* _SERVICES, a sequence
          Ported,     \* those that serve a port, which is looked at before a spawn
          Lenient,    \* those with restart_policy "on_failure"
          Silent,     \* _MAX_SILENT_RESTARTS
          Nobody,
          MaxStarts,  \* bound: dashboards started
          MaxEnds     \* bound: faults, of which each start costs two

ASSUME FleetAssumption ==
    /\ {Ported, Lenient} \subseteq SUBSET Services
    /\ Order \in Seq(Services) /\ Nobody \notin Boards \cup Services
    /\ Services \cap {"off", "pid", "run", "take", "clear", "exit"} = {}
    /\ Silent \in Nat \ {0} /\ MaxStarts \in Nat /\ MaxEnds \in Nat

VARIABLES pid,       \* the dashboard whose PID is in the file
          board,     \* what each dashboard's own thread still has to do
          proc,      \* _procs: what has become of the process of each service
          failures, cooling, alerted,
          monitor,   \* the service the monitor is about to spawn
          mine,      \* the processes stop() has found
          loose,     \* history: processes of each service that no dashboard holds
          starts, ends,
          slip       \* history: two dashboards let in, one killed, the file of another
                     \* removed, or a spawn behind stop()

books     == <<failures, cooling, alerted>>
fleetVars == <<pid, board, proc, books, monitor, mine, loose, starts, ends, slip>>

Off  == <<"off">>
Runs == <<"run">>
Many == Silent + 1    \* stands for every count above, the circuit breaker's among them
Live == {"new", "up"}
Blank(x) == [b \in Boards |-> [s \in Services |-> x]]

FleetInit ==
    /\ pid = Nobody /\ board = [b \in Boards |-> Off]
    /\ proc = Blank("none") /\ failures = Blank(0) /\ cooling = Blank(FALSE)
    /\ alerted = [b \in Boards |-> {}]
    /\ monitor = [b \in Boards |-> Nobody] /\ mine = [b \in Boards |-> {}]
    /\ loose = [s \in Services |-> 0]
    /\ starts = 0 /\ ends = 0 /\ slip = FALSE

At(b, x) == Head(board[b]) = x
Done(b)  == board' = [board EXCEPT ![b] = Tail(@)]
Fault    == ends + 2 * starts < MaxEnds /\ ends' = ends + 1

\* A port is busy from the time its server has bound it.
PortInUse(s) == s \in Ported /\ (loose[s] > 0 \/ \E b \in Boards : proc[b][s] = "up")

\* Not when the port is in use; the script may be missing, and Popen may fail.
Spawn(b, s) ==
    LET before == IF At(b, s) THEN 0 ELSE failures[b][s] IN
    \/ /\ PortInUse(s)
       /\ failures' = [failures EXCEPT ![b][s] = before]
       /\ UNCHANGED <<proc, ends>>
    \/ /\ ~PortInUse(s)
       /\ proc' = [proc EXCEPT ![b][s] = IF s \in Ported THEN "new" ELSE "up"]
       /\ failures' = [failures EXCEPT ![b][s] = before]
       /\ UNCHANGED ends
    \/ /\ ~PortInUse(s) /\ Fault
       /\ \E n \in {Many, before + 1} : failures' = [failures EXCEPT ![b][s] = n]
       /\ UNCHANGED proc

-----------------------------------------------------------------------------
(* The dashboard's own thread                                              *)

AlreadyRunning == \E o \in Boards : pid = o /\ board[o] # Off
\* on_mount goes on if the PID in the file is of no living process.
OnMount(b) ==
    /\ board[b] = Off /\ starts < MaxStarts /\ starts' = starts + 1
    /\ ~AlreadyRunning
    /\ board' = [board EXCEPT ![b] = <<"pid">> \o Order \o Runs]
    /\ slip' = (slip \/ \E o \in Boards : At(o, "pid"))
    /\ UNCHANGED <<pid, proc, books, monitor, mine, loose, ends>>
WritePid(b) ==
    /\ At(b, "pid") /\ Done(b) /\ pid' = b
    /\ UNCHANGED <<proc, books, monitor, mine, loose, starts, ends, slip>>
Start(b) == \E s \in Services :
    /\ At(b, s) /\ Done(b) /\ Spawn(b, s)
    /\ UNCHANGED <<pid, cooling, alerted, monitor, mine, loose, starts, slip>>

\* action_quit stops the fleet, and atexit once more; after an exception only atexit does.
Stop == <<"take", "clear">>
Leave == <<"exit">>
Quit(b) ==
    /\ board[b] = Runs
    /\ \E todo \in {Stop \o Stop \o Leave, Stop \o Leave} : board' = [board EXCEPT ![b] = todo]
    /\ UNCHANGED <<pid, proc, books, monitor, mine, loose, starts, ends, slip>>
\* Faulty: the file goes first.
TakeUnlocks(b) ==
    /\ At(b, "take") /\ Done(b) /\ pid' = Nobody
    /\ mine' = [mine EXCEPT ![b] = {s \in Services : proc[b][s] \in Live}]
    /\ UNCHANGED <<proc, books, monitor, loose, starts, ends, slip>>

Take(b) ==
    /\ At(b, "take") /\ Done(b)
    /\ mine' = [mine EXCEPT ![b] = {s \in Services : proc[b][s] \in Live}]
    /\ UNCHANGED <<pid, proc, books, monitor, loose, starts, ends, slip>>

\* What board b leaves running when it lets go of its processes but those of S.
Behind(b, S) == {s \in Services \ S : proc[b][s] \in Live}
Loosened(S)  == loose' = [s \in Services |-> IF s \in S THEN loose[s] + 1 ELSE loose[s]]
Forget(b)    == proc' = [proc EXCEPT ![b] = [s \in Services |-> "none"]]

\* Those it found are terminated, all are forgotten, and the file goes, whoever wrote it:
\* the second stop() may meet that of a dashboard started since the first.
Clear(b) ==
    /\ At(b, "clear") /\ Done(b) /\ pid' = Nobody
    /\ Loosened(Behind(b, mine[b])) /\ Forget(b)
    /\ mine' = [mine EXCEPT ![b] = {}]
    /\ slip' = (slip \/ pid \notin {b, Nobody})
    /\ UNCHANGED <<books, monitor, starts, ends>>
\* The process goes, at its end or killed, and the monitor with it; children go on.
Gone(b) ==
    /\ board' = [board EXCEPT ![b] = Off] /\ monitor' = [monitor EXCEPT ![b] = Nobody]
    /\ mine' = [mine EXCEPT ![b] = {}]
    /\ Loosened(Behind(b, {})) /\ Forget(b)
    /\ failures' = [failures EXCEPT ![b] = Blank(0)[b]]
    /\ cooling' = [cooling EXCEPT ![b] = Blank(FALSE)[b]]
    /\ alerted' = [alerted EXCEPT ![b] = {}]
    /\ UNCHANGED <<pid, starts>>
Exit(b)   == At(b, "exit") /\ Gone(b) /\ UNCHANGED <<ends, slip>>
Killed(b) == board[b] # Off /\ Fault /\ Gone(b) /\ slip' = TRUE

-----------------------------------------------------------------------------
(* The monitor                                                             *)

Dead(b, s)    == proc[b][s] \notin Live
Elsewhere(b, s) == proc[b][s] = "none" /\ PortInUse(s)
\* Faulty: how it ended is not looked at.
ExcusedAll(b, s) == proc[b][s] \in {"clean", "crash"} /\ s \in Lenient
Excused(b, s) == proc[b][s] = "clean" /\ s \in Lenient

\* A service that never ran because its port is taken, or that has done its work, is fine.
LeaveBe(b, s) ==
    /\ board[b] = Runs /\ monitor[b] = Nobody /\ Dead(b, s)
    /\ Excused(b, s) \/ Elsewhere(b, s)
    /\ failures' = [failures EXCEPT ![b][s] = 0]
    /\ UNCHANGED <<pid, board, proc, cooling, alerted, monitor, mine, loose, starts, ends, slip>>
\* Any other failure is counted, but for the time of the back-off; the first ones are
\* answered by a spawn, the next by an alert.
Fail(b, s) ==
    /\ board[b] = Runs /\ monitor[b] = Nobody /\ Dead(b, s) /\ ~cooling[b][s]
    /\ ~Excused(b, s) /\ ~Elsewhere(b, s)
    /\ failures' = [failures EXCEPT ![b][s] = IF @ = Many THEN @ ELSE @ + 1]
    /\ cooling' = [cooling EXCEPT ![b][s] = TRUE]
    /\ IF failures[b][s] < Silent
       THEN monitor' = [monitor EXCEPT ![b] = s] /\ UNCHANGED alerted
       ELSE alerted' = [alerted EXCEPT ![b] = @ \cup {s}] /\ UNCHANGED monitor
    /\ UNCHANGED <<pid, board, proc, mine, loose, starts, ends, slip>>
Cool(b, s) ==
    /\ cooling[b][s] /\ board[b] = Runs
    /\ cooling' = [cooling EXCEPT ![b][s] = FALSE]
    /\ UNCHANGED <<pid, board, proc, failures, alerted, monitor, mine, loose, starts, ends, slip>>
\* stop() does not wait for a spawn that has been decided on.
Respawn(b) ==
    /\ board[b] # Off /\ monitor[b] # Nobody
    /\ Spawn(b, monitor[b]) /\ monitor' = [monitor EXCEPT ![b] = Nobody]
    /\ slip' = (slip \/ board[b] # Runs)
    /\ UNCHANGED <<pid, board, cooling, alerted, mine, loose, starts>>

-----------------------------------------------------------------------------
(* The services                                                            *)

\* A server that finds its port bound ends.  Only of a lenient one the way it ended matters.
Bind(b, s) ==
    /\ proc[b][s] = "new"
    /\ proc' = [proc EXCEPT ![b][s] = IF PortInUse(s) THEN "crash" ELSE "up"]
    /\ UNCHANGED <<pid, board, books, monitor, mine, loose, starts, ends, slip>>
End(b, s) ==
    /\ proc[b][s] \in Live /\ Fault
    /\ \E how \in {"crash"} \cup (IF s \in Lenient THEN {"clean"} ELSE {}) : proc' = [proc EXCEPT ![b][s] = how]
    /\ UNCHANGED <<pid, board, books, monitor, mine, loose, starts, slip>>
LooseEnds(s) ==
    /\ loose[s] > 0 /\ loose' = [loose EXCEPT ![s] = @ - 1]
    /\ UNCHANGED <<pid, board, proc, books, monitor, mine, starts, ends, slip>>

Board(b) ==
    \/ OnMount(b) \/ WritePid(b) \/ Start(b) \/ Quit(b) \/ Take(b) \/ Clear(b) \/ Exit(b)
    \/ Killed(b) \/ Respawn(b)
Service(b, s) == LeaveBe(b, s) \/ Fail(b, s) \/ Cool(b, s) \/ Bind(b, s) \/ End(b, s)
FleetNext ==
    \/ \E b \in Boards : Board(b)
    \/ \E b \in Boards, s \in Services : Service(b, s)
    \/ \E s \in Services : LooseEnds(s)

\* The monitor's loop goes round, and its delays end.
FleetFairness ==
    /\ \A b \in Boards : WF_fleetVars(Respawn(b))
    /\ \A b \in Boards, s \in Services : WF_fleetVars(Cool(b, s)) /\ WF_fleetVars(Fail(b, s))
FleetSpec == FleetInit /\ [][FleetNext]_fleetVars /\ FleetFairness

-----------------------------------------------------------------------------
\* No service runs twice, unless two dashboards were let in at the same time, one was
\* killed, whose children go on, a monitor spawned behind its dashboard's stop(), or the
\* second stop() of one removed the PID file of the next.
OneInstance == slip \/ \A s \in Services :
    loose[s] + Cardinality({b \in Boards : proc[b][s] \in Live}) <= 1

\* A service that is down while its dashboard runs is started again or reported.
Told == \A b \in Boards, s \in Services :
    (board[b] = Runs /\ Dead(b, s) /\ ~(s \in Lenient /\ proc[b][s] = "clean"))
        ~> (proc[b][s] \in Live \/ s \in alerted[b] \/ board[b] # Runs \/ PortInUse(s))
=============================================================================
