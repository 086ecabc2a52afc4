------------------------------- MODULE Dream -------------------------------
(***************************************************************************)
(* dream_run of the MCP server: a synthesis that an agent may run once a   *)
(* day, under a lock that is one field of a SOIL record (sap/sap_mcp.py).  *)
(* Each agent has a record of its own; this is one of them.  The tool      *)
(* reads the record in one store operation and writes it in another, and   *)
(* every write replaces it whole.                                          *)
(***************************************************************************)
EXTENDS Naturals, Sequences

CONSTANTS Dreamers,   \* calls of dream_run, in threads of one or several servers
          Day,        \* the time between two dreams
          MaxClock, MaxDreams, MaxFaults  \* bounds: the clock, calls, faults

ASSUME DreamAssumption ==
    /\ Day \in Nat \ {0} /\ MaxClock \in Nat /\ MaxDreams \in Nat /\ MaxFaults \in Nat

Never == MaxClock + 1   \* no last_dream_at

VARIABLES clock, state,  \* the record "state"
          run,           \* each call's step and the time it began
          asked, faults, \* bounded counters
          dreams,        \* history: the atoms written, with their time
          lapse          \* history: a force, an overlap or a fault since the record was right

dreamVars == <<clock, state, run, asked, faults, dreams, lapse>>

Record(locked, last) == [locked |-> locked, last |-> last]
Awake    == [todo |-> "none", at |-> 0]
Dreaming == {d \in Dreamers : run[d].todo # "none"}

DreamInit ==
    /\ clock = 0 /\ state = Record(FALSE, Never)
    /\ run = [d \in Dreamers |-> Awake]
    /\ asked = 0 /\ faults = 0 /\ dreams = <<>> /\ lapse = FALSE

Step(d, x) == run[d].todo = x
Goes(d, x) == run' = [run EXCEPT ![d].todo = x]
GoesWrong  == faults < MaxFaults /\ faults' = faults + 1

\* Faulty: the day is not looked at.
AllowedDay == ~state.locked
\* A call that is not forced needs an open lock and a dream that is old enough, or none.
Allowed    == ~state.locked /\ (state.last = Never \/ clock - state.last >= Day)
DreamRun(d, force) ==
    /\ Step(d, "none") /\ asked < MaxDreams /\ asked' = asked + 1
    /\ ~force => Allowed
    /\ lapse' = (lapse \/ force \/ Dreaming # {})
    /\ run' = [run EXCEPT ![d] = [todo |-> "lock", at |-> clock]]
    /\ UNCHANGED <<clock, state, faults, dreams>>
\* The lock is a record without the time of the last dream; a put that fails is passed over.
Lock(d) ==
    /\ Step(d, "lock") /\ Goes(d, "dream")
    /\ \/ /\ state' = Record(TRUE, Never)
          /\ UNCHANGED <<faults, lapse>>
       \/ /\ GoesWrong
          /\ lapse' = TRUE /\ UNCHANGED state
    /\ UNCHANGED <<clock, asked, dreams>>
KnowledgePut(d) ==
    /\ Step(d, "dream") /\ Goes(d, "release")
    /\ dreams' = Append(dreams, [at |-> run[d].at, excused |-> lapse])
    /\ UNCHANGED <<clock, state, asked, faults, lapse>>
\* Whoever ends alone, and began last, leaves the time of the last dream.
Alone(d) == Dreaming = {d} /\ \A k \in DOMAIN dreams : dreams[k].at <= run[d].at
Release(d) ==
    /\ Step(d, "release") /\ run' = [run EXCEPT ![d] = Awake]
    /\ state' = Record(FALSE, run[d].at)
    /\ lapse' = (lapse /\ ~Alone(d))
    /\ UNCHANGED <<clock, asked, faults, dreams>>
\* An exception, of the database, a model or the last put, opens the lock, if that put works.
Fails(d) ==
    /\ Step(d, "dream") \/ Step(d, "release")
    /\ GoesWrong /\ run' = [run EXCEPT ![d] = Awake]
    /\ state' \in {Record(FALSE, Never), state}
    /\ lapse' = TRUE
    /\ UNCHANGED <<clock, asked, dreams>>
\* The server ends: the record stays as it is.
Dies(d) ==
    /\ ~Step(d, "none") /\ GoesWrong /\ run' = [run EXCEPT ![d] = Awake]
    /\ lapse' = TRUE
    /\ UNCHANGED <<clock, state, asked, dreams>>
Passes ==
    /\ clock < MaxClock /\ clock' = clock + 1
    /\ UNCHANGED <<state, run, asked, faults, dreams, lapse>>

DreamNext ==
    \/ Passes
    \/ \E d \in Dreamers, force \in BOOLEAN : DreamRun(d, force)
    \/ \E d \in Dreamers : Lock(d) \/ KnowledgePut(d) \/ Release(d) \/ Fails(d) \/ Dies(d)
DreamSpec == DreamInit /\ [][DreamNext]_dreamVars

-----------------------------------------------------------------------------
\* A dream that nobody forced comes a day after the one before it, unless two calls ran at
\* once or a call since then failed or died: its lock has then cost the record the time of
\* the last dream ("24h+ since last dream", dream_check).
Spaced == \A j, k \in DOMAIN dreams :
    j < k => dreams[k].excused \/ dreams[j].at + Day <= dreams[k].at

\* A lock nobody holds is one whose server died, or whose last put failed: only force opens it.
LockHeld == state.locked => Dreaming # {} \/ lapse
=============================================================================
