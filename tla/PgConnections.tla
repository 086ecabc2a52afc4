--------------------------- MODULE PgConnections ---------------------------
(***************************************************************************)
(* How a process gets its PostgreSQL connections, in core/pg_bridge.py:    *)
(* one pool per process, created by whoever needs it first; a direct       *)
(* connection when the pool cannot serve; a circuit breaker in front.      *)
(*                                                                         *)
(* Threads get a connection, use it, probe it (_ensure_conn) and release   *)
(* it, while the database server goes down and comes back.  Releasing asks *)
(* for the pool as well, and so may create it.  Times are ages: a Tick     *)
(* makes every recorded failure one unit older.                            *)
(***************************************************************************)
EXTENDS Naturals, Sequences, FiniteSets, SequencesExt

CONSTANTS Threads,   \* threads of the process
          Conns,     \* identities of connections
          NoConn,    \* no connection
          MaxConn,   \* connections of the pool
          Threshold, \* _CB_THRESHOLD
          Window,    \* _CB_WINDOW, in ticks
          Reset      \* _CB_RESET, in ticks

ASSUME PgAssumption ==
    /\ NoConn \notin Conns
    /\ {MaxConn, Threshold, Window, Reset} \subseteq Nat \ {0}

VARIABLES up,       \* the database server answers
          stale,    \* connections the server has dropped
          pooled,   \* _pool is not None
          idle,     \* connections waiting in the pool
          used,     \* connections the pool has handed out
          failures, \* ages of _cb_failures
          openFor,  \* ticks left until _cb_open_until
          pc,       \* where each thread is
          goal,     \* why it is in _get_pool: to get a connection, to release
                    \* its own, or to release it and get another one
          held,     \* the connection of each thread
          boot,     \* the connection that runs init_schema
          leaked,   \* history: connections an init_schema that failed kept
          past      \* history: ages of the failures since the last success

vars == <<up, stale, pooled, idle, used, failures, openFor, pc, goal, held, boot, leaked, past>>
poolVars    == <<pooled, idle, used, leaked>>
breakerVars == <<failures, openFor, past>>
serverVars  == <<up, stale>>

\* A failure is remembered in the history until it can matter no more.
Memory == Window + Reset

Places == {"out", "pool", "create", "schema", "put", "take", "direct",
           "succeeded", "failed", "in"}

TypeOK ==
    /\ up       \in BOOLEAN
    /\ stale    \subseteq Conns
    /\ pooled   \in BOOLEAN
    /\ idle     \subseteq Conns
    /\ used     \subseteq Conns
    /\ failures \in Seq(0..Window)
    /\ openFor  \in 0..Reset
    /\ pc       \in [Threads -> Places]
    /\ goal     \in [Threads -> {"get", "release", "renew"}]
    /\ held     \in [Threads -> Conns \cup {NoConn}]
    /\ boot     \in [Threads -> Conns \cup {NoConn}]
    /\ leaked   \subseteq Conns
    /\ past     \in Seq(0..Memory)

Init ==
    /\ up = TRUE
    /\ stale    = {}
    /\ pooled   = FALSE
    /\ idle     = {}
    /\ used     = {}
    /\ failures = <<>>
    /\ openFor  = 0
    /\ pc       = [t \in Threads |-> "out"]
    /\ goal     = [t \in Threads |-> "get"]
    /\ held     = [t \in Threads |-> NoConn]
    /\ boot     = [t \in Threads |-> NoConn]
    /\ leaked   = {}
    /\ past     = <<>>

\* Connections somebody refers to; any other is closed.
Alive == idle \cup used \cup {held[t] : t \in Threads} \cup {boot[t] : t \in Threads}
Fresh == Conns \ Alive

\* A new connection: which identity it takes makes no difference.
NewConn == CHOOSE c \in Fresh : TRUE

Goto(t, place)   == pc' = [pc EXCEPT ![t] = place]
Hold(t, c)       == held' = [held EXCEPT ![t] = c]

(***************************************************************************)
(* The pool of psycopg2.  It connects when nothing is idle and fails when  *)
(* all of its connections are out.  It takes back only what it handed out, *)
(* and keeps one connection, unless it is known to be broken.              *)
(***************************************************************************)
Obtain(c) ==
    \/ /\ c \in idle
       /\ idle' = idle \ {c}
       /\ used' = used \cup {c}
       /\ UNCHANGED stale
    \/ /\ idle = {}
       /\ Cardinality(used) < MaxConn
       /\ up
       /\ c = NewConn
       /\ used' = used \cup {c}
       /\ stale' = stale \ {c}
       /\ UNCHANGED idle

CannotObtain == idle = {} /\ (Cardinality(used) = MaxConn \/ ~ up)

PutBack(c) ==
    /\ used' = used \ {c}
    /\ \/ idle' = IF idle = {} THEN {c} ELSE idle
       \/ c \in stale /\ UNCHANGED idle

(***************************************************************************)
(* The circuit breaker.                                                    *)
(***************************************************************************)
Closed == openFor = 0

\* The failures that are not older than limit, in their order.
Within(ages, limit) ==
    LET kept[n \in 0 .. Len(ages)] ==
            IF n = 0 THEN <<>>
            ELSE IF ages[n] <= limit THEN Append(kept[n - 1], ages[n]) ELSE kept[n - 1]
    IN  kept[Len(ages)]

\* Faulty: a failure as old as the window still counts.
RecentAll(ages) == Within(ages, Window)

Recent(ages) == Within(ages, Window - 1)

AfterSuccess == <<>>

RecordFailure ==
    LET now == Append(Recent(failures), 0)
    IN  /\ failures' = now
        /\ openFor' = IF Len(now) >= Threshold THEN Reset ELSE openFor
        /\ past' = Append(past, 0)

RecordSuccess ==
    /\ failures' = AfterSuccess
    /\ openFor' = 0
    /\ past' = <<>>

(***************************************************************************)
(* get_connection: an open breaker raises at once (and leaves the thread   *)
(* where it was); otherwise the thread goes for the pool.                  *)
(***************************************************************************)
\* Faulty: a refused caller puts the reopening off.
AskAgain(t) ==
    /\ pc[t] = "out"
    /\ IF Closed THEN Goto(t, "pool") /\ UNCHANGED openFor
                 ELSE openFor' = Reset /\ UNCHANGED pc
    /\ goal' = [goal EXCEPT ![t] = "get"]
    /\ UNCHANGED <<serverVars, poolVars, failures, past, held, boot>>

Ask(t) ==
    /\ pc[t] = "out"
    /\ Closed
    /\ Goto(t, "pool")
    /\ goal' = [goal EXCEPT ![t] = "get"]
    /\ UNCHANGED <<serverVars, poolVars, breakerVars, held, boot>>

\* release_connection, from close or the end of a with.
Close(t) ==
    /\ pc[t] = "in"
    /\ Goto(t, "pool")
    /\ goal' = [goal EXCEPT ![t] = "release"]
    /\ UNCHANGED <<serverVars, poolVars, breakerVars, held, boot>>

\* _get_pool: _pool is tested without a lock.
Pool(t) ==
    /\ pc[t] = "pool"
    /\ Goto(t, IF pooled THEN "take" ELSE "create")
    /\ UNCHANGED <<serverVars, poolVars, breakerVars, goal, held, boot>>

\* What follows the release of a connection: _ensure_conn asks for another
\* one, unless the breaker is open.
Released(t) ==
    /\ Hold(t, NoConn)
    /\ IF goal[t] = "renew" /\ Closed
       THEN Goto(t, "pool") /\ goal' = [goal EXCEPT ![t] = "get"]
       ELSE Goto(t, "out") /\ UNCHANGED goal

\* An exception out of _get_pool, or out of the pool: get_connection falls
\* back to a direct connection, release_connection closes its own.
Fallback(t) ==
    \/ goal[t] = "get" /\ Goto(t, "direct") /\ UNCHANGED <<held, goal>>
    \/ goal[t] # "get" /\ Released(t)

\* ThreadedConnectionPool(minconn=1): connects once; _pool is assigned,
\* whatever it was before, and the connection is taken out again.
Create(t) ==
    /\ pc[t] = "create"
    /\ \/ /\ up
          /\ pooled' = TRUE
          /\ idle' = {}
          /\ used' = {NewConn}
          /\ stale' = stale \ {NewConn}
          /\ boot' = [boot EXCEPT ![t] = NewConn]
          /\ Goto(t, "schema")
          /\ leaked' = {}
          /\ UNCHANGED <<held, goal>>
       \/ /\ ~ up
          /\ Fallback(t)
          /\ UNCHANGED <<poolVars, stale, boot>>
    /\ UNCHANGED <<up, breakerVars>>

\* init_schema may fail (the server went away, lock_timeout): its connection
\* stays out of the pool, and nobody runs init_schema again.
Schema(t) ==
    /\ pc[t] = "schema"
    /\ \/ /\ boot[t] \notin stale
          /\ Goto(t, "put")
          /\ UNCHANGED <<held, boot, goal, leaked>>
       \/ /\ Fallback(t)
          /\ boot' = [boot EXCEPT ![t] = NoConn]
          /\ leaked' = leaked \cup ({boot[t]} \cap used)
    /\ UNCHANGED <<serverVars, pooled, idle, used, breakerVars>>

\* _pool.putconn(conn) goes to the pool of this moment, which refuses a
\* connection of another pool.
Put(t) ==
    /\ pc[t] = "put"
    /\ \/ /\ boot[t] \in used
          /\ PutBack(boot[t])
          /\ Goto(t, "take")
          /\ UNCHANGED <<held, goal>>
       \/ /\ boot[t] \notin used
          /\ Fallback(t)
          /\ UNCHANGED <<idle, used>>
    /\ boot' = [boot EXCEPT ![t] = NoConn]
    /\ UNCHANGED <<serverVars, pooled, leaked, breakerVars>>

\* getconn or putconn on the pool _get_pool has returned.
Take(t) ==
    /\ pc[t] = "take"
    /\ goal[t] = "get"
    /\ \/ /\ \E c \in Conns : Obtain(c) /\ Hold(t, c)
          /\ Goto(t, "succeeded")
       \/ /\ CannotObtain
          /\ Goto(t, "direct")
          /\ UNCHANGED <<idle, used, stale, held>>
    /\ UNCHANGED <<up, pooled, leaked, breakerVars, goal, boot>>

\* Faulty: a connection that replaces a broken one leaves it in the books.
ReturnedHeld(t) ==
    IF goal[t] = "release" /\ held[t] \in used THEN PutBack(held[t])
                                               ELSE UNCHANGED <<idle, used>>

Returned(t) ==
    IF held[t] \in used THEN PutBack(held[t]) ELSE UNCHANGED <<idle, used>>

\* Faulty: a release without effect on the thread's own reference.
GiveBackKeep(t) ==
    /\ pc[t] = "take"
    /\ goal[t] # "get"
    /\ Returned(t)
    /\ Goto(t, "in")
    /\ UNCHANGED <<serverVars, pooled, leaked, breakerVars, held, goal, boot>>

GiveBack(t) ==
    /\ pc[t] = "take"
    /\ goal[t] # "get"
    /\ Returned(t)
    /\ Released(t)
    /\ UNCHANGED <<serverVars, pooled, leaked, breakerVars, boot>>

Direct(t) ==
    /\ pc[t] = "direct"
    /\ \/ /\ up
          /\ Hold(t, NewConn)
          /\ stale' = stale \ {NewConn}
          /\ Goto(t, "succeeded")
       \/ /\ ~ up
          /\ Goto(t, "failed")
          /\ UNCHANGED <<held, stale>>
    /\ UNCHANGED <<up, poolVars, breakerVars, goal, boot>>

Succeed(t) ==
    /\ pc[t] = "succeeded"
    /\ RecordSuccess
    /\ Goto(t, "in")
    /\ UNCHANGED <<serverVars, poolVars, goal, held, boot>>

Fail(t) ==
    /\ pc[t] = "failed"
    /\ RecordFailure
    /\ Goto(t, "out")
    /\ UNCHANGED <<serverVars, poolVars, goal, held, boot>>

\* _ensure_conn: the probe of a connection the server has dropped fails; the
\* connection is released and another one is asked for.
Ensure(t) ==
    /\ pc[t] = "in"
    /\ held[t] \in stale
    /\ Goto(t, "pool")
    /\ goal' = [goal EXCEPT ![t] = "renew"]
    /\ UNCHANGED <<serverVars, poolVars, breakerVars, held, boot>>

ServerDown ==
    /\ up
    /\ up' = FALSE
    /\ stale' = Alive \ {NoConn}
    /\ UNCHANGED <<poolVars, breakerVars, pc, goal, held, boot>>

ServerUp ==
    /\ ~ up
    /\ up' = TRUE
    /\ UNCHANGED <<stale, poolVars, breakerVars, pc, goal, held, boot>>

Older(ages, limit) == Within([i \in 1 .. Len(ages) |-> ages[i] + 1], limit)

Tick ==
    /\ failures' = Older(failures, Window)
    /\ past' = Older(past, Memory)
    /\ openFor' = IF openFor = 0 THEN 0 ELSE openFor - 1
    /\ UNCHANGED <<serverVars, poolVars, pc, goal, held, boot>>

\* What a thread does without being asked again.
Proceed(t) ==
    \/ Pool(t) \/ Create(t) \/ Schema(t) \/ Put(t) \/ Take(t) \/ GiveBack(t)
    \/ Direct(t) \/ Succeed(t) \/ Fail(t)

Next ==
    \/ \E t \in Threads : Ask(t) \/ Close(t) \/ Ensure(t) \/ Proceed(t)
    \/ ServerDown \/ ServerUp \/ Tick

Spec == Init /\ [][Next]_vars

\* Threads run, and time passes.
FairSpec == Spec /\ WF_vars(Tick) /\ \A t \in Threads : WF_vars(Proceed(t))

-----------------------------------------------------------------------------
\* "Each thread in the MCP executor gets its own connection from the pool":
\* no connection is in two hands, or at once in a hand and idle, although
\* two pools may be created and a release may go to another pool than the
\* one that gave the connection.
Exclusive ==
    \A t \in Threads : held[t] # NoConn =>
        /\ held[t] \notin idle
        /\ \A u \in Threads : held[t] # boot[u] /\ (u # t => held[t] # held[u])

\* The pool's books are right: what it counts as handed out is in the hands
\* of a thread, or was lost to an init_schema that failed.  Neither a lost
\* race for the pool, nor a broken or a direct connection costs a slot.
Accounted ==
    \A c \in used \ leaked : \E t \in Threads : c \in {held[t], boot[t]}

\* The breaker opens with the failure that makes Threshold within Window and
\* stays open for Reset from the last such failure, unless a success comes
\* first: never for another reason, and never for longer.
Opening(k) == Cardinality({i \in 1..k : past[i] < past[k] + Window}) >= Threshold

BreakerExact ==
    openFor = Max({0} \cup {Reset - past[k] : k \in {n \in DOMAIN past :
                                                 past[n] <= Reset /\ Opening(n)}})

\* Once the server stays up, the breaker closes for good.
Recovers == <>[]up => <>[]Closed
=============================================================================
