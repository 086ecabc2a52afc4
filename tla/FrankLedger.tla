----------------------------- MODULE FrankLedger -----------------------------
(***************************************************************************)
(* The FRANK ledger: the hash-chained table frank_ledger, appended to and  *)
(* verified by core/pg_bridge.py and core/sqlite_bridge.py.                *)
(*                                                                         *)
(* An append reads the hash of the newest row and inserts a row chained to *)
(* it.  "Newest" is by created_at, which PostgreSQL sets to the start of   *)
(* the transaction; a thread of PgBridge keeps its connection, and its     *)
(* reads leave their transaction open.  SQLite sets it to the second of    *)
(* the INSERT.  Neither is the order of the commits.                       *)
(***************************************************************************)
EXTENDS Naturals, Sequences

CONSTANTS Conns,     \* connections, one per thread
          Contents,  \* what an entry says: its event_type and content
          NoDraft,   \* no append under way on a connection
          Lingering, \* reads leave a transaction open (PgBridge)
          MaxRows,   \* bound: rows of the ledger
          MaxNow     \* bound: the clock

ASSUME FrankAssumption ==
    /\ Lingering \in BOOLEAN
    /\ MaxRows \in Nat
    /\ MaxNow \in Nat

VARIABLES ledger, \* the rows, in the order of their commits
          now,    \* the database server's clock
          began,  \* start of each connection's transaction, 0 when it has none
          draft,  \* prev_hash an append under way has read
          writers \* history: the connections that wrote a row

frankVars == <<ledger, now, began, draft, writers>>

\* sha256 over the previous hash and the payload: it stands for everything it
\* was computed from.
Hashes == Seq(Contents)
NoHash == <<>>
Hashed(prev, x) == Append(prev, x)

Drafts == [prev : Hashes]
LedgerRow == [content : Contents, prev : Hashes, hash : Hashes, created : 1..MaxNow]

FrankTypeOK ==
    /\ ledger \in Seq(LedgerRow)
    /\ now    \in 0..MaxNow
    /\ began  \in [Conns -> 0..MaxNow]
    /\ draft  \in [Conns -> Drafts \cup {NoDraft}]
    /\ writers \subseteq Conns

FrankInit ==
    /\ ledger = <<>>
    /\ now    = 0
    /\ began  = [c \in Conns |-> 0]
    /\ draft  = [c \in Conns |-> NoDraft]
    /\ writers = {}

Rows(L) == 1..Len(L)

\* ORDER BY created_at; rows of one instant come in the order of insertion.
Before(L, m, n) ==
    \/ L[m].created < L[n].created
    \/ L[m].created = L[n].created /\ m < n

\* Faulty: the oldest row's hash.
LatestAsc ==
    IF ledger = <<>> THEN {NoHash}
    ELSE {ledger[n].hash : n \in {k \in Rows(ledger) :
             \A m \in Rows(ledger) : ledger[m].created >= ledger[k].created}}

\* Faulty: the hash of a row that is not committed.
LatestDirty ==
    {NoHash} \cup {Hashed(draft[c].prev, x) : c \in {d \in Conns : draft[d] # NoDraft},
                                             x \in Contents}

\* ORDER BY created_at DESC LIMIT 1: of rows of one instant, the one met first.
Latest ==
    IF ledger = <<>> THEN {NoHash}
    ELSE {ledger[n].hash : n \in {k \in Rows(ledger) :
             \A m \in Rows(ledger) \ {k} :
                \/ ledger[m].created < ledger[k].created
                \/ ledger[m].created = ledger[k].created /\ k < m}}

\* A statement on an idle connection starts a transaction.
InTransaction(c) ==
    IF began[c] # 0 THEN UNCHANGED <<now, began>>
    ELSE \E s \in {now, now + 1} :
            /\ s \in 1..MaxNow
            /\ now' = s
            /\ began' = [began EXCEPT ![c] = s]

\* ledger_read, ledger_verify or any other query that does not commit.
Read(c) ==
    /\ Lingering
    /\ draft[c] = NoDraft
    /\ began[c] = 0
    /\ InTransaction(c)
    /\ UNCHANGED <<ledger, draft, writers>>

\* Some other method of the bridge commits.
Commit(c) ==
    /\ draft[c] = NoDraft
    /\ began[c] # 0
    /\ began' = [began EXCEPT ![c] = 0]
    /\ UNCHANGED <<ledger, now, draft, writers>>

AppendSelect(c) ==
    /\ draft[c] = NoDraft
    /\ InTransaction(c)
    /\ \E h \in Latest : draft' = [draft EXCEPT ![c] = [prev |-> h]]
    /\ UNCHANGED <<ledger, writers>>

Close(c) ==
    /\ began' = [began EXCEPT ![c] = 0]
    /\ draft' = [draft EXCEPT ![c] = NoDraft]

AppendCommit(c, x) ==
    /\ draft[c] # NoDraft
    /\ Len(ledger) < MaxRows
    /\ ledger' = Append(ledger, [content |-> x, prev |-> draft[c].prev,
                                 hash |-> Hashed(draft[c].prev, x), created |-> began[c]])
    /\ Close(c)
    /\ writers' = writers \cup {c}
    /\ UNCHANGED now

\* A failed statement or a lost connection: the next _ensure_conn rolls back.
AppendFails(c) ==
    /\ draft[c] # NoDraft
    /\ Close(c)
    /\ UNCHANGED <<ledger, now, writers>>

FrankNext ==
    \E c \in Conns :
        \/ Read(c) \/ Commit(c)
        \/ AppendSelect(c) \/ AppendFails(c)
        \/ \E x \in Contents : AppendCommit(c, x)

FrankSpec == FrankInit /\ [][FrankNext]_frankVars

-----------------------------------------------------------------------------
(* ledger_verify.                                                          *)

\* stored_hash of the row the loop met before row n.
PrevHash(L, n) ==
    LET S == {m \in Rows(L) : Before(L, m, n)}
    IN  IF S = {} THEN NoHash
        ELSE L[CHOOSE m \in S : \A k \in S \ {m} : Before(L, k, m)].hash

\* Faulty: each row checked against its own prev_hash only.
RowVerifiesAlone(L, n) == L[n].hash = Hashed(L[n].prev, L[n].content)

RowVerifies(L, n) ==
    /\ L[n].hash = Hashed(PrevHash(L, n), L[n].content)
    /\ L[n].prev = PrevHash(L, n)

Verified(L) == \A n \in Rows(L) : RowVerifies(L, n)

-----------------------------------------------------------------------------
(* Properties.                                                             *)

\* pg_bridge.py:1211, "single-writer model assumed": that is enough, as long as
\* no two rows were stamped alike.  Reads, failures, lingering transactions and
\* the unfinished appends of the other connections do no harm.
Distinct ==
    \A m, n \in Rows(ledger) : m # n => ledger[m].created # ledger[n].created
SoleWriter(c) == writers \subseteq {c} /\ Distinct
SoleWriterVerifies == \A c \in Conns : SoleWriter(c) => Verified(ledger)

\* Whatever the connections do, a row is chained to a row committed before it
\* or starts a chain: its hash commits to rows that are all in the ledger.
Rooted ==
    \A n \in Rows(ledger) :
        /\ ledger[n].hash = Hashed(ledger[n].prev, ledger[n].content)
        /\ ledger[n].prev = NoHash \/ \E m \in 1..(n - 1) : ledger[m].hash = ledger[n].prev

\* What makes it so: the rows of a sole writer are committed in the order of
\* created_at, each chained to the row before it, and so is its next one.
LastHash == IF ledger = <<>> THEN NoHash ELSE ledger[Len(ledger)].hash
ChainInOrder(c) ==
    /\ \A n \in Rows(ledger) :
          /\ ledger[n].prev = IF n = 1 THEN NoHash ELSE ledger[n - 1].hash
          /\ ledger[n].hash = Hashed(ledger[n].prev, ledger[n].content)
          /\ ledger[n].created <= now
          /\ \A m \in 1..(n - 1) : ledger[m].created < ledger[n].created
          /\ began[c] # 0 => ledger[n].created <= began[c]
    /\ began[c] <= now
    /\ draft[c] # NoDraft => began[c] # 0 /\ draft[c].prev = LastHash
SoleWriterInOrder == \A c \in Conns : SoleWriter(c) => ChainInOrder(c)

Newest(L, n) == \A m \in Rows(L) \ {n} : Before(L, m, n)
Without(L, n) == [m \in 1..(Len(L) - 1) |-> IF m < n THEN L[m] ELSE L[m + 1]]

\* A ledger that verifies stops doing so when a row's content, or any row but
\* the newest, is taken away (adversarial/test_integrity.py does it with the
\* hashes).
TamperEvident ==
    Verified(ledger) =>
        \A n \in Rows(ledger) :
            /\ \A x \in Contents \ {ledger[n].content} :
                  ~Verified([ledger EXCEPT ![n].content = x])
            /\ ~Newest(ledger, n) => ~Verified(Without(ledger, n))
=============================================================================
