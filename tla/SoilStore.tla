------------------------------ MODULE SoilStore ------------------------------
(***************************************************************************)
(* One SOIL collection of core/willow_store.py: the records table, its     *)
(* vector index, its audit log, and the threads that write to it.          *)
(*                                                                         *)
(* A WillowStore serialises its own writers with a threading.Lock; threads *)
(* of different processes share only the SQLite file.  put and delete      *)
(* write without having read.  update reads first, outside any             *)
(* transaction, and opens one with its INSERT: two steps.  The hard        *)
(* deletes of metabolic.compost_pass and flags.clear_flag go to the file   *)
(* directly.                                                               *)
(***************************************************************************)
EXTENDS Naturals, Sequences, FiniteSets

CONSTANTS Ids,       \* record ids
          Fields,    \* keys of a record
          Values,    \* their values
          Unset,     \* a key a record does not have
          Threads, Procs,
          ProcOf,    \* the process (one WillowStore) of each thread
          NoThread,  \* nobody holds a store's lock
          NoRow, NoVec,
          MaxWrites, \* bound: entries of the audit log
          MaxHard    \* bound: hard deletes

Data   == [Fields -> Values \cup {Unset}]
Rowids == 1..MaxWrites
Row    == [rowid : Rowids, data : Data, deleted : BOOLEAN]

ASSUME SoilAssumption ==
    /\ ProcOf \in [Threads -> Procs]
    /\ NoThread \notin Threads
    /\ Unset \notin Values
    /\ NoRow \notin Row \cup Data
    /\ NoVec \notin Data
    /\ MaxWrites \in Nat
    /\ MaxHard \in Nat

VARIABLES rows,   \* the records table, by id
          vecs,   \* records_vec: the data each rowid was embedded from
          audit,  \* audit_log
          lock,   \* WillowStore._lock of each process
          job,    \* the update each thread is in
          hard,   \* hard deletes so far
          purged  \* history: records hard-deleted since they were last written

vars == <<rows, vecs, audit, lock, job, hard, purged>>

Ops    == {"create", "update", "delete"}
Idle   == [at |-> "idle"]
Jobs   == [at : {"read"}, id : Ids, data : Data] \cup {Idle}
Entry  == [id : Ids, op : Ops]

TypeOK ==
    /\ rows  \in [Ids -> Row \cup {NoRow}]
    /\ vecs  \in [Rowids -> Data \cup {NoVec}]
    /\ audit \in Seq(Entry)
    /\ lock  \in [Procs -> Threads \cup {NoThread}]
    /\ job   \in [Threads -> Jobs]
    /\ hard  \in 0..MaxHard
    /\ purged \subseteq Ids

Init ==
    /\ rows  = [i \in Ids |-> NoRow]
    /\ vecs  = [r \in Rowids |-> NoVec]
    /\ audit = <<>>
    /\ lock  = [p \in Procs |-> NoThread]
    /\ job   = [t \in Threads |-> Idle]
    /\ hard  = 0
    /\ purged = {}

Live(i) == rows[i] # NoRow /\ ~rows[i].deleted

\* dict.update: the keys of d win.
Merged(old, d) == [f \in Fields |-> IF d[f] = Unset THEN old[f] ELSE d[f]]

\* SQLite gives a new row the rowid after the largest one in the table, the
\* row about to be replaced included.
NextRowid(r) ==
    /\ \A i \in Ids : rows[i] # NoRow => rows[i].rowid < r
    /\ r > 1 => \E i \in Ids : rows[i] # NoRow /\ rows[i].rowid = r - 1

\* Faulty: the store's lock not asked for.
FreeUnlocked(t) == job[t] = Idle

Free(t) == lock[ProcOf[t]] = NoThread /\ job[t] = Idle

Logged(i, op) ==
    /\ Len(audit) < MaxWrites
    /\ audit' = Append(audit, [id |-> i, op |-> op])

\* Faulty: no DELETE FROM records_vec when there is no embedding.
ReplaceKeepsVec(i, d) ==
    \E r \in Rowids :
        /\ NextRowid(r)
        /\ rows' = [rows EXCEPT ![i] = [rowid |-> r, data |-> d, deleted |-> FALSE]]
        /\ \E v \in {d, vecs[r]} : vecs' = [vecs EXCEPT ![r] = v]

\* INSERT OR REPLACE: a fresh rowid, not deleted; then the vector of that rowid
\* is written, or removed when there is no embedding for the data.
Replace(i, d) ==
    \E r \in Rowids :
        /\ NextRowid(r)
        /\ rows' = [rows EXCEPT ![i] = [rowid |-> r, data |-> d, deleted |-> FALSE]]
        /\ \E v \in {d, NoVec} : vecs' = [vecs EXCEPT ![r] = v]

Put(t, i, d) ==
    /\ Free(t)
    /\ Replace(i, d)
    /\ Logged(i, "create")
    /\ purged' = purged \ {i}
    /\ UNCHANGED <<lock, job, hard>>

\* update, up to its SELECT: the thread holds the lock and knows what to write.
UpdateRead(t, i, d) ==
    /\ Free(t)
    /\ lock' = [lock EXCEPT ![ProcOf[t]] = t]
    /\ job' = [job EXCEPT ![t] =
          [at |-> "read", id |-> i, data |-> IF Live(i) THEN Merged(rows[i].data, d) ELSE d]]
    /\ UNCHANGED <<rows, vecs, audit, hard, purged>>

Done(t) ==
    /\ lock' = [lock EXCEPT ![ProcOf[t]] = NoThread]
    /\ job' = [job EXCEPT ![t] = Idle]

UpdateWrite(t) ==
    /\ job[t] # Idle
    /\ Replace(job[t].id, job[t].data)
    /\ Logged(job[t].id, "update")
    /\ Done(t)
    /\ purged' = purged \ {job[t].id}
    /\ UNCHANGED hard

\* The merged record is too large, or the database is locked: nothing is kept.
UpdateFails(t) ==
    /\ job[t] # Idle
    /\ Done(t)
    /\ UNCHANGED <<rows, vecs, audit, hard, purged>>

\* Soft delete: the row and its vector stay.
Delete(t, i) ==
    /\ Free(t)
    /\ Live(i)
    /\ rows' = [rows EXCEPT ![i].deleted = TRUE]
    /\ Logged(i, "delete")
    /\ UNCHANGED <<vecs, lock, job, hard, purged>>

\* compost_pass and clear_flag: DELETE FROM records, no audit, no vector.
HardDelete(i) ==
    /\ hard < MaxHard
    /\ rows[i] # NoRow
    /\ rows' = [rows EXCEPT ![i] = NoRow]
    /\ hard' = hard + 1
    /\ purged' = purged \cup {i}
    /\ UNCHANGED <<vecs, audit, lock, job>>

Next ==
    \/ \E t \in Threads, i \in Ids, d \in Data : Put(t, i, d) \/ UpdateRead(t, i, d)
    \/ \E t \in Threads : UpdateWrite(t) \/ UpdateFails(t)
    \/ \E t \in Threads, i \in Ids : Delete(t, i)
    \/ \E i \in Ids : HardDelete(i)

Spec == Init /\ [][Next]_vars

-----------------------------------------------------------------------------
(* Properties.                                                             *)

\* No two records are ever found under one rowid, so a vector has one record.
RowidsDistinct ==
    \A i, j \in Ids :
        i # j /\ rows[i] # NoRow /\ rows[j] # NoRow => rows[i].rowid # rows[j].rowid

\* search_semantic never finds a record by what it used to say: the vector at a
\* row's rowid, if there is one, is that of its present data, although replaced
\* and hard-deleted rows leave their vectors behind and rowids come back.
VectorsCurrent ==
    /\ RowidsDistinct
    /\ \A i \in Ids : rows[i] # NoRow => vecs[rows[i].rowid] \in {rows[i].data, NoVec}

\* The log's last entry about a record is one of these operations.
LastIn(i, ops) ==
    \E n \in 1..Len(audit) :
        /\ audit[n].id = i /\ audit[n].op \in ops
        /\ \A m \in 1..Len(audit) : audit[m].id = i => m <= n

\* willow_store.py:11, "every write is logged": the last entry of a record tells
\* whether it can be read.  Only a hard delete makes the log wrong, about a
\* record that is gone, until that record is written again.
AuditTells ==
    \A i \in Ids :
        IF i \in purged THEN rows[i] = NoRow
                       ELSE Live(i) <=> LastIn(i, {"create", "update"})

\* In one process a collection behaves as a map written one operation at a time,
\* whatever the threads: an update merges into what is there when it writes, not
\* into something older.
Content == [i \in Ids |-> IF Live(i) THEN rows[i].data ELSE NoRow]
Contract == INSTANCE SoilContract WITH
    Absent <- NoRow, Merge <- Merged, content <- Content, log <- audit
KeepsContract == Contract!Spec

\* What makes it so: the store's lock is held exactly by the thread that is
\* between the two halves of an update, and what that thread is about to write
\* is still a merge into the present record, or the record is gone.
LockGuards ==
    /\ \A p \in Procs : lock[p] # NoThread =>
          ProcOf[lock[p]] = p /\ job[lock[p]] # Idle
    /\ \A t \in Threads : job[t] # Idle =>
          /\ lock[ProcOf[t]] = t
          /\ \E d \in Data : job[t].data =
                IF Live(job[t].id) THEN Merged(rows[job[t].id].data, d) ELSE d
=============================================================================
