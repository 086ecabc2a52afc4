---------------------------- MODULE StoreProofs ----------------------------
(***************************************************************************)
(* Theorems about what Willow keeps: the two stores, SoilStore and         *)
(* FrankLedger, and the home directory the Installer sets up.              *)
(*                                                                         *)
(* SoilStore: types, vectors and the log for any threads, processes and    *)
(* hard deletes; the lock and the refinement of SoilContract for the       *)
(* threads of one process, the setting they are promised in.               *)
(* FrankLedger: what holds of the chain whatever the connections do, why a *)
(* sole writer is enough for it to verify, and what tampering it shows.    *)
(* Installer: the API keys, the GPG key of a person and what a version     *)
(* file stands for, whichever programs are run, interrupted and run again. *)
(***************************************************************************)
EXTENDS SoilStore, FrankLedger, Installer, DataLemmas

-----------------------------------------------------------------------------
(* SoilStore.  What its steps do to a record.                              *)


\* One WillowStore object serves every thread.
OneStore == \A t, u \in Threads : ProcOf[t] = ProcOf[u]

LEMMA MergedData == ASSUME NEW old \in Data, NEW d \in Data PROVE Merged(old, d) \in Data
BY DEF Merged, Data

\* A replaced record can be read; no other record is touched.
LEMMA ReplaceLive ==
    ASSUME TypeOK, NEW i \in Ids, NEW d \in Data, Replace(i, d)
    PROVE  /\ Live(i)' /\ rows'[i].data = d
           /\ \A j \in Ids \ {i} : rows'[j] = rows[j] /\ (Live(j)' <=> Live(j))
<1> USE SoilAssumption
<1>1. PICK r \in Rowids :
        rows' = [rows EXCEPT ![i] = [rowid |-> r, data |-> d, deleted |-> FALSE]]
  BY DEF Replace
<1>2. rows'[i] = [rowid |-> r, data |-> d, deleted |-> FALSE]
  BY <1>1 DEF TypeOK
<1>3. [rowid |-> r, data |-> d, deleted |-> FALSE] # NoRow
  <2>1. [rowid |-> r, data |-> d, deleted |-> FALSE] \in Row BY DEF Row
  <2> QED BY <2>1
<1>4. Live(i)' /\ rows'[i].data = d
  BY <1>2, <1>3 DEF Live
<1>5. \A j \in Ids \ {i} : rows'[j] = rows[j]
  BY <1>1 DEF TypeOK
<1> QED BY <1>4, <1>5 DEF Live

\* A deleted record cannot be read; no other record is touched.
LEMMA DeleteLive ==
    ASSUME TypeOK, NEW t \in Threads, NEW i \in Ids, Delete(t, i)
    PROVE  /\ ~Live(i)' /\ \A j \in Ids \ {i} : rows'[j] = rows[j] /\ (Live(j)' <=> Live(j))
<1>1. rows[i] \in Row BY DEF Delete, Live, TypeOK
<1>2. rows' = [rows EXCEPT ![i] = [rows[i] EXCEPT !.deleted = TRUE]]
  BY DEF Delete
<1>3. rows'[i].deleted
  BY <1>1, <1>2 DEF TypeOK, Row
<1> QED BY <1>2, <1>3 DEF TypeOK, Live

-----------------------------------------------------------------------------
(* Types.                                                                  *)

\* A replacement and its log entry keep the tables well typed.
LEMMA ReplaceTypes ==
    ASSUME TypeOK, NEW i \in Ids, NEW d \in Data, NEW op \in Ops, Replace(i, d), Logged(i, op)
    PROVE  /\ rows'  \in [Ids -> Row \cup {NoRow}]
           /\ vecs'  \in [Rowids -> Data \cup {NoVec}]
           /\ audit' \in Seq(Entry)
<1>1. PICK r \in Rowids :
        /\ rows' = [rows EXCEPT ![i] = [rowid |-> r, data |-> d, deleted |-> FALSE]]
        /\ \E v \in {d, NoVec} : vecs' = [vecs EXCEPT ![r] = v]
  BY DEF Replace
<1>2. [rowid |-> r, data |-> d, deleted |-> FALSE] \in Row
  BY DEF Row
<1>3. [id |-> i, op |-> op] \in Entry
  BY DEF Entry
<1> QED BY <1>1, <1>2, <1>3 DEF TypeOK, Logged

\* An update in hand names a record and holds data.
LEMMA JobTypes ==
    ASSUME TypeOK, NEW t \in Threads, job[t] # Idle
    PROVE  job[t].id \in Ids /\ job[t].data \in Data
<1>1. job[t] \in [at : {"read"}, id : Ids, data : Data]
  BY DEF TypeOK, Jobs
<1> QED BY <1>1

\* Type correctness (rows, vectors, log, lock and updates in hand), for any
\* ids, data, threads, processes and bounds.
THEOREM SoilTypeOK == Spec => []TypeOK
<1>1. Init => TypeOK
  BY SoilAssumption DEF Init, TypeOK, Jobs
<1>2. TypeOK /\ [Next]_vars => TypeOK'
  <2> SUFFICES ASSUME TypeOK, [Next]_vars PROVE TypeOK'
    OBVIOUS
  <2> USE SoilAssumption
  <2>1. ASSUME NEW t \in Threads, NEW i \in Ids, NEW d \in Data, Put(t, i, d) PROVE TypeOK'
    <3>1. "create" \in Ops BY DEF Ops
    <3> QED BY <2>1, <3>1, ReplaceTypes DEF TypeOK, Put
  <2>2. ASSUME NEW t \in Threads, NEW i \in Ids, NEW d \in Data, UpdateRead(t, i, d) PROVE TypeOK'
    <3>1. Live(i) => rows[i].data \in Data
      BY DEF TypeOK, Live, Row
    <3>2. (IF Live(i) THEN Merged(rows[i].data, d) ELSE d) \in Data
      BY <3>1, MergedData
    <3>3. job' \in [Threads -> Jobs]
      BY <2>2, <3>2 DEF UpdateRead, TypeOK, Jobs
    <3>4. lock' \in [Procs -> Threads \cup {NoThread}]
      BY <2>2 DEF UpdateRead, TypeOK
    <3> QED BY <2>2, <3>3, <3>4 DEF TypeOK, UpdateRead
  <2>3. ASSUME NEW t \in Threads, UpdateWrite(t) PROVE TypeOK'
    <3>1. job[t].id \in Ids /\ job[t].data \in Data
      BY <2>3, JobTypes DEF UpdateWrite
    <3>2. /\ rows'  \in [Ids -> Row \cup {NoRow}]
          /\ vecs'  \in [Rowids -> Data \cup {NoVec}]
          /\ audit' \in Seq(Entry)
      <4>1. "update" \in Ops BY DEF Ops
      <4> QED BY <2>3, <3>1, <4>1, ReplaceTypes DEF UpdateWrite
    <3>3. job' \in [Threads -> Jobs] /\ lock' \in [Procs -> Threads \cup {NoThread}]
      BY <2>3 DEF UpdateWrite, Done, TypeOK, Jobs
    <3> QED BY <2>3, <3>2, <3>3 DEF TypeOK, UpdateWrite
  <2>4. ASSUME NEW t \in Threads, UpdateFails(t) PROVE TypeOK'
    BY <2>4 DEF TypeOK, UpdateFails, Done, Jobs
  <2>5. ASSUME NEW t \in Threads, NEW i \in Ids, Delete(t, i) PROVE TypeOK'
    <3>1. rows[i] \in Row BY <2>5 DEF Delete, Live, TypeOK
    <3>2. rows' \in [Ids -> Row \cup {NoRow}]
      BY <2>5, <3>1 DEF Delete, TypeOK, Row
    <3>3. [id |-> i, op |-> "delete"] \in Entry BY DEF Entry, Ops
    <3> QED BY <2>5, <3>2, <3>3 DEF TypeOK, Delete, Logged
  <2>6. ASSUME NEW i \in Ids, HardDelete(i) PROVE TypeOK'
    BY <2>6 DEF TypeOK, HardDelete
  <2>7. CASE UNCHANGED vars
    BY <2>7 DEF TypeOK, vars
  <2> QED BY <2>1, <2>2, <2>3, <2>4, <2>5, <2>6, <2>7 DEF Next
<1> QED BY <1>1, <1>2, PTL DEF Spec

-----------------------------------------------------------------------------
(* Vectors.                                                                *)

LEMMA ReplaceVectors ==
    ASSUME TypeOK, VectorsCurrent, NEW i \in Ids, NEW d \in Data, Replace(i, d)
    PROVE  VectorsCurrent'
<1> USE SoilAssumption
<1>1. PICK r \in Rowids :
        /\ NextRowid(r)
        /\ rows' = [rows EXCEPT ![i] = [rowid |-> r, data |-> d, deleted |-> FALSE]]
        /\ \E v \in {d, NoVec} : vecs' = [vecs EXCEPT ![r] = v]
  BY DEF Replace
<1>2. \A j \in Ids : rows[j] # NoRow => rows[j].rowid \in Rowids /\ rows[j].rowid < r
  BY <1>1 DEF TypeOK, Row, NextRowid
<1>3. rows' = [rows EXCEPT ![i] = [rowid |-> r, data |-> d, deleted |-> FALSE]] /\ rows \in [Ids -> Row \cup {NoRow}]
  BY <1>1 DEF TypeOK
<1>4. rows'[i].rowid = r /\ rows'[i].data = d /\ \A j \in Ids \ {i} : rows'[j] = rows[j]
  BY <1>3
<1>5. RowidsDistinct'
  <2> SUFFICES ASSUME NEW j \in Ids, NEW k \in Ids, j # k, rows'[j] # NoRow, rows'[k] # NoRow
               PROVE  rows'[j].rowid # rows'[k].rowid
    BY DEF RowidsDistinct
  <2>1. CASE j = i
    BY <2>1, <1>2, <1>4 DEF Rowids
  <2>2. CASE k = i
    BY <2>2, <1>2, <1>4 DEF Rowids
  <2>3. CASE j # i /\ k # i
    BY <2>3, <1>4 DEF VectorsCurrent, RowidsDistinct
  <2> QED BY <2>1, <2>2, <2>3
<1>6. vecs'[r] \in {d, NoVec} /\ \A q \in Rowids \ {r} : vecs'[q] = vecs[q]
  BY <1>1 DEF TypeOK
<1>7. ASSUME NEW j \in Ids, rows'[j] # NoRow
      PROVE  vecs'[rows'[j].rowid] \in {rows'[j].data, NoVec}
  <2>1. CASE j = i
    BY <2>1, <1>4, <1>6
  <2>2. CASE j # i
    <3>1. rows[j].rowid \in Rowids \ {r}
      BY <2>2, <1>7, <1>2, <1>4 DEF Rowids
    <3> QED BY <2>2, <3>1, <1>4, <1>6, <1>7 DEF VectorsCurrent
  <2> QED BY <2>1, <2>2
<1> QED BY <1>5, <1>7 DEF VectorsCurrent

\* A vector found at a record's rowid was made from its present data, for any
\* number of processes and hard deletes: rowids that come back had their vector
\* overwritten or removed.
THEOREM SoilVectors == Spec => []VectorsCurrent
<1>1. Init => VectorsCurrent
  BY DEF Init, VectorsCurrent, RowidsDistinct
<1>2. TypeOK /\ VectorsCurrent /\ [Next]_vars => VectorsCurrent'
  <2> SUFFICES ASSUME TypeOK, VectorsCurrent, [Next]_vars PROVE VectorsCurrent'
    OBVIOUS
  <2>1. ASSUME NEW t \in Threads, NEW i \in Ids, NEW d \in Data, Put(t, i, d)
        PROVE VectorsCurrent'
    BY <2>1, ReplaceVectors DEF Put
  <2>2. ASSUME NEW t \in Threads, UpdateWrite(t) PROVE VectorsCurrent'
    BY <2>2, ReplaceVectors, JobTypes DEF UpdateWrite
  <2>3. ASSUME NEW t \in Threads, NEW i \in Ids, Delete(t, i) PROVE VectorsCurrent'
    <3>1. rows[i] \in Row BY <2>3 DEF Delete, Live, TypeOK
    <3>2. rows' = [rows EXCEPT ![i] = [rows[i] EXCEPT !.deleted = TRUE]] /\ vecs' = vecs
      BY <2>3 DEF Delete
    <3>3. \A j \in Ids : /\ rows'[j].rowid = rows[j].rowid
                         /\ rows'[j].data = rows[j].data
                         /\ rows'[j] # NoRow => rows[j] # NoRow
      <4> SUFFICES ASSUME NEW j \in Ids
                   PROVE /\ rows'[j].rowid = rows[j].rowid
                         /\ rows'[j].data = rows[j].data
                         /\ rows'[j] # NoRow => rows[j] # NoRow
        OBVIOUS
      <4>1. CASE j = i
        BY <4>1, <3>1, <3>2, <2>3 DEF TypeOK, Row, Delete, Live
      <4>2. CASE j # i
        BY <4>2, <3>2 DEF TypeOK
      <4> QED BY <4>1, <4>2
    <3> QED BY <3>2, <3>3 DEF VectorsCurrent, RowidsDistinct
  <2>4. ASSUME NEW i \in Ids, HardDelete(i) PROVE VectorsCurrent'
    BY <2>4 DEF HardDelete, VectorsCurrent, RowidsDistinct, TypeOK
  <2>5. ASSUME UNCHANGED <<rows, vecs>> PROVE VectorsCurrent'
    BY <2>5 DEF VectorsCurrent, RowidsDistinct
  <2> QED BY <2>1, <2>2, <2>3, <2>4, <2>5 DEF Next, UpdateRead, UpdateFails, vars
<1> QED BY <1>1, <1>2, SoilTypeOK, PTL DEF Spec

-----------------------------------------------------------------------------
(* The log.                                                                *)

\* The entry just appended is the last one of its record, and of no other.
LEMMA LastAppended ==
    ASSUME TypeOK, NEW i \in Ids, NEW op \in Ops, Logged(i, op), NEW ops
    PROVE  /\ LastIn(i, ops)' <=> op \in ops
           /\ \A j \in Ids \ {i} : LastIn(j, ops)' <=> LastIn(j, ops)
<1> DEFINE n == Len(audit) + 1
<1>1. /\ Len(audit) \in Nat /\ Len(audit') = n /\ audit'[n] = [id |-> i, op |-> op]
      /\ \A m \in 1..Len(audit) : audit'[m] = audit[m]
      /\ 1..n = (1..Len(audit)) \cup {n}
  BY DEF Logged, TypeOK
<1> HIDE DEF n
<1>2. n \in 1..n /\ \A m \in 1..n : m <= n /\ (n <= m => m = n)
  BY <1>1 DEF n
<1>3. LastIn(i, ops)' <=> op \in ops
  BY <1>1, <1>2 DEF LastIn
<1>4. ASSUME NEW j \in Ids \ {i} PROVE LastIn(j, ops)' <=> LastIn(j, ops)
  <2>1. \A m \in 1..n : audit'[m].id = j => m \in 1..Len(audit)
    BY <1>1
  <2>2. \A m \in 1..Len(audit) : m \in 1..n
    BY <1>1
  <2> QED
    BY <1>1, <2>1, <2>2 DEF LastIn
<1> QED BY <1>3, <1>4

\* The log's last word on a record is whether it can be read, but for the records
\* purged since they were written.  For any threads, processes and hard deletes.
THEOREM SoilAuditTells == Spec => []AuditTells
<1>1. Init => AuditTells
  BY DEF Init, AuditTells, Live, LastIn
<1>2. TypeOK /\ AuditTells /\ [Next]_vars => AuditTells'
  <2> SUFFICES ASSUME TypeOK, AuditTells, [Next]_vars PROVE AuditTells'
    OBVIOUS
  <2> USE SoilAssumption
  <2>1. ASSUME NEW i \in Ids, NEW d \in Data, NEW op \in {"create", "update"},
               Replace(i, d), Logged(i, op), purged' = purged \ {i}
        PROVE  AuditTells'
    <3>1. Live(i)' /\ \A j \in Ids \ {i} : rows'[j] = rows[j] /\ (Live(j)' <=> Live(j))
      BY <2>1, ReplaceLive
    <3>2. LastIn(i, {"create", "update"})'
          /\ \A j \in Ids \ {i} :
                LastIn(j, {"create", "update"})' <=> LastIn(j, {"create", "update"})
      BY <2>1, LastAppended DEF Ops
    <3>3. i \notin purged' /\ \A j \in Ids \ {i} : j \in purged' <=> j \in purged
      BY <2>1
    <3> QED BY <3>1, <3>2, <3>3 DEF AuditTells
  <2>2. ASSUME NEW t \in Threads, NEW i \in Ids, NEW d \in Data, Put(t, i, d)
        PROVE AuditTells'
    BY <2>1, <2>2 DEF Put
  <2>3. ASSUME NEW t \in Threads, UpdateWrite(t) PROVE AuditTells'
    BY <2>1, <2>3, JobTypes DEF UpdateWrite
  <2>4. ASSUME NEW t \in Threads, NEW i \in Ids, Delete(t, i) PROVE AuditTells'
    <3>1. ~Live(i)' /\ \A j \in Ids \ {i} : rows'[j] = rows[j] /\ (Live(j)' <=> Live(j))
      BY <2>4, DeleteLive
    <3>2. ~LastIn(i, {"create", "update"})'
          /\ \A j \in Ids \ {i} :
                LastIn(j, {"create", "update"})' <=> LastIn(j, {"create", "update"})
      <4>1. "delete" \in Ops BY DEF Ops
      <4> QED BY <2>4, <4>1, LastAppended DEF Delete
    <3>3. i \notin purged /\ purged' = purged
      BY <2>4 DEF Delete, Live, AuditTells
    <3> QED BY <3>1, <3>2, <3>3 DEF AuditTells
  <2>5. ASSUME NEW i \in Ids, HardDelete(i) PROVE AuditTells'
    <3>1. rows'[i] = NoRow /\ \A j \in Ids \ {i} : rows'[j] = rows[j] /\ (Live(j)' <=> Live(j))
      BY <2>5 DEF HardDelete, TypeOK, Live
    <3>2. audit' = audit /\ purged' = purged \cup {i}
      BY <2>5 DEF HardDelete
    <3> QED BY <3>1, <3>2 DEF AuditTells, LastIn
  <2>6. ASSUME UNCHANGED <<rows, audit, purged>> PROVE AuditTells'
    BY <2>6 DEF AuditTells, Live, LastIn
  <2> QED BY <2>2, <2>3, <2>4, <2>5, <2>6 DEF Next, UpdateRead, UpdateFails, vars
<1> QED BY <1>1, <1>2, SoilTypeOK, PTL DEF Spec

-----------------------------------------------------------------------------
(* The lock and the contract.                                              *)

\* In one store, the thread in the second half of an update holds the lock and
\* its write is still a merge into the present record.
THEOREM SoilLockGuards == ASSUME OneStore PROVE Spec => []LockGuards
<1> USE SoilAssumption
<1>1. Init => LockGuards
  BY DEF Init, LockGuards
<1>2. TypeOK /\ LockGuards /\ [Next]_vars => LockGuards'
  <2> SUFFICES ASSUME TypeOK, LockGuards, [Next]_vars PROVE LockGuards'
    OBVIOUS
  \* Whoever finds the lock free finds every thread idle.
  <2>1. ASSUME NEW t \in Threads, Free(t) PROVE \A u \in Threads : job[u] = Idle
    BY <2>1 DEF Free, LockGuards, OneStore
  <2>2. ASSUME NEW t \in Threads, job[t] # Idle PROVE \A u \in Threads : u # t => job[u] = Idle
    BY <2>2 DEF LockGuards, OneStore
  <2>3. ASSUME NEW t \in Threads, NEW i \in Ids, NEW d \in Data, Put(t, i, d) PROVE LockGuards'
    BY <2>1, <2>3 DEF LockGuards, Put
  <2>4. ASSUME NEW t \in Threads, NEW i \in Ids, NEW d \in Data, UpdateRead(t, i, d)
        PROVE LockGuards'
    <3> DEFINE j == [at |-> "read", id |-> i,
                     data |-> IF Live(i) THEN Merged(rows[i].data, d) ELSE d]
    <3>1. /\ job' = [job EXCEPT ![t] = j] /\ job'[t] = j
          /\ lock' = [lock EXCEPT ![ProcOf[t]] = t] /\ lock'[ProcOf[t]] = t
          /\ rows' = rows
      BY <2>4 DEF UpdateRead, TypeOK
    <3>2. j # Idle
      BY DEF Idle
    <3>3. \A u \in Threads : u # t => job'[u] = Idle
      BY <2>1, <2>4, <3>1 DEF UpdateRead, TypeOK
    <3>4. j.id = i /\ j.data = IF Live(i)' THEN Merged(rows'[i].data, d) ELSE d
      BY <3>1 DEF Live
    <3>5. /\ job'[t].id = i
          /\ job'[t].data = IF Live(i)' THEN Merged(rows'[i].data, d) ELSE d
      <4> HIDE DEF j
      <4> QED BY <3>1, <3>4
    <3>6. \A p \in Procs : lock'[p] # NoThread => ProcOf[lock'[p]] = p /\ job'[lock'[p]] # Idle
      <4> SUFFICES ASSUME NEW p \in Procs, lock'[p] # NoThread
                   PROVE  ProcOf[lock'[p]] = p /\ job'[lock'[p]] # Idle
        OBVIOUS
      <4>1. CASE p = ProcOf[t]
        BY <4>1, <3>1, <3>2
      <4>2. CASE p # ProcOf[t]
        BY <4>2, <3>1, <2>1, <2>4 DEF LockGuards, TypeOK, UpdateRead
      <4> QED BY <4>1, <4>2
    <3>7. \A u \in Threads : job'[u] # Idle => u = t
      BY <3>3
    <3>8. ASSUME NEW u \in Threads, job'[u] # Idle
          PROVE  /\ lock'[ProcOf[u]] = u
                 /\ \E e \in Data : job'[u].data =
                       IF Live(i)' THEN Merged(rows'[i].data, e) ELSE e
                 /\ job'[u].id = i
      BY <3>1, <3>5, <3>7, <3>8
    <3>9. \A u \in Threads : job'[u] # Idle =>
             (Live(i)' <=> rows'[job'[u].id] # NoRow /\ ~rows'[job'[u].id].deleted)
      BY <3>8 DEF Live
    <3> HIDE DEF j
    <3> QED BY <3>6, <3>8, <3>9 DEF LockGuards, Live
  <2>5. ASSUME NEW t \in Threads, job[t] # Idle, Done(t) PROVE LockGuards'
    <3>1. \A u \in Threads : job'[u] = Idle
      BY <2>2, <2>5 DEF Done, TypeOK
    <3>2. \A p \in Procs : lock'[p] = NoThread
      <4> SUFFICES ASSUME NEW p \in Procs PROVE lock'[p] = NoThread
        OBVIOUS
      <4>1. CASE p = ProcOf[t]
        BY <4>1, <2>5 DEF Done, TypeOK
      <4>2. CASE p # ProcOf[t]
        <5>1. lock'[p] = lock[p]
          BY <4>2, <2>5 DEF Done, TypeOK
        <5>2. lock[p] \in Threads \cup {NoThread}
          BY DEF TypeOK
        <5>3. lock[p] # NoThread => lock[p] = t
          BY <2>2, <2>5, <5>2 DEF LockGuards
        <5> QED BY <4>2, <5>1, <5>3 DEF LockGuards
      <4> QED BY <4>1, <4>2
    <3> QED BY <3>1, <3>2 DEF LockGuards
  <2>6. ASSUME NEW t \in Threads, NEW i \in Ids, Delete(t, i) PROVE LockGuards'
    BY <2>1, <2>6 DEF LockGuards, Delete
  <2>7. ASSUME NEW i \in Ids, HardDelete(i) PROVE LockGuards'
    <3>1. /\ job' = job /\ lock' = lock
          /\ rows'[i] = NoRow /\ \A j \in Ids \ {i} : rows'[j] = rows[j]
      BY <2>7 DEF HardDelete, TypeOK
    <3>2. ASSUME NEW t \in Threads, job[t] # Idle
          PROVE  \E d \in Data : job[t].data =
                    IF Live(job[t].id)' THEN Merged(rows'[job[t].id].data, d) ELSE d
      <4>1. job[t].id \in Ids /\ job[t].data \in Data
        BY <3>2, JobTypes
      <4>2. CASE job[t].id = i
        BY <4>1, <4>2, <3>1 DEF Live
      <4>3. CASE job[t].id # i
        <5>1. rows'[job[t].id] = rows[job[t].id]
          BY <4>1, <4>3, <3>1
        <5>2. PICK d \in Data : job[t].data =
                IF Live(job[t].id) THEN Merged(rows[job[t].id].data, d) ELSE d
          BY <3>2 DEF LockGuards
        <5> QED BY <5>1, <5>2, <3>1 DEF Live
      <4> QED BY <4>2, <4>3
    <3> QED BY <3>1, <3>2 DEF LockGuards, Live
  <2>8. CASE UNCHANGED vars
    BY <2>8 DEF LockGuards, vars, Live
  <2> QED BY <2>3, <2>4, <2>5, <2>6, <2>7, <2>8 DEF Next, UpdateWrite, UpdateFails
<1> QED BY <1>1, <1>2, SoilTypeOK, PTL DEF Spec

\* Setting the record of i in the table sets it in the contract's map.
LEMMA ContentSet ==
    ASSUME NEW i \in Ids, NEW c,
           Content'[i] = c, \A j \in Ids \ {i} : Content'[j] = Content[j]
    PROVE  Content' = [Content EXCEPT ![i] = c]
BY DEF Content

\* One process's collection implements SoilContract: every step of a thread is
\* one atomic put, update or delete of the map, or no step at all.
THEOREM SoilKeepsContract == ASSUME OneStore PROVE Spec => KeepsContract
<1> USE SoilAssumption
<1>1. Init => Contract!Init
  BY DEF Init, Contract!Init, Content, Live
<1>2. TypeOK /\ LockGuards /\ [Next]_vars => [Contract!Next]_Contract!vars
  <2> SUFFICES ASSUME TypeOK, LockGuards, [Next]_vars PROVE [Contract!Next]_Contract!vars
    OBVIOUS
  <2>1. ASSUME NEW i \in Ids, NEW d \in Data, Replace(i, d)
        PROVE  Content' = [Content EXCEPT ![i] = d]
    <3>1. Content'[i] = d /\ \A j \in Ids \ {i} : Content'[j] = Content[j]
      BY <2>1, ReplaceLive DEF Content
    <3> QED BY <3>1, ContentSet
  <2>2. ASSUME NEW t \in Threads, NEW i \in Ids, NEW d \in Data, Put(t, i, d)
        PROVE Contract!Next
    <3>1. Contract!Put(i, d)
      BY <2>1, <2>2 DEF Put, Logged, Contract!Put, Contract!Write
    <3> QED BY <3>1 DEF Contract!Next
  <2>3. ASSUME NEW t \in Threads, UpdateWrite(t) PROVE Contract!Next
    <3>1. job[t] # Idle /\ job[t].id \in Ids /\ job[t].data \in Data
      BY <2>3, JobTypes DEF UpdateWrite
    <3>2. PICK i \in Ids : i = job[t].id
      BY <3>1
    <3>3. PICK d \in Data : job[t].data = IF Live(i) THEN Merged(rows[i].data, d) ELSE d
      BY <3>1, <3>2 DEF LockGuards
    <3>4. job[t].data = IF Content[i] = NoRow THEN d ELSE Merged(Content[i], d)
      <4>1. Live(i) => rows[i].data \in Data
        BY DEF Live, TypeOK, Row
      <4> QED BY <3>3, <4>1 DEF Content
    <3>5. Content' = [Content EXCEPT ![i] = job[t].data]
      BY <2>1, <2>3, <3>1, <3>2 DEF UpdateWrite
    <3>6. audit' = Append(audit, [id |-> i, op |-> "update"])
      BY <2>3, <3>2 DEF UpdateWrite, Logged
    <3>7. Contract!Update(i, d)
      BY <3>4, <3>5, <3>6 DEF Contract!Update, Contract!Write
    <3> QED BY <3>7 DEF Contract!Next
  <2>4. ASSUME NEW t \in Threads, NEW i \in Ids, Delete(t, i) PROVE Contract!Next
    <3>1. Content'[i] = NoRow /\ \A j \in Ids \ {i} : Content'[j] = Content[j]
      BY <2>4, DeleteLive DEF Content
    <3>2. Content[i] # NoRow
      BY <2>4 DEF Delete, Content, Live, TypeOK, Row
    <3>3. Contract!Delete(i)
      BY <2>4, <3>1, <3>2, ContentSet DEF Delete, Logged, Contract!Delete, Contract!Write
    <3> QED BY <3>3 DEF Contract!Next
  <2>5. ASSUME UNCHANGED <<rows, audit>> PROVE UNCHANGED Contract!vars
    BY <2>5 DEF Contract!vars, Content, Live
  <2>6. ASSUME NEW i \in Ids, HardDelete(i) PROVE [Contract!Next]_Contract!vars
    <3>1. Content'[i] = NoRow /\ \A j \in Ids \ {i} : Content'[j] = Content[j]
      BY <2>6 DEF HardDelete, TypeOK, Content, Live
    <3>2. Content' = [Content EXCEPT ![i] = NoRow] /\ audit' = audit
      BY <2>6, <3>1, ContentSet DEF HardDelete
    <3>3. CASE Content[i] # NoRow
      <4>1. Contract!Lose(i)
        BY <3>2, <3>3 DEF Contract!Lose
      <4> QED BY <4>1 DEF Contract!Next
    <3>4. CASE Content[i] = NoRow
      BY <3>2, <3>4 DEF Contract!vars, Content
    <3> QED BY <3>3, <3>4
  <2> QED BY <2>2, <2>3, <2>4, <2>5, <2>6 DEF Next, UpdateRead, UpdateFails, vars
<1> QED BY <1>1, <1>2, SoilTypeOK, SoilLockGuards, PTL DEF Spec, KeepsContract, Contract!Spec


-----------------------------------------------------------------------------
(* FrankLedger.  Types.                                                    *)

LEMMA LatestTypes == ASSUME FrankTypeOK PROVE Latest \subseteq Hashes
<1>1. ASSUME NEW n \in Rows(ledger) PROVE ledger[n].hash \in Hashes
  <2>1. ledger[n] \in LedgerRow
    BY DEF FrankTypeOK, Rows
  <2> QED BY <2>1 DEF LedgerRow
<1>2. NoHash \in Hashes
  BY DEF NoHash, Hashes
<1> SUFFICES ASSUME NEW h \in Latest PROVE h \in Hashes
  OBVIOUS
<1>3. CASE ledger = <<>>
  BY <1>2, <1>3 DEF Latest
<1>4. CASE ledger # <<>>
  <2>1. \E n \in Rows(ledger) : h = ledger[n].hash
    BY <1>4 DEF Latest
  <2> QED BY <2>1, <1>1
<1> QED BY <1>3, <1>4

LEMMA TransactionTypes ==
    ASSUME FrankTypeOK, NEW c \in Conns, InTransaction(c)
    PROVE  /\ now' \in 0..MaxNow /\ began' \in [Conns -> 0..MaxNow]
           /\ now <= now'
           /\ \A d \in Conns \ {c} : began'[d] = began[d]
BY FrankAssumption DEF FrankTypeOK, InTransaction

\* Type correctness of the ledger, the clock and the connections, for any
\* number of connections, contents and rows.  A row's created_at is the start
\* of a transaction that is under way, never 0.
DraftsHaveBegun == \A c \in Conns : draft[c] # NoDraft => began[c] # 0

LEMMA FrankTypes == FrankSpec => [](FrankTypeOK /\ DraftsHaveBegun)
<1> USE FrankAssumption
<1>1. FrankInit => FrankTypeOK /\ DraftsHaveBegun
  BY DEF FrankInit, FrankTypeOK, DraftsHaveBegun
<1>2. FrankTypeOK /\ DraftsHaveBegun /\ [FrankNext]_frankVars => (FrankTypeOK /\ DraftsHaveBegun)'
  <2> SUFFICES ASSUME FrankTypeOK, DraftsHaveBegun, [FrankNext]_frankVars PROVE (FrankTypeOK /\ DraftsHaveBegun)'
    OBVIOUS
  <2>1. ASSUME NEW c \in Conns, Read(c) PROVE (FrankTypeOK /\ DraftsHaveBegun)'
    <3>1. now' \in 0..MaxNow /\ began' \in [Conns -> 0..MaxNow]
      BY <2>1, TransactionTypes DEF Read
    <3>2. \A d \in Conns \ {c} : began'[d] = began[d]
      BY <2>1, TransactionTypes DEF Read
    <3> QED BY <2>1, <3>1, <3>2 DEF Read, FrankTypeOK, DraftsHaveBegun
  <2>2. ASSUME NEW c \in Conns, Commit(c) PROVE (FrankTypeOK /\ DraftsHaveBegun)'
    BY <2>2 DEF Commit, FrankTypeOK, DraftsHaveBegun
  <2>3. ASSUME NEW c \in Conns, AppendSelect(c) PROVE (FrankTypeOK /\ DraftsHaveBegun)'
    <3>1. now' \in 0..MaxNow /\ began' \in [Conns -> 0..MaxNow]
      BY <2>3, TransactionTypes DEF AppendSelect
    <3>2. \A d \in Conns \ {c} : began'[d] = began[d]
      BY <2>3, TransactionTypes DEF AppendSelect
    <3>3. began'[c] # 0
      BY <2>3 DEF AppendSelect, InTransaction, FrankTypeOK
    <3>4. PICK h \in Latest : draft' = [draft EXCEPT ![c] = [prev |-> h]]
      BY <2>3 DEF AppendSelect
    <3>5. draft' \in [Conns -> Drafts \cup {NoDraft}]
      BY <3>4, LatestTypes DEF FrankTypeOK, Drafts
    <3>6. DraftsHaveBegun'
      BY <3>2, <3>3, <3>4 DEF DraftsHaveBegun, FrankTypeOK
    <3> QED BY <2>3, <3>1, <3>5, <3>6 DEF AppendSelect, FrankTypeOK
  <2>4. ASSUME NEW c \in Conns, NEW x \in Contents, AppendCommit(c, x)
        PROVE  (FrankTypeOK /\ DraftsHaveBegun)'
    <3>1. draft[c].prev \in Hashes
      BY <2>4 DEF AppendCommit, FrankTypeOK, Drafts
    <3>2. Hashed(draft[c].prev, x) \in Hashes
      BY <3>1 DEF Hashed, Hashes
    <3>3. began[c] \in 1..MaxNow
      BY <2>4 DEF AppendCommit, FrankTypeOK, DraftsHaveBegun
    <3>4. [content |-> x, prev |-> draft[c].prev,
           hash |-> Hashed(draft[c].prev, x), created |-> began[c]] \in LedgerRow
      BY <3>1, <3>2, <3>3 DEF LedgerRow
    <3>5. ledger' \in Seq(LedgerRow)
      BY <2>4, <3>4 DEF AppendCommit, FrankTypeOK
    <3> QED BY <2>4, <3>5 DEF AppendCommit, Close, FrankTypeOK, DraftsHaveBegun
  <2>5. ASSUME NEW c \in Conns, AppendFails(c) PROVE (FrankTypeOK /\ DraftsHaveBegun)'
    BY <2>5 DEF AppendFails, Close, FrankTypeOK, DraftsHaveBegun
  <2>6. CASE UNCHANGED frankVars
    BY <2>6 DEF frankVars, FrankTypeOK, DraftsHaveBegun
  <2> QED BY <2>1, <2>2, <2>3, <2>4, <2>5, <2>6 DEF FrankNext
<1> QED BY <1>1, <1>2, PTL DEF FrankSpec

\* Type correctness for any connections, contents and bounds.
THEOREM SpecFrankTypeOK == FrankSpec => []FrankTypeOK
BY FrankTypes, PTL

-----------------------------------------------------------------------------
(* The forest of hashes.                                                   *)

\* An append under way is chained to a row that is already committed.
DraftsRooted ==
    \A c \in Conns : draft[c] # NoDraft =>
        \/ draft[c].prev = NoHash
        \/ \E m \in Rows(ledger) : ledger[m].hash = draft[c].prev

LEMMA RootedRead ==
    ASSUME FrankTypeOK, Rooted, DraftsRooted, NEW c \in Conns, AppendSelect(c)
    PROVE  (Rooted /\ DraftsRooted)'
<1>1. PICK h \in Latest : draft' = [draft EXCEPT ![c] = [prev |-> h]]
  BY DEF AppendSelect
<1>2. h = NoHash \/ \E m \in Rows(ledger) : ledger[m].hash = h
  BY <1>1 DEF Latest
<1>3. ledger' = ledger
  BY DEF AppendSelect
<1>4. draft'[c].prev = h /\ \A d \in Conns \ {c} : draft'[d] = draft[d]
  BY <1>1 DEF FrankTypeOK
<1> QED BY <1>2, <1>3, <1>4 DEF Rooted, DraftsRooted, Rows

LEMMA RootedCommit ==
    ASSUME FrankTypeOK, Rooted, DraftsRooted, NEW c \in Conns, NEW x \in Contents, AppendCommit(c, x)
    PROVE  (Rooted /\ DraftsRooted)'
<1> DEFINE n == Len(ledger) + 1
<1>1. /\ Len(ledger) \in Nat /\ Len(ledger') = n
      /\ ledger'[n].content = x /\ ledger'[n].prev = draft[c].prev
      /\ ledger'[n].hash = Hashed(draft[c].prev, x)
      /\ \A m \in Rows(ledger) : ledger'[m] = ledger[m]
  BY DEF AppendCommit, FrankTypeOK, Rows
<1>2. /\ Rows(ledger) = 1..(n - 1) /\ Rows(ledger') = Rows(ledger) \cup {n}
      /\ \A m \in Rows(ledger) : 1..(m - 1) \subseteq Rows(ledger)
  BY <1>1 DEF Rows
<1>3. draft[c].prev = NoHash \/ \E m \in Rows(ledger) : ledger[m].hash = draft[c].prev
  BY DEF DraftsRooted, AppendCommit
<1>4. Rooted'
  <2> SUFFICES ASSUME NEW k \in Rows(ledger')
               PROVE  /\ ledger'[k].hash = Hashed(ledger'[k].prev, ledger'[k].content)
                      /\ \/ ledger'[k].prev = NoHash
                         \/ \E m \in 1..(k - 1) : ledger'[m].hash = ledger'[k].prev
    BY DEF Rooted
  <2>1. CASE k = n
    BY <2>1, <1>1, <1>2, <1>3
  <2>2. CASE k \in Rows(ledger)
    BY <2>2, <1>1, <1>2 DEF Rooted
  <2> QED BY <2>1, <2>2, <1>2
<1>5. DraftsRooted'
  <2>1. \A d \in Conns : draft'[d] # NoDraft => draft'[d] = draft[d]
    BY DEF AppendCommit, Close, FrankTypeOK
  <2> QED BY <2>1, <1>1, <1>2 DEF DraftsRooted
<1> QED BY <1>4, <1>5

\* Every row commits to rows that are all in the ledger and were there before
\* it, for any number of connections, with and without lingering transactions.
THEOREM FrankRooted == FrankSpec => []Rooted
<1>1. FrankInit => Rooted /\ DraftsRooted
  BY DEF FrankInit, Rooted, DraftsRooted, Rows
<1>2. FrankTypeOK /\ Rooted /\ DraftsRooted /\ [FrankNext]_frankVars => (Rooted /\ DraftsRooted)'
  <2> SUFFICES ASSUME FrankTypeOK, Rooted, DraftsRooted, [FrankNext]_frankVars PROVE (Rooted /\ DraftsRooted)'
    OBVIOUS
  <2>1. ASSUME UNCHANGED <<ledger, draft>> PROVE (Rooted /\ DraftsRooted)'
    BY <2>1 DEF Rooted, DraftsRooted, Rows
  <2>2. ASSUME NEW c \in Conns, AppendFails(c) PROVE (Rooted /\ DraftsRooted)'
    <3>1. \A d \in Conns : draft'[d] # NoDraft => draft'[d] = draft[d]
      BY <2>2 DEF AppendFails, Close, FrankTypeOK
    <3> QED BY <2>2, <3>1 DEF AppendFails, Rooted, DraftsRooted, Rows
  <2> QED BY <2>1, <2>2, RootedRead, RootedCommit DEF FrankNext, Read, Commit, frankVars
<1> QED BY <1>1, <1>2, FrankTypes, PTL DEF FrankSpec

-----------------------------------------------------------------------------
(* A sole writer.                                                          *)

\* Timestamps are numbers.
LEMMA Stamps == ASSUME FrankTypeOK, NEW n \in Rows(ledger) PROVE ledger[n].created \in Nat
<1>1. ledger[n] \in LedgerRow
  BY DEF FrankTypeOK, Rows
<1> QED BY <1>1 DEF LedgerRow

\* On a chain in order, ledger_verify meets the rows in the order of commits.
LEMMA VerifiedInOrder ==
    ASSUME FrankTypeOK, NEW c \in Conns, ChainInOrder(c)
    PROVE  Verified(ledger)
<1> SUFFICES ASSUME NEW n \in Rows(ledger) PROVE RowVerifies(ledger, n)
  BY DEF Verified
<1> DEFINE S == {m \in Rows(ledger) : Before(ledger, m, n)}
<1>0. /\ Len(ledger) \in Nat /\ n \in 1..Len(ledger)
      /\ \A k \in Rows(ledger) : ledger[k].created \in Nat
  BY Stamps DEF FrankTypeOK, Rows
<1>1. \A m, k \in Rows(ledger) : Before(ledger, m, k) <=> m < k
  <2> SUFFICES ASSUME NEW m \in Rows(ledger), NEW k \in Rows(ledger)
               PROVE  Before(ledger, m, k) <=> m < k
    OBVIOUS
  <2>0. m \in Nat /\ k \in Nat
    BY DEF Rows
  <2>1. CASE m < k
    BY <2>0, <2>1, <1>0 DEF ChainInOrder, Before, Rows
  <2>2. CASE m = k
    BY <2>0, <2>2, <1>0 DEF Before
  <2>3. CASE k < m
    BY <2>0, <2>3, <1>0 DEF ChainInOrder, Before, Rows
  <2> QED BY <2>0, <2>1, <2>2, <2>3
<1>2. S = 1..(n - 1)
  BY <1>0, <1>1 DEF Rows
<1>3. PrevHash(ledger, n) = IF n = 1 THEN NoHash ELSE ledger[n - 1].hash
  <2>1. CASE n = 1
    <3>1. S = {} BY <1>2, <2>1
    <3> QED BY <2>1, <3>1 DEF PrevHash
  <2>2. CASE n # 1
    <3>1. n - 1 \in S /\ \A k \in S \ {n - 1} : Before(ledger, k, n - 1)
      BY <1>0, <1>1, <1>2, <2>2 DEF Rows
    <3>2. \A m \in S : (\A k \in S \ {m} : Before(ledger, k, m)) => m = n - 1
      BY <1>0, <1>1, <1>2, <3>1 DEF Rows
    <3>3. (CHOOSE m \in S : \A k \in S \ {m} : Before(ledger, k, m)) = n - 1
      BY <3>1, <3>2
    <3> QED BY <2>2, <3>1, <3>3 DEF PrevHash
  <2> QED BY <2>1, <2>2
<1> QED BY <1>3 DEF RowVerifies, ChainInOrder

\* .. and the newest row is the last one.
LEMMA LatestIsLast ==
    ASSUME FrankTypeOK, NEW c \in Conns, ChainInOrder(c), NEW h \in Latest
    PROVE  h = LastHash
<1>1. CASE ledger = <<>>
  BY <1>1 DEF Latest, LastHash
<1>2. CASE ledger # <<>>
  <2>1. PICK n \in Rows(ledger) :
          /\ h = ledger[n].hash
          /\ \A m \in Rows(ledger) \ {n} :
                \/ ledger[m].created < ledger[n].created
                \/ ledger[m].created = ledger[n].created /\ n < m
    BY <1>2 DEF Latest
  <2>2. /\ Len(ledger) \in Rows(ledger) /\ n <= Len(ledger) /\ n \in Nat /\ Len(ledger) \in Nat
    BY <1>2 DEF FrankTypeOK, Rows
  <2>3. ASSUME n # Len(ledger) PROVE FALSE
    <3>1. n \in 1..(Len(ledger) - 1)
      BY <2>2, <2>3 DEF Rows
    <3>2. ledger[n].created < ledger[Len(ledger)].created
      BY <2>2, <3>1 DEF ChainInOrder
    <3>3. ledger[n].created \in Nat /\ ledger[Len(ledger)].created \in Nat
      BY <2>2, Stamps
    <3> QED BY <2>1, <2>2, <2>3, <3>2, <3>3
  <2> QED BY <1>2, <2>1, <2>3 DEF LastHash
<1> QED BY <1>1, <1>2

\* A statement of any connection leaves the writer's chain in order: it starts a
\* transaction now or goes on in one that began after the last row.
LEMMA InOrderStatement ==
    ASSUME FrankTypeOK, NEW c \in Conns, ChainInOrder(c), NEW d \in Conns, InTransaction(d)
    PROVE  /\ now <= now' /\ began'[c] <= now'
           /\ \A n \in Rows(ledger) :
                 /\ ledger[n].created <= now'
                 /\ began'[c] # 0 => ledger[n].created <= began'[c]
<1>0. \A n \in Rows(ledger) : ledger[n].created \in Nat
  BY Stamps
<1>1. /\ now \in Nat /\ now' \in Nat /\ began[c] \in Nat /\ began'[c] \in Nat /\ now <= now'
      /\ \A n \in Rows(ledger) : ledger[n].created <= now
  BY TransactionTypes, FrankAssumption DEF FrankTypeOK, ChainInOrder
<1>2. CASE began'[c] = began[c]
  BY <1>0, <1>1, <1>2 DEF ChainInOrder
<1>3. CASE began'[c] # began[c]
  <2>1. began'[c] = now'
    BY <1>3 DEF InTransaction, FrankTypeOK
  <2> QED BY <2>1, <1>0, <1>1
<1> QED BY <1>2, <1>3

\* The row a sole writer commits goes to the end of its chain.
LEMMA InOrderCommit ==
    ASSUME FrankTypeOK, DraftsHaveBegun, NEW c \in Conns, NEW x \in Contents,
           ChainInOrder(c), AppendCommit(c, x), Distinct'
    PROVE  ChainInOrder(c)'
<1> DEFINE n == Len(ledger) + 1
<1>0. Len(ledger) \in Nat /\ n \in Nat
  BY DEF FrankTypeOK
<1>1. /\ Len(ledger') = n
      /\ ledger'[n].content = x /\ ledger'[n].prev = draft[c].prev
      /\ ledger'[n].hash = Hashed(draft[c].prev, x) /\ ledger'[n].created = began[c]
      /\ \A m \in Rows(ledger) : ledger'[m] = ledger[m]
      /\ now' = now /\ began'[c] = 0 /\ draft'[c] = NoDraft
  BY DEF AppendCommit, Close, FrankTypeOK, Rows
<1>2. began[c] # 0 /\ draft[c].prev = LastHash /\ began[c] <= now
  BY DEF AppendCommit, ChainInOrder
<1>3. LastHash = IF n = 1 THEN NoHash ELSE ledger[n - 1].hash
  BY <1>0 DEF LastHash, FrankTypeOK
<1>4. Rows(ledger) = 1..(n - 1) /\ Rows(ledger') = Rows(ledger) \cup {n} /\ n \notin Rows(ledger)
  BY <1>0, <1>1 DEF Rows
<1>5. \A m \in Rows(ledger) : ledger[m].created < began[c]
  <2> SUFFICES ASSUME NEW m \in Rows(ledger) PROVE ledger[m].created < began[c]
    OBVIOUS
  <2>1. ledger[m].created <= began[c] /\ ledger[m].created \in Nat /\ began[c] \in Nat
    BY <1>2, Stamps DEF ChainInOrder, FrankTypeOK
  <2>2. ledger'[m].created # ledger'[n].created
    BY <1>4 DEF Distinct
  <2> QED BY <2>1, <2>2, <1>1
<1>6. ASSUME NEW k \in Rows(ledger')
      PROVE  /\ ledger'[k].prev = IF k = 1 THEN NoHash ELSE ledger'[k - 1].hash
             /\ ledger'[k].hash = Hashed(ledger'[k].prev, ledger'[k].content)
             /\ ledger'[k].created <= now'
             /\ \A m \in 1..(k - 1) : ledger'[m].created < ledger'[k].created
  <2>1. CASE k = n
    <3>1. n # 1 => n - 1 \in Rows(ledger)
      BY <1>0, <1>4
    <3> HIDE DEF n
    <3> QED BY <2>1, <3>1, <1>1, <1>2, <1>3, <1>4, <1>5
  <2>2. CASE k \in Rows(ledger)
    <3>1. (k # 1 => k - 1 \in Rows(ledger)) /\ 1..(k - 1) \subseteq Rows(ledger)
      BY <1>0, <2>2 DEF Rows
    <3> QED BY <2>2, <3>1, <1>1 DEF ChainInOrder
  <2> QED BY <2>1, <2>2, <1>4
<1>7. now' \in Nat /\ began'[c] <= now'
  BY <1>1 DEF FrankTypeOK
<1> QED BY <1>1, <1>6, <1>7 DEF ChainInOrder

\* When one connection writes all rows and no two are stamped alike, commits
\* follow created_at: the chain is in order, whatever the other connections read
\* or leave unfinished, and ledger_verify accepts it.
THEOREM FrankSoleWriter == FrankSpec => [](SoleWriterInOrder /\ SoleWriterVerifies)
<1> USE FrankAssumption
<1>1. FrankInit => SoleWriterInOrder
  BY DEF FrankInit, SoleWriterInOrder, ChainInOrder, Rows
<1>2. FrankTypeOK /\ DraftsHaveBegun /\ SoleWriterInOrder /\ [FrankNext]_frankVars => SoleWriterInOrder'
  <2> SUFFICES ASSUME FrankTypeOK, DraftsHaveBegun, SoleWriterInOrder, [FrankNext]_frankVars,
                      NEW c \in Conns, SoleWriter(c)'
               PROVE  ChainInOrder(c)'
    BY DEF SoleWriterInOrder
  <2>0. Len(ledger) \in Nat /\ now \in Nat /\ began[c] \in Nat
    BY DEF FrankTypeOK
  \* Rows are never taken back: whoever is a sole writer now was one before.
  <2>1. ASSUME ledger' = ledger, writers' = writers PROVE ChainInOrder(c)
    BY <2>1 DEF SoleWriter, Distinct, SoleWriterInOrder, Rows
  <2>2. ASSUME NEW d \in Conns, Read(d) PROVE ChainInOrder(c)'
    <3>1. ledger' = ledger /\ draft' = draft /\ writers' = writers /\ InTransaction(d)
      BY <2>2 DEF Read
    <3>2. draft[c] # NoDraft => began'[c] # 0
      BY <3>1, TransactionTypes, <2>2 DEF Read, DraftsHaveBegun
    <3> QED BY <2>1, <3>1, <3>2, InOrderStatement DEF ChainInOrder, Rows, LastHash
  <2>3. ASSUME NEW d \in Conns, Commit(d) PROVE ChainInOrder(c)'
    <3>1. /\ ledger' = ledger /\ draft' = draft /\ now' = now /\ writers' = writers
          /\ began'[c] \in {0, began[c]} /\ (draft[c] # NoDraft => began'[c] = began[c])
      BY <2>3 DEF Commit, FrankTypeOK
    <3> QED BY <2>0, <2>1, <3>1 DEF ChainInOrder, Rows, LastHash
  <2>4. ASSUME NEW d \in Conns, AppendSelect(d) PROVE ChainInOrder(c)'
    <3>1. PICK h \in Latest : draft' = [draft EXCEPT ![d] = [prev |-> h]]
      BY <2>4 DEF AppendSelect
    <3>2. ledger' = ledger /\ writers' = writers /\ InTransaction(d) /\ ChainInOrder(c)
      BY <2>1, <2>4 DEF AppendSelect
    <3>3. h = LastHash
      BY <3>2, LatestIsLast
    <3>4. draft'[c] # NoDraft => began'[c] # 0 /\ draft'[c].prev = LastHash
      <4>1. CASE d = c
        <5>1. began'[c] # 0
          BY <3>2, <4>1 DEF InTransaction, FrankTypeOK
        <5> QED BY <3>1, <3>3, <4>1, <5>1 DEF FrankTypeOK
      <4>2. CASE d # c
        BY <3>1, <3>2, <4>2, TransactionTypes DEF FrankTypeOK, DraftsHaveBegun, ChainInOrder
      <4> QED BY <4>1, <4>2
    <3> QED BY <3>2, <3>4, InOrderStatement DEF ChainInOrder, Rows, LastHash
  <2>5. ASSUME NEW d \in Conns, NEW x \in Contents, AppendCommit(d, x) PROVE ChainInOrder(c)'
    <3>1. d = c /\ writers \subseteq {c}
      BY <2>5 DEF AppendCommit, SoleWriter
    <3>2. Distinct /\ Distinct'
      <4>1. \A m \in Rows(ledger) : m \in Rows(ledger') /\ ledger'[m] = ledger[m]
        BY <2>0, <2>5 DEF AppendCommit, FrankTypeOK, Rows
      <4> QED BY <4>1 DEF SoleWriter, Distinct
    <3>3. ChainInOrder(c)
      BY <3>1, <3>2 DEF SoleWriterInOrder, SoleWriter
    <3> QED BY <2>5, <3>1, <3>2, <3>3, InOrderCommit
  <2>6. ASSUME NEW d \in Conns, AppendFails(d) PROVE ChainInOrder(c)'
    <3>1. /\ ledger' = ledger /\ now' = now /\ writers' = writers
          /\ \/ began'[c] = 0 /\ draft'[c] = NoDraft
             \/ began'[c] = began[c] /\ draft'[c] = draft[c]
      BY <2>6 DEF AppendFails, Close, FrankTypeOK
    <3> QED BY <2>0, <2>1, <3>1 DEF ChainInOrder, Rows, LastHash
  <2>7. CASE UNCHANGED frankVars
    BY <2>1, <2>7 DEF frankVars, ChainInOrder, Rows, LastHash
  <2> QED BY <2>2, <2>3, <2>4, <2>5, <2>6, <2>7 DEF FrankNext
<1>3. FrankTypeOK /\ SoleWriterInOrder => SoleWriterVerifies
  BY VerifiedInOrder DEF SoleWriterInOrder, SoleWriterVerifies
<1> QED BY <1>1, <1>2, <1>3, FrankTypes, PTL DEF FrankSpec

-----------------------------------------------------------------------------
(* Tampering: ledger_verify meets the rows in the order of created_at, so  *)
(* that every row but the newest has a successor chained to it.            *)

LEMMA RowTypes ==
    ASSUME NEW L \in Seq(LedgerRow)
    PROVE  /\ Len(L) \in Nat /\ Rows(L) \in SUBSET Nat
           /\ \A n \in Rows(L) : /\ L[n] \in LedgerRow /\ L[n].created \in Nat /\ L[n].created <= MaxNow
                                 /\ L[n].hash \in Hashes /\ L[n].content \in Contents
<1>1. Len(L) \in Nat /\ Rows(L) \in SUBSET Nat /\ \A n \in Rows(L) : L[n] \in LedgerRow
  BY DEF Rows
<1>2. \A r \in LedgerRow : r.created \in Nat /\ r.created <= MaxNow /\ r.hash \in Hashes /\ r.content \in Contents
  BY FrankAssumption DEF LedgerRow
<1> QED BY <1>1, <1>2

\* Any rows have a last and a first one.
LEMMA RowsOrdered ==
    ASSUME NEW L \in Seq(LedgerRow), NEW R \in SUBSET Rows(L), R # {}
    PROVE  /\ \E n \in R : \A m \in R \ {n} : Before(L, m, n)
           /\ \E n \in R : \A m \in R \ {n} : Before(L, n, m)
<1> DEFINE T == {L[n].created : n \in R}
<1>1. /\ Len(L) \in Nat /\ R \in SUBSET Nat
      /\ \A n \in R : n <= Len(L) /\ L[n].created \in Nat /\ L[n].created <= MaxNow
  BY RowTypes DEF Rows
<1>2. T \in SUBSET Nat /\ T # {} /\ MaxNow \in Nat /\ \A t \in T : t <= MaxNow
  BY <1>1, FrankAssumption
<1>3. \E n \in R : \A m \in R \ {n} : Before(L, m, n)
  <2>1. PICK t \in T : \A u \in T : u <= t
    BY <1>2, NatMax
  <2> DEFINE N == {n \in R : L[n].created = t}
  <2>2. N \in SUBSET Nat /\ N # {} /\ \A n \in N : n <= Len(L)
    BY <1>1, <2>1
  <2>3. PICK n \in N : \A m \in N : m <= n
    BY <1>1, <2>2, NatMax
  <2>4. \A m \in R \ {n} : L[m].created <= L[n].created /\ (L[m].created = L[n].created => m <= n)
    BY <2>1, <2>3
  <2>5. n \in R /\ \A m \in R \ {n} : m # n /\ m \in Nat /\ n \in Nat /\ L[m].created \in Nat /\ L[n].created \in Nat
    BY <1>1, <2>3
  <2>6. \A m \in R \ {n} : Before(L, m, n)
    BY <2>4, <2>5 DEF Before
  <2> QED BY <2>5, <2>6
<1>4. \E n \in R : \A m \in R \ {n} : Before(L, n, m)
  <2>1. PICK t \in T : \A u \in T : t <= u
    BY <1>2, NatMin
  <2> DEFINE N == {n \in R : L[n].created = t}
  <2>2. N \in SUBSET Nat /\ N # {}
    BY <1>1, <2>1
  <2>3. PICK n \in N : \A m \in N : n <= m
    BY <1>1, <2>2, NatMin
  <2>4. \A m \in R \ {n} : L[n].created <= L[m].created /\ (L[m].created = L[n].created => n <= m)
    BY <2>1, <2>3
  <2>5. n \in R /\ \A m \in R \ {n} : m # n /\ m \in Nat /\ n \in Nat /\ L[m].created \in Nat /\ L[n].created \in Nat
    BY <1>1, <2>3
  <2>6. \A m \in R \ {n} : Before(L, n, m)
    BY <2>4, <2>5 DEF Before
  <2> QED BY <2>5, <2>6
<1> QED BY <1>3, <1>4

\* The row the loop of ledger_verify has met last.
LEMMA PrevIs ==
    ASSUME NEW L \in Seq(LedgerRow), NEW n \in Rows(L), NEW m \in Rows(L), Before(L, m, n),
           \A k \in Rows(L) \ {m} : Before(L, k, n) => Before(L, k, m)
    PROVE  PrevHash(L, n) = L[m].hash
<1> DEFINE S == {k \in Rows(L) : Before(L, k, n)}
           C == CHOOSE i \in S : \A k \in S \ {i} : Before(L, k, i)
<1>1. m \in S /\ \A k \in S \ {m} : Before(L, k, m)
  OBVIOUS
<1>2. C \in S /\ \A k \in S \ {C} : Before(L, k, C)
  BY <1>1
<1>3. \A i \in Rows(L) : i \in Nat /\ L[i].created \in Nat
  BY RowTypes
<1>4. C = m
  <2> HIDE DEF C
  <2> SUFFICES ASSUME C # m PROVE FALSE
    OBVIOUS
  <2>1. Before(L, C, m) /\ Before(L, m, C) /\ C \in Rows(L)
    BY <1>1, <1>2
  <2> QED BY <1>3, <2>1 DEF Before
<1>5. PrevHash(L, n) = IF S = {} THEN NoHash ELSE L[C].hash
  BY Zenon DEF PrevHash
<1> QED BY <1>1, <1>4, <1>5

LEMMA PrevIsNone ==
    ASSUME NEW L \in Seq(LedgerRow), NEW n \in Rows(L), \A m \in Rows(L) : ~Before(L, m, n)
    PROVE  PrevHash(L, n) = NoHash
<1>1. {k \in Rows(L) : Before(L, k, n)} = {}
  OBVIOUS
<1> QED BY <1>1, Zenon DEF PrevHash

\* Two ledgers whose rows have the same times and hashes verify against the same ones.
LEMMA PrevCases ==
    ASSUME NEW L \in Seq(LedgerRow), NEW n \in Rows(L)
    PROVE  \/ (\A m \in Rows(L) : ~Before(L, m, n)) /\ PrevHash(L, n) = NoHash
           \/ \E m \in Rows(L) : /\ Before(L, m, n)
                                 /\ \A k \in Rows(L) \ {m} : Before(L, k, n) => Before(L, k, m)
                                 /\ PrevHash(L, n) = L[m].hash
<1> DEFINE S == {k \in Rows(L) : Before(L, k, n)}
<1>1. CASE S = {}
  BY <1>1, PrevIsNone
<1>2. CASE S # {}
  <2>1. PICK m \in S : \A k \in S \ {m} : Before(L, k, m)
    BY <1>2, RowsOrdered
  <2> QED BY <2>1, PrevIs
<1> QED BY <1>1, <1>2

LEMMA PrevTypes == ASSUME NEW L \in Seq(LedgerRow), NEW n \in Rows(L) PROVE PrevHash(L, n) \in Hashes
<1>1. NoHash \in Hashes
  BY DEF NoHash, Hashes
<1>2. \A m \in Rows(L) : L[m].hash \in Hashes
  BY RowTypes
<1> QED BY <1>1, <1>2, PrevCases

LEMMA HashInjective ==
    ASSUME NEW h \in Hashes, NEW g \in Hashes, NEW x \in Contents, NEW y \in Contents
    PROVE  /\ Hashed(h, x) = Hashed(g, y) => h = g /\ x = y
           /\ Hashed(h, x) # h
<1>1. /\ Len(Hashed(h, x)) = Len(h) + 1 /\ Len(h) \in Nat /\ Hashed(h, x)[Len(h) + 1] = x
      /\ Len(Hashed(g, y)) = Len(g) + 1 /\ Len(g) \in Nat /\ Hashed(g, y)[Len(g) + 1] = y
      /\ \A i \in 1 .. Len(h) : Hashed(h, x)[i] = h[i]
      /\ \A i \in 1 .. Len(g) : Hashed(g, y)[i] = g[i]
  BY DEF Hashed, Hashes
<1>2. Hashed(h, x) # h
  BY <1>1
<1>3. ASSUME Hashed(h, x) = Hashed(g, y) PROVE h = g /\ x = y
  <2>1. Len(h) = Len(g) /\ x = y
    BY <1>1, <1>3
  <2>2. \A i \in 1 .. Len(h) : h[i] = g[i]
    BY <1>1, <1>3, <2>1
  <2> QED BY <2>1, <2>2 DEF Hashes
<1> QED BY <1>2, <1>3

LEMMA ChangeShows ==
    ASSUME NEW L \in Seq(LedgerRow), Verified(L), NEW n \in Rows(L), NEW x \in Contents \ {L[n].content}
    PROVE  ~Verified([L EXCEPT ![n].content = x])
<1> DEFINE M == [L EXCEPT ![n].content = x]
<1>1. L[n] \in LedgerRow /\ n \in DOMAIN L
  BY DEF Rows
<1>2. /\ M \in Seq(LedgerRow) /\ Rows(M) = Rows(L) /\ M[n].content = x
      /\ \A m \in Rows(L) : M[m].created = L[m].created /\ M[m].hash = L[m].hash
  BY <1>1 DEF Rows, LedgerRow
<1> HIDE DEF M
<1>3. \A m, k \in Rows(L) : Before(M, m, k) <=> Before(L, m, k)
  BY <1>2 DEF Before
<1>4. PrevHash(M, n) = PrevHash(L, n)
  BY <1>2, <1>3, PrevCases, PrevIs, PrevIsNone
<1>5. L[n].hash = Hashed(PrevHash(L, n), L[n].content)
  BY DEF Verified, RowVerifies
<1>6. ~(L[n].hash = Hashed(PrevHash(L, n), x))
  BY <1>5, RowTypes, PrevTypes, HashInjective
<1> QED BY <1>2, <1>4, <1>6 DEF Verified, RowVerifies, M

LEMMA LossShows ==
    ASSUME NEW L \in Seq(LedgerRow), Verified(L), NEW n \in Rows(L), ~Newest(L, n)
    PROVE  ~Verified(Without(L, n))
<1> DEFINE W == Without(L, n)
           F(m) == IF m < n THEN m ELSE m - 1
           G(i) == IF i < n THEN i ELSE i + 1
<1>1. /\ Len(L) \in Nat \ {0} /\ n \in 1 .. Len(L) /\ Rows(L) = 1 .. Len(L)
      /\ \A m \in Rows(L) : L[m] \in LedgerRow /\ L[m].created \in Nat /\ L[m].hash \in Hashes /\ L[m].content \in Contents
  BY RowTypes DEF Rows
<1>2. /\ W \in Seq(LedgerRow) /\ Rows(W) = 1 .. Len(L) - 1
      /\ \A i \in Rows(W) : W[i] = L[G(i)]
  BY <1>1 DEF Without, Rows
<1>3. /\ \A m \in Rows(L) \ {n} : F(m) \in Rows(W) /\ G(F(m)) = m
      /\ \A i \in Rows(W) : G(i) \in Rows(L) \ {n} /\ F(G(i)) = i
  BY <1>1, <1>2 DEF Rows
<1>4. \A i, j \in Rows(W) : Before(W, i, j) <=> Before(L, G(i), G(j))
  <2> SUFFICES ASSUME NEW i \in Rows(W), NEW j \in Rows(W) PROVE Before(W, i, j) <=> Before(L, G(i), G(j))
    OBVIOUS
  <2>1. W[i] = L[G(i)] /\ W[j] = L[G(j)]
    BY <1>2
  <2>2. i \in Nat /\ j \in Nat /\ n \in Nat
    BY <1>1, <1>2
  <2>3. i < j <=> G(i) < G(j)
    BY <2>2
  <2> HIDE DEF G, W
  <2> QED BY <2>1, <2>3 DEF Before
<1> HIDE DEF W, F, G
<1>5. \A m, k \in Rows(L) : /\ m # k => (Before(L, m, k) <=> ~Before(L, k, m))
                            /\ ~Before(L, m, m)
  BY <1>1 DEF Before
<1>6. \A i, j, k \in Rows(L) : Before(L, i, j) /\ Before(L, j, k) => Before(L, i, k)
  <2> SUFFICES ASSUME NEW i \in Rows(L), NEW j \in Rows(L), NEW k \in Rows(L), Before(L, i, j), Before(L, j, k)
               PROVE  Before(L, i, k)
    OBVIOUS
  <2>1. i \in Nat /\ j \in Nat /\ k \in Nat /\ L[i].created \in Nat /\ L[j].created \in Nat /\ L[k].created \in Nat
    BY <1>1
  <2> QED BY <2>1 DEF Before
<1> DEFINE S == {m \in Rows(L) \ {n} : Before(L, n, m)}
<1>7. S # {}
  BY <1>5 DEF Newest
<1>8. PICK s \in S : \A m \in S \ {s} : Before(L, s, m)
  BY <1>7, RowsOrdered
<1>9. \A m \in Rows(L) \ {n} : Before(L, m, s) <=> Before(L, m, n)
  <2>1. s \in Rows(L) /\ Before(L, n, s) /\ s # n
    BY <1>8
  <2>2. ASSUME NEW m \in Rows(L) \ {n}, Before(L, m, s) PROVE Before(L, m, n)
    <3>1. m \notin S
      BY <1>5, <1>8, <2>1, <2>2
    <3> QED BY <1>5, <3>1
  <2>3. ASSUME NEW m \in Rows(L) \ {n}, Before(L, m, n) PROVE Before(L, m, s)
    BY <1>6, <2>1, <2>3
  <2> QED BY <2>2, <2>3
<1>10. PrevHash(L, s) = L[n].hash
  BY <1>8, <1>9, PrevIs
<1>11. F(s) \in Rows(W) /\ W[F(s)] = L[s]
  BY <1>2, <1>3, <1>8
<1>12. PrevHash(W, F(s)) = PrevHash(L, n)
  <2>1. CASE \A m \in Rows(L) : ~Before(L, m, n)
    <3>1. \A i \in Rows(W) : ~Before(W, i, F(s))
      BY <1>3, <1>4, <1>8, <1>9, <1>11, <2>1
    <3> QED BY <1>2, <1>11, <2>1, <3>1, PrevIsNone
  <2>2. ASSUME NEW p \in Rows(L), Before(L, p, n), PrevHash(L, n) = L[p].hash,
               \A k \in Rows(L) \ {p} : Before(L, k, n) => Before(L, k, p)
        PROVE  PrevHash(W, F(s)) = PrevHash(L, n)
    <3>1. p # n
      BY <1>1, <2>2 DEF Before
    <3>2. F(p) \in Rows(W) /\ W[F(p)] = L[p] /\ Before(W, F(p), F(s))
      BY <1>2, <1>3, <1>4, <1>8, <1>9, <1>11, <2>2, <3>1
    <3>3. ASSUME NEW i \in Rows(W) \ {F(p)}, Before(W, i, F(s)) PROVE Before(W, i, F(p))
      <4>1. G(i) \in Rows(L) \ {n} /\ G(i) # p
        BY <1>3, <3>3
      <4>2. Before(L, G(i), n)
        BY <1>3, <1>4, <1>8, <1>9, <1>11, <3>3, <4>1
      <4> QED BY <1>3, <1>4, <2>2, <3>1, <3>2, <4>1, <4>2
    <3>4. \A k \in Rows(W) \ {F(p)} : Before(W, k, F(s)) => Before(W, k, F(p))
      BY <3>3
    <3>5. PrevHash(W, F(s)) = W[F(p)].hash
      BY <1>2, <1>11, <3>2, <3>4, PrevIs
    <3> QED BY <2>2, <3>2, <3>5
  <2> QED BY <2>1, <2>2, PrevCases
<1>13. L[s].hash = Hashed(L[n].hash, L[s].content) /\ L[n].hash = Hashed(PrevHash(L, n), L[n].content)
  BY <1>8, <1>10 DEF Verified, RowVerifies
<1>14. ASSUME Verified(W) PROVE FALSE
  <2>1. L[s].hash = Hashed(PrevHash(L, n), L[s].content)
    BY <1>11, <1>12, <1>14 DEF Verified, RowVerifies
  <2>2. L[n].hash = PrevHash(L, n)
    BY <1>1, <1>8, <1>13, <2>1, PrevTypes, HashInjective
  <2> QED BY <1>1, <1>13, <2>2, PrevTypes, HashInjective
<1> QED BY <1>14 DEF W

(***************************************************************************)
(* However the rows came about: if ledger_verify accepts the ledger, it    *)
(* does not any more once a row says something else, or a row other than   *)
(* the newest is missing (PgBridge.ledger_verify, ledger_append).          *)
(***************************************************************************)
THEOREM FrankTamperEvident == FrankSpec => []TamperEvident
<1>1. FrankTypeOK => TamperEvident
  BY ChangeShows, LossShows DEF FrankTypeOK, TamperEvident
<1> QED BY <1>1, SpecFrankTypeOK, PTL

-----------------------------------------------------------------------------
(* Setting up: what the steps of a run do.                                 *)

Present(f)  == disk[f] # "absent"
\* The step that puts f in its place.
Puts(f)     == IF f \in {"master", "table"} THEN "vault" ELSE f
\* Every step of a run.
Labels      == {"dirs", "telemetry", "deps", "gpg", "vaultkey", "vault", "schema", "socket", "manager", "cmb", "kb", "version", "path",
                "identity", "launcher", "chain", "ollama", "embed", "grove", "env", "mcp", "hooks", "preflight", "gate",
                "age", "talk", "features", "cards", "config", "open", "check", "boot", "video", "welcome", "covenant",
                "legal", "paths", "create", "frank", "huginn", "stands", "splash", "stamp", "auth"}

\* Nothing in the home directory goes away, but for the file "path" rewrites, and what
\* is missing for a reason is so until it is there.
Grows ==
    /\ DOMAIN disk' = Things
    /\ \A f \in Things : Present(f) \/ f \in excused => Present(f)' \/ f \in excused'
    /\ \A f \in Things \ {"path"} : Present(f) => Present(f)'
Provided(x) == \A f \in Things : Puts(f) = x => Present(f)' \/ f \in excused'

\* What the person types is forgotten at the end of a run.
Blank       == email = Local /\ fp = 0

\* A run starts without a key, types its address before it makes one, and installs
\* all it needs before it writes the version.
GateFirst ==
    prog = "seed" => \A i \in 1 .. Len(todo) : todo[i] = "gate" => fp = 0 /\ \A j \in 1 .. i - 1 : todo[j] = "preflight"
VersionLast ==
    \A p \in {"root", "seed"} : prog = p =>
      \A i \in 1 .. Len(todo) : todo[i] = "version" =>
        \A f \in Required(p) : Present(f) \/ f \in excused \/ \E j \in 1 .. i - 1 : todo[j] = Puts(f)

\* What a run has left to do stands in that order.
Ordered ==
    /\ DOMAIN disk = Things /\ todo \in Seq(Labels)
    /\ prog = "none" => Blank
    /\ GateFirst /\ VersionLast

\* k is the place of the first key of e among ks.
FirstIn(ks, k, e) == k \in 1 .. Len(ks) /\ ks[k] = e /\ \A j \in 1 .. k - 1 : ks[j] # e

\* The key in hand, and in either configuration, is the first of its address.
OwnerInv ==
    /\ keys \in Seq(Emails \cup {Local}) /\ email \in Emails \cup {Local} /\ DOMAIN owner = {"seed", "shoot"}
    /\ fp # 0 => FirstIn(keys, fp, email)
    /\ \A p \in {"seed", "shoot"} : owner[p].key # 0 => FirstIn(keys, owner[p].key, owner[p].email)

\* A key the vault has taken stays among its credentials, and there is none without the master key.
VaultInv == accepted \subseteq creds /\ (~Present("master") => accepted = {})

\* What step x of program p leaves alone, and how the run goes on from it.
Keeps(x) ==
    /\ UNCHANGED keys \/ x \in {"gpg", "create"}
    /\ UNCHANGED owner \/ x \in {"config", "stamp"}
    /\ UNCHANGED pinned \/ x = "version"
    /\ UNCHANGED vaultVars \/ x \in {"vault", "gate", "huginn"}
    /\ UNCHANGED <<email, fp>> \/ Blank' \/ x \in {"gpg", "gate", "create"}
Goes(p, x) ==
    /\ At(p, x) /\ Grows /\ Keeps(x)
    /\ prog' = "none" => Blank'
    /\ \/ todo' = Tail(todo) /\ prog' \in {p, "none"} /\ Provided(x)
       \/ todo' \in Seq(Labels) /\ prog' \in {"none", "shoot"}

LEMMA Proceeding ==
    ASSUME Ordered, NEW p, NEW x, At(p, x), NEW t, Proceed(t)
    PROVE  /\ todo' = t /\ prog' \in {p, "none"} /\ (t = <<>> => prog' = "none")
           /\ prog' = "none" => Blank'
           /\ UNCHANGED <<email, fp>> \/ Blank'
BY DEF Proceed, At, Ordered, formVars, Blank

LEMMA Leaving ==
    ASSUME Ordered, NEW p, NEW x, At(p, x), NEW d, DOMAIN d = Things, Leaves(d),
           \A f \in Things : Present(f) => d[f] # "absent",
           \A f \in Things : Puts(f) = x => d[f] # "absent"
    PROVE  Goes(p, x)
<1>1. todo' = Tail(todo) /\ prog' \in {p, "none"} /\ (prog' = "none" => Blank') /\ (UNCHANGED <<email, fp>> \/ Blank')
  BY Proceeding DEF Leaves, Continue
<1>2. disk' = d /\ excused' = {f \in excused : d[f] = "absent"} /\ UNCHANGED <<keys, owner, pinned, vaultVars>>
  BY DEF Leaves, Only, gpgVars, bookVars
<1>3. Grows /\ Provided(x)
  BY <1>2 DEF Grows, Provided, Present
<1> QED BY <1>1, <1>2, <1>3 DEF Goes, Keeps

LEMMA WrittenIs ==
    ASSUME Ordered, NEW fs
    PROVE  /\ DOMAIN Written(fs) = Things
           /\ \A f \in Things : Present(f) => Written(fs)[f] # "absent"
           /\ \A f \in Things \cap fs : Written(fs)[f] # "absent"
BY DEF Written, Ordered, Present

LEMMA KeptIs ==
    ASSUME Ordered, NEW x \in Things
    PROVE  /\ DOMAIN Kept(x) = Things
           /\ \A f \in Things : Present(f) => Kept(x)[f] # "absent"
           /\ Kept(x)[x] # "absent"
BY DEF Kept, Ordered, Present

LEMMA Writing ==
    ASSUME Ordered, NEW p, NEW x, At(p, x), NEW fs, x \in fs, x # "vault", Leaves(Written(fs))
    PROVE  Goes(p, x)
<1>1. \A f \in Things : Puts(f) = x => Written(fs)[f] # "absent"
  BY WrittenIs DEF Puts
<1> QED BY <1>1, WrittenIs, Leaving

LEMMA Keeping ==
    ASSUME Ordered, NEW p, NEW x \in Things, At(p, x), x # "vault", Leaves(Kept(x))
    PROVE  Goes(p, x)
<1>1. \A f \in Things : Puts(f) = x => Kept(x)[f] # "absent"
  BY KeptIs DEF Puts
<1> QED BY <1>1, KeptIs, Leaving

LEMMA Failing ==
    ASSUME Ordered, NEW p, NEW x, At(p, x), (x # "vault" /\ PassedOver({x})) \/ GivesUp
    PROVE  Goes(p, x)
<1>1. UNCHANGED <<disk, keys, owner, pinned, vaultVars>>
  BY DEF PassedOver, GivesUp, Only, gpgVars, bookVars
<1>2. CASE x # "vault" /\ PassedOver({x})
  <2>1. todo' = Tail(todo) /\ prog' \in {p, "none"} /\ (prog' = "none" => Blank') /\ (UNCHANGED <<email, fp>> \/ Blank')
    BY <1>2, Proceeding DEF PassedOver, Continue
  <2>2. excused' = excused \cup {f \in {x} \cap Things : disk[f] = "absent"}
    BY <1>2 DEF PassedOver, Missing
  <2>3. Grows /\ Provided(x)
    BY <1>1, <1>2, <2>2 DEF Grows, Provided, Present, Ordered, Puts
  <2> QED BY <1>1, <2>1, <2>3 DEF Goes, Keeps
<1>3. CASE GivesUp
  <2>1. todo' = <<>> /\ prog' = "none" /\ Blank'
    BY <1>3, Proceeding DEF GivesUp, Quit
  <2>2. Grows
    BY <1>1, <1>3 DEF GivesUp, Grows, Present, Ordered
  <2> QED BY <1>1, <2>1, <2>2 DEF Goes, Keeps
<1> QED BY <1>2, <1>3

LEMMA Turning ==
    ASSUME Ordered, NEW p, NEW x, At(p, x), (x \notin Things \cup {"vault"} /\ Turn) \/ Stop
    PROVE  Goes(p, x)
<1>1. UNCHANGED <<disk, keys, owner, pinned, vaultVars, excused>>
  BY DEF Turn, Stop, gpgVars, bookVars, faultVars
<1>2. Grows
  BY <1>1 DEF Grows, Present, Ordered
<1>3. CASE x \notin Things \cup {"vault"} /\ Turn
  <2>1. todo' = Tail(todo) /\ prog' \in {p, "none"} /\ (prog' = "none" => Blank') /\ (UNCHANGED <<email, fp>> \/ Blank')
    BY <1>3, Proceeding DEF Turn, Continue
  <2>2. Provided(x)
    BY <1>3 DEF Provided, Puts
  <2> QED BY <1>1, <1>2, <2>1, <2>2 DEF Goes, Keeps
<1>4. CASE Stop
  <2>1. todo' = <<>> /\ prog' = "none" /\ Blank'
    BY <1>4, Proceeding DEF Stop, Quit
  <2> QED BY <1>1, <1>2, <2>1 DEF Goes, Keeps
<1> QED BY <1>3, <1>4

LEMMA InThings == \A f \in {"telemetry", "identity", "grove", "vaultkey", "launcher", "version", "cards", "seedcfg",
                            "shootcfg", "master", "table"} : f \in Things
BY DEF Things

LEMMA Launching ==
    ASSUME Ordered, NEW p, At(p, "launcher"), Launcher
    PROVE  Goes(p, "launcher")
<1>1. CASE Leaves(Written({"launcher"}))
  BY <1>1, Writing
<1>2. CASE disk' = disk /\ Continue /\ Only /\ excused' = excused \cup Missing({"launcher"})
  <2>1. todo' = Tail(todo) /\ prog' \in {p, "none"} /\ (prog' = "none" => Blank') /\ (UNCHANGED <<email, fp>> \/ Blank')
    BY <1>2, Proceeding DEF Continue
  <2>2. UNCHANGED <<disk, keys, owner, pinned, vaultVars>>
    BY <1>2 DEF Only, gpgVars, bookVars
  <2>3. Grows /\ Provided("launcher")
    BY <1>2 DEF Grows, Provided, Present, Ordered, Puts, Missing
  <2> QED BY <2>1, <2>2, <2>3 DEF Goes, Keeps
<1> QED BY <1>1, <1>2 DEF Launcher

LEMMA RootInstalls ==
    ASSUME Ordered
    PROVE
        /\ RootDirs => Goes("root", "dirs")
        /\ RootTelemetry => Goes("root", "telemetry")
        /\ RootDeps => Goes("root", "deps")
        /\ RootSchema => Goes("root", "schema")
        /\ RootSocket => Goes("root", "socket")
        /\ RootManager => Goes("root", "manager")
        /\ RootCmb => Goes("root", "cmb")
        /\ RootKb => Goes("root", "kb")
        /\ RootPath => Goes("root", "path")
        /\ RootIdentity => Goes("root", "identity")
<1>1. RootDirs => Goes("root", "dirs")
  BY Writing, Failing DEF RootDirs
<1>2. RootTelemetry => Goes("root", "telemetry")
  BY Keeping, InThings, Failing DEF RootTelemetry
<1>3. RootDeps => Goes("root", "deps")
  BY Writing, Failing DEF RootDeps
<1>4. RootSchema => Goes("root", "schema")
  BY Writing, Failing DEF RootSchema
<1>5. RootSocket => Goes("root", "socket")
  BY Writing, Failing DEF RootSocket
<1>10. ASSUME RootManager PROVE Goes("root", "manager")
  <2>1. CASE Leaves(disk)
    <3>1. DOMAIN disk = Things /\ \A f \in Things : Present(f) => disk[f] # "absent"
      BY DEF Ordered, Present
    <3>2. \A f \in Things : Puts(f) # "manager"
      BY DEF Puts, Things
    <3> QED BY <1>10, <2>1, <3>1, <3>2, Leaving DEF RootManager
  <2> QED BY <1>10, <2>1, Failing DEF RootManager
<1>6. RootCmb => Goes("root", "cmb")
  BY Writing, Failing DEF RootCmb
<1>7. RootKb => Goes("root", "kb")
  BY Writing, Failing DEF RootKb
<1>8. RootPath => Goes("root", "path")
  BY Writing, Failing DEF RootPath
<1>9. RootIdentity => Goes("root", "identity")
  BY Keeping, InThings, Failing DEF RootIdentity
<1> QED BY <1>1, <1>2, <1>3, <1>4, <1>5, <1>6, <1>7, <1>8, <1>9, <1>10

LEMMA SeedInstalls ==
    ASSUME Ordered
    PROVE
        /\ SeedDirs => Goes("seed", "dirs")
        /\ SeedTelemetry => Goes("seed", "telemetry")
        /\ SeedDeps => Goes("seed", "deps")
        /\ SeedSchema => Goes("seed", "schema")
        /\ SeedOllama => Goes("seed", "ollama")
        /\ SeedSocket => Goes("seed", "socket")
        /\ SeedCmb => Goes("seed", "cmb")
        /\ SeedKb => Goes("seed", "kb")
        /\ SeedEmbed => Goes("seed", "embed")
        /\ SeedPath => Goes("seed", "path")
        /\ SeedIdentity => Goes("seed", "identity")
        /\ SeedEnv => Goes("seed", "env")
        /\ SeedMcp => Goes("seed", "mcp")
        /\ SeedHooks => Goes("seed", "hooks")
<1>1. SeedDirs => Goes("seed", "dirs")
  BY Writing, Failing DEF SeedDirs
<1>2. SeedTelemetry => Goes("seed", "telemetry")
  BY Keeping, InThings, Failing DEF SeedTelemetry
<1>3. SeedDeps => Goes("seed", "deps")
  BY Writing, Failing DEF SeedDeps
<1>4. SeedSchema => Goes("seed", "schema")
  BY Writing, Failing DEF SeedSchema
<1>5. SeedOllama => Goes("seed", "ollama")
  BY Writing, Failing DEF SeedOllama
<1>6. SeedSocket => Goes("seed", "socket")
  BY Writing, Failing DEF SeedSocket
<1>7. SeedCmb => Goes("seed", "cmb")
  BY Writing, Failing DEF SeedCmb
<1>8. SeedKb => Goes("seed", "kb")
  BY Writing, Failing DEF SeedKb
<1>9. SeedEmbed => Goes("seed", "embed")
  BY Writing, Failing DEF SeedEmbed
<1>10. SeedPath => Goes("seed", "path")
  BY Writing, Failing DEF SeedPath
<1>11. SeedIdentity => Goes("seed", "identity")
  BY Keeping, InThings, Failing DEF SeedIdentity
<1>12. SeedEnv => Goes("seed", "env")
  BY Writing, Failing DEF SeedEnv
<1>13. SeedMcp => Goes("seed", "mcp")
  BY Writing, Failing DEF SeedMcp
<1>14. SeedHooks => Goes("seed", "hooks")
  BY Writing, Failing DEF SeedHooks
<1> QED BY <1>1, <1>2, <1>3, <1>4, <1>5, <1>6, <1>7, <1>8, <1>9, <1>10, <1>11, <1>12, <1>13, <1>14

LEMMA RunsTyped ==
    ShootRun \in Seq(Labels) /\ <<"config", "open">> \in Seq(Labels) /\ <<"open">> \in Seq(Labels)
<1>1. ShootSteps \in Seq(Labels)
  BY DEF ShootSteps, Labels
<1>2. <<"check", "create", "stamp", "open">> \in Seq(Labels) /\ <<"check", "auth", "stamp", "open">> \in Seq(Labels)
  BY DEF Labels
<1>3. <<"config", "open">> \in Seq(Labels) /\ <<"open">> \in Seq(Labels)
  BY DEF Labels
<1> QED BY <1>1, <1>2, <1>3 DEF ShootRun

\* The pages.
LEMMA Pages ==
    ASSUME Ordered
    PROVE  /\ Preflight => Goes("seed", "preflight")
           /\ Age => Goes("seed", "age")
           /\ Talk => Goes("seed", "talk")
           /\ Features => Goes("seed", "features")
           /\ Splash => Goes("seed", "splash")
           /\ SeedOpen => Goes("seed", "open")
           /\ BootCheck => Goes("shoot", "check")
           /\ BootPage => Goes("shoot", "boot")
           /\ VideoPage => Goes("shoot", "video")
           /\ Welcome => Goes("shoot", "welcome")
           /\ Covenant => Goes("shoot", "covenant")
           /\ Legal => Goes("shoot", "legal")
           /\ PathSelect => Goes("shoot", "paths")
           /\ PgpAuth => Goes("shoot", "auth")
           /\ ShootOpen => Goes("shoot", "open")
<1>0. \A x \in {"preflight", "age", "talk", "features", "splash", "open", "check", "boot", "video", "welcome",
                "covenant", "legal", "paths", "auth", "frank", "stands"} : x \notin Things \cup {"vault"}
  BY DEF Things
<1>1. Age => Goes("seed", "age")
  BY <1>0, Turning DEF Age
<1>2. Talk => Goes("seed", "talk")
  BY <1>0, Turning DEF Talk
<1>3. Features => Goes("seed", "features")
  BY <1>0, Turning DEF Features
<1>4. Splash => Goes("seed", "splash")
  BY <1>0, Turning DEF Splash
<1>5. SeedOpen => Goes("seed", "open")
  BY <1>0, Turning DEF SeedOpen
<1>6. BootCheck => Goes("shoot", "check")
  BY <1>0, Turning DEF BootCheck
<1>7. BootPage => Goes("shoot", "boot")
  BY <1>0, Turning DEF BootPage
<1>8. VideoPage => Goes("shoot", "video")
  BY <1>0, Turning DEF VideoPage
<1>9. Welcome => Goes("shoot", "welcome")
  BY <1>0, Turning DEF Welcome
<1>10. Covenant => Goes("shoot", "covenant")
  BY <1>0, Turning DEF Covenant
<1>11. Legal => Goes("shoot", "legal")
  BY <1>0, Turning DEF Legal
<1>12. PathSelect => Goes("shoot", "paths")
  BY <1>0, Turning DEF PathSelect
<1>13. PgpAuth => Goes("shoot", "auth")
  BY <1>0, Turning DEF PgpAuth
<1>14. ShootOpen => Goes("shoot", "open")
  BY <1>0, Turning DEF ShootOpen
<1>15. Preflight => Goes("seed", "preflight")
  <2>1. ASSUME At("seed", "preflight"), Fault, Quit, UNCHANGED <<disk, gpgVars, bookVars, vaultVars, excused>>
        PROVE  GivesUp
    BY <2>1 DEF GivesUp, Only
  <2> QED BY <1>0, <2>1, Turning, Failing DEF Preflight
<1> QED BY <1>1, <1>2, <1>3, <1>4, <1>5, <1>6, <1>7, <1>8, <1>9, <1>10, <1>11, <1>12, <1>13, <1>14, <1>15

\* Quitting FRANK, and becoming shoot.py.
LEMMA Handovers ==
    ASSUME Ordered
    PROVE  /\ Frank => Goes("shoot", "frank")
           /\ Stands => Goes("shoot", "stands")
           /\ RootChain => Goes("root", "chain")
<1>0. "frank" \notin Things \cup {"vault"} /\ "stands" \notin Things \cup {"vault"}
  BY DEF Things
<1>1. ASSUME NEW x, At("shoot", x), ToConfig PROVE Goes("shoot", x)
  <2>1. todo' = <<"config", "open">> /\ (prog' = "none" => Blank') /\ (UNCHANGED <<email, fp>> \/ Blank') /\ prog' \in {"shoot", "none"}
    BY <1>1, Proceeding DEF ToConfig
  <2>2. UNCHANGED <<disk, keys, owner, pinned, vaultVars, excused>>
    BY <1>1 DEF ToConfig, gpgVars, bookVars, faultVars
  <2>3. Grows
    BY <2>2 DEF Grows, Present, Ordered
  <2> QED BY <1>1, <2>1, <2>2, <2>3, RunsTyped DEF Goes, Keeps
<1>2. Frank => Goes("shoot", "frank")
  BY <1>0, <1>1, Turning DEF Frank
<1>3. Stands => Goes("shoot", "stands")
  BY <1>0, <1>1, Turning DEF Stands
<1>4. ASSUME RootChain PROVE Goes("root", "chain")
  <2>1. At("root", "chain") /\ prog' = "shoot" /\ todo' = ShootRun /\ UNCHANGED <<disk, keys, owner, pinned, vaultVars, excused, email, fp>>
    BY <1>4 DEF RootChain, gpgVars, bookVars, faultVars, formVars
  <2>2. Grows
    BY <2>1 DEF Grows, Present, Ordered
  <2> QED BY <2>1, <2>2, RunsTyped DEF Goes, Keeps
<1> QED BY <1>2, <1>3, <1>4

\* The other steps that write: once only, or after something has been seen.
LEMMA Records ==
    ASSUME Ordered
    PROVE  /\ RootVault => Goes("root", "vaultkey")
           /\ RootLauncher => Goes("root", "launcher")
           /\ RootVersion => Goes("root", "version")
           /\ SeedGrove => Goes("seed", "grove")
           /\ SeedLauncher => Goes("seed", "launcher")
           /\ Cards => Goes("seed", "cards")
           /\ SeedVersion => Goes("seed", "version")
           /\ SeedStamp => Goes("seed", "stamp")
           /\ SeedConfig => Goes("seed", "config")
           /\ ShootConfig => Goes("shoot", "config")
           /\ ShootStamp => Goes("shoot", "stamp")
<1>1. ASSUME RootVault PROVE Goes("root", "vaultkey")
  <2>1. CASE disk' = disk /\ Quit /\ Fine /\ Only
    <3>1. Stop
      BY <2>1 DEF Stop, Only, gpgVars, bookVars, vaultVars, Fine
    <3> QED BY <1>1, <3>1, Turning DEF RootVault
  <2> QED BY <1>1, <2>1, Keeping, Failing, InThings DEF RootVault
<1>2. RootLauncher => Goes("root", "launcher")
  BY Launching, Failing DEF RootLauncher
<1>3. SeedLauncher => Goes("seed", "launcher")
  BY Launching, Failing DEF SeedLauncher
<1>4. ASSUME SeedGrove PROVE Goes("seed", "grove")
  <2>1. CASE disk["grove"] = "torn" /\ Leaves(disk)
    <3>1. DOMAIN disk = Things /\ \A f \in Things : Present(f) => disk[f] # "absent"
      BY DEF Ordered, Present
    <3>2. \A f \in Things : Puts(f) = "grove" => disk[f] # "absent"
      BY <2>1 DEF Puts
    <3> QED BY <1>4, <2>1, <3>1, <3>2, Leaving DEF SeedGrove
  <2> QED BY <1>4, <2>1, Keeping, Failing, InThings DEF SeedGrove
<1>5. Cards => Goes("seed", "cards")
  BY Writing, Turning DEF Cards
<1>6. ASSUME NEW p, NEW x, At(p, x), NEW fs, disk' = Written(fs), Continue, Fine, UNCHANGED <<gpgVars, vaultVars>>,
             UNCHANGED owner \/ x \in {"config", "stamp"}, UNCHANGED pinned \/ x = "version",
             x \in fs \/ x \notin Things, x # "vault"
      PROVE  Goes(p, x)
  <2>1. todo' = Tail(todo) /\ prog' \in {p, "none"} /\ (prog' = "none" => Blank') /\ (UNCHANGED <<email, fp>> \/ Blank')
    BY <1>6, Proceeding DEF Continue
  <2>2. UNCHANGED <<excused, keys>>
    BY <1>6 DEF Fine, faultVars, gpgVars
  <2>3. DOMAIN Written(fs) = Things /\ \A f \in Things : Present(f) \/ f \in fs => Written(fs)[f] # "absent"
    BY WrittenIs
  <2>4. Grows /\ Provided(x)
    BY <1>6, <2>2, <2>3 DEF Grows, Provided, Present, Puts
  <2> QED BY <1>6, <2>1, <2>2, <2>4 DEF Goes, Keeps
<1>7. RootVersion => Goes("root", "version")
  BY <1>6 DEF RootVersion
<1>8. SeedVersion => Goes("seed", "version")
  BY <1>6 DEF SeedVersion
<1>9. "config" \notin Things /\ "stamp" \notin Things
  BY DEF Things
<1>10. SeedConfig => Goes("seed", "config")
  BY <1>6, <1>9 DEF SeedConfig, SaveConfig
<1>11. ShootConfig => Goes("shoot", "config")
  BY <1>6, <1>9, Turning DEF ShootConfig, SaveConfig
<1>12. ASSUME NEW p, At(p, "stamp"), NEW fs, Leaves(Written(fs)) PROVE Goes(p, "stamp")
  <2>1. \A f \in Things : Puts(f) # "stamp"
    BY DEF Puts, Things
  <2> QED BY <1>12, <2>1, WrittenIs, Leaving
<1>13. SeedStamp => Goes("seed", "stamp")
  BY <1>12 DEF SeedStamp
<1>14. ShootStamp => Goes("shoot", "stamp")
  BY <1>6, <1>9, <1>12 DEF ShootStamp, SaveConfig
<1> QED BY <1>1, <1>2, <1>3, <1>4, <1>5, <1>7, <1>8, <1>10, <1>11, <1>13, <1>14

\* Keys and vaults.
LEMMA KeySteps ==
    ASSUME Ordered
    PROVE  /\ RootGpg => Goes("root", "gpg")
           /\ SeedGpg => Goes("seed", "gpg")
           /\ ShootCreate => Goes("shoot", "create")
           /\ SeedVault => Goes("seed", "vault")
           /\ ShootVault => Goes("shoot", "vault")
           /\ \A b : Gate(b) => Goes("seed", "gate")
           /\ Huginn => Goes("shoot", "huginn")
<1>0. \A x \in {"gpg", "create", "gate", "huginn"} : \A f \in Things : Puts(f) # x
  BY DEF Puts, Things
<1>1. ASSUME NEW p, NEW x \in {"gpg", "create", "gate", "huginn"}, At(p, x), UNCHANGED <<disk, excused>>
      PROVE  Grows /\ Provided(x)
  BY <1>0, <1>1 DEF Grows, Provided, Present, Ordered
<1>2. ASSUME RootGpg PROVE Goes("root", "gpg")
  <2>1. At("root", "gpg") /\ UNCHANGED <<disk, excused, owner, pinned, vaultVars>>
    BY <1>2 DEF RootGpg, bookVars
  <2>2. CASE Continue
    BY <1>1, <2>1, <2>2, Proceeding DEF Continue, Goes, Keeps
  <2>3. CASE Quit
    <3>1. todo' = <<>> /\ prog' = "none" /\ Blank'
      BY <2>1, <2>3, Proceeding DEF Quit
    <3> QED BY <1>1, <2>1, <3>1 DEF Goes, Keeps
  <2> QED BY <1>2, <2>2, <2>3 DEF RootGpg
<1>3. SeedGpg => Goes("seed", "gpg")
  BY <1>1 DEF SeedGpg, Goes, Keeps, At, bookVars
<1>4. ShootCreate => Goes("shoot", "create")
  BY <1>1 DEF ShootCreate, Goes, Keeps, At, bookVars
<1>5. ASSUME NEW b, Gate(b) PROVE Goes("seed", "gate")
  BY <1>1, <1>5 DEF Gate, Goes, Keeps, At, bookVars, gpgVars, faultVars
<1>6. ASSUME Huginn PROVE Goes("shoot", "huginn")
  <2>1. At("shoot", "huginn") /\ UNCHANGED <<disk, excused, owner, pinned, keys>> /\ Continue
    BY <1>6 DEF Huginn, bookVars, gpgVars, faultVars
  <2> QED BY <1>1, <2>1, Proceeding DEF Continue, Goes, Keeps
<1>7. ASSUME NEW p, StepVault(p) PROVE Goes(p, "vault")
  <2>1. At(p, "vault") /\ UNCHANGED <<owner, pinned, keys>> /\ Continue
    BY <1>7 DEF StepVault, bookVars, gpgVars
  <2>2. Grows /\ Provided("vault")
    <3>1. CASE VaultInit /\ excused' = excused \ {"master", "table"}
      <4>1. disk' = [Kept("master") EXCEPT !["table"] = "whole"] /\ excused' = excused \ {"master", "table"}
        BY <3>1 DEF VaultInit
      <4>2. DOMAIN disk' = Things /\ \A f \in Things : Present(f) \/ f \in {"master", "table"} => disk'[f] # "absent"
        BY <4>1, KeptIs, InThings
      <4>3. Grows
        BY <4>1, <4>2 DEF Grows, Present
      <4>4. \A f \in Things : Puts(f) = "vault" => f \in {"master", "table"} /\ f \in Things
        BY InThings DEF Puts, Things
      <4> QED BY <4>2, <4>3, <4>4 DEF Provided, Present
    <3>2. CASE Fault /\ excused' = excused \cup Missing({"master", "table"}) /\ UNCHANGED <<disk, creds>>
      <4>1. Grows
        BY <3>2 DEF Grows, Present, Ordered, Missing
      <4>2. \A f \in Things : Puts(f) = "vault" => f \in {"master", "table"}
        BY InThings DEF Puts, Things
      <4> QED BY <3>2, <4>1, <4>2 DEF Provided, Present, Missing
    <3> QED BY <1>7, <3>1, <3>2 DEF StepVault
  <2> QED BY <2>1, <2>2, Proceeding DEF Continue, Goes, Keeps
<1>8. SeedVault => Goes("seed", "vault")
  BY <1>7 DEF SeedVault
<1>9. ShootVault => Goes("shoot", "vault")
  BY <1>7 DEF ShootVault
<1> QED BY <1>2, <1>3, <1>4, <1>5, <1>6, <1>8, <1>9

-----------------------------------------------------------------------------
(* Setting up: the order of a run.                                         *)

LEMMA RequiredThings == \A p : Required(p) \subseteq Things
BY DEF Required, Things

LEMMA Joined ==
    ASSUME NEW S, NEW r \in Seq(S), NEW s \in Seq(S)
    PROVE  /\ r \o s \in Seq(S) /\ Len(r \o s) = Len(r) + Len(s)
           /\ \A i \in 1 .. Len(r) : (r \o s)[i] = r[i]
           /\ \A i \in Len(r) + 1 .. Len(r) + Len(s) : i - Len(r) \in 1 .. Len(s) /\ (r \o s)[i] = s[i - Len(r)]
OBVIOUS

\* In a first run of seed.py only "preflight" comes before "gate", and all that the
\* version stands for before "version".
LEMMA SeedOrder ==
    /\ SeedSteps \in Seq(Labels)
    /\ \A i \in 1 .. Len(SeedSteps) : SeedSteps[i] = "gate" => \A j \in 1 .. i - 1 : SeedSteps[j] = "preflight"
    /\ \A i \in 1 .. Len(SeedSteps) : SeedSteps[i] = "version" =>
         \A f \in Required("seed") : \E j \in 1 .. i - 1 : SeedSteps[j] = Puts(f)
<1>1. PICK a : a = <<"preflight", "gate", "age">>
  OBVIOUS
<1>2. PICK b : b = SeedInstall
  OBVIOUS
<1>3. PICK c : c = <<"talk", "features", "cards", "version", "config", "open">>
  OBVIOUS
<1>4. a \in Seq(Labels) /\ Len(a) = 3 /\ a[1] = "preflight" /\ a[2] = "gate" /\ a[3] = "age"
  BY <1>1 DEF Labels
<1>5. b \in Seq(Labels) /\ Len(b) = 18
  BY <1>2 DEF SeedInstall, Labels
<1>6. \A i \in 1 .. 18 : b[i] \notin {"gate", "version"}
  BY <1>2 DEF SeedInstall
<1>7. \A f \in Required("seed") \ {"cards"} : \E k \in 1 .. 18 : b[k] = Puts(f)
  <2>1. Required("seed") \ {"cards"} \subseteq
          {"dirs", "telemetry", "deps", "master", "table", "schema", "ollama", "socket", "cmb", "kb", "embed", "grove",
           "path", "launcher", "identity", "env", "mcp", "hooks"}
    BY DEF Required, Things
  <2>2. /\ b[1] = "dirs" /\ b[2] = "telemetry" /\ b[3] = "deps" /\ b[5] = "vault" /\ b[6] = "schema" /\ b[7] = "ollama"
        /\ b[8] = "socket" /\ b[9] = "cmb" /\ b[10] = "kb" /\ b[11] = "embed" /\ b[12] = "grove" /\ b[13] = "path"
        /\ b[14] = "launcher" /\ b[15] = "identity" /\ b[16] = "env" /\ b[17] = "mcp" /\ b[18] = "hooks"
    BY <1>2 DEF SeedInstall
  <2> QED BY <2>1, <2>2 DEF Puts
<1>8. c \in Seq(Labels) /\ Len(c) = 6 /\ c[3] = "cards" /\ \A i \in 1 .. 6 : c[i] # "gate" /\ (c[i] = "version" => i = 4)
  BY <1>3 DEF Labels
<1>9. PICK ab : ab = a \o b
  OBVIOUS
<1>10. /\ ab \in Seq(Labels) /\ Len(ab) = 3 + 18
       /\ \A i \in 1 .. 3 : ab[i] = a[i]
       /\ \A i \in 3 + 1 .. 3 + 18 : i - 3 \in 1 .. 18 /\ ab[i] = b[i - 3]
  <2>2. /\ a \o b \in Seq(Labels) /\ Len(a \o b) = Len(a) + Len(b)
        /\ \A i \in 1 .. Len(a) : (a \o b)[i] = a[i]
        /\ \A i \in Len(a) + 1 .. Len(a) + Len(b) : i - Len(a) \in 1 .. Len(b) /\ (a \o b)[i] = b[i - Len(a)]
    BY <1>4, <1>5, Joined, Zenon
  <2> QED BY <1>4, <1>5, <1>9, <2>2
<1>11. Len(ab) = 21 /\ \A i \in 4 .. 21 : i - 3 \in 1 .. 18 /\ ab[i] = b[i - 3]
  BY <1>10
<1>12. /\ SeedSteps \in Seq(Labels) /\ Len(SeedSteps) = 21 + 6
       /\ \A i \in 1 .. 21 : SeedSteps[i] = ab[i]
       /\ \A i \in 21 + 1 .. 21 + 6 : i - 21 \in 1 .. 6 /\ SeedSteps[i] = c[i - 21]
  <2>1. SeedSteps = ab \o c
    BY <1>1, <1>2, <1>3, <1>9 DEF SeedSteps
  <2>3. /\ ab \o c \in Seq(Labels) /\ Len(ab \o c) = Len(ab) + Len(c)
        /\ \A i \in 1 .. Len(ab) : (ab \o c)[i] = ab[i]
        /\ \A i \in Len(ab) + 1 .. Len(ab) + Len(c) : i - Len(ab) \in 1 .. Len(c) /\ (ab \o c)[i] = c[i - Len(ab)]
    <3>1. ab \in Seq(Labels) /\ c \in Seq(Labels)
      BY <1>8, <1>10
    <3> QED BY <3>1, Joined, Zenon
  <2> QED BY <1>8, <1>11, <2>1, <2>3
<1>13. /\ Len(SeedSteps) = 27
       /\ \A i \in 1 .. 3 : SeedSteps[i] = a[i]
       /\ \A i \in 4 .. 21 : i - 3 \in 1 .. 18 /\ SeedSteps[i] = b[i - 3]
       /\ \A i \in 22 .. 27 : i - 21 \in 1 .. 6 /\ SeedSteps[i] = c[i - 21]
  BY <1>10, <1>11, <1>12
<1>14. \A i \in 1 .. 27 : /\ SeedSteps[i] = "gate" => i = 2
                          /\ SeedSteps[i] = "version" => i = 25
  <2> TAKE i \in 1 .. 27
  <2>1. CASE i \in 1 .. 3
    <3>1. SeedSteps[1] = "preflight" /\ SeedSteps[2] = "gate" /\ SeedSteps[3] = "age"
      BY <1>4, <1>13
    <3>2. i = 1 \/ i = 2 \/ i = 3
      BY <2>1
    <3> QED BY <3>1, <3>2
  <2>2. CASE i \in 4 .. 21
    <3>1. i - 3 \in 1 .. 18 /\ SeedSteps[i] = b[i - 3]
      BY <1>13, <2>2
    <3>2. b[i - 3] \notin {"gate", "version"}
      BY <1>6, <3>1
    <3> QED BY <3>1, <3>2
  <2>3. CASE i \in 22 .. 27
    <3>1. i - 21 \in 1 .. 6 /\ SeedSteps[i] = c[i - 21] /\ i = (i - 21) + 21
      BY <1>13, <2>3
    <3>2. c[i - 21] # "gate" /\ (c[i - 21] = "version" => i - 21 = 4)
      BY <1>8, <3>1
    <3> QED BY <3>1, <3>2
  <2> QED BY <2>1, <2>2, <2>3
<1>15. \A f \in Required("seed") : \E j \in 1 .. 24 : SeedSteps[j] = Puts(f)
  <2> TAKE f \in Required("seed")
  <2>1. CASE f = "cards"
    <3>1. SeedSteps[24] = "cards"
      BY <1>8, <1>13
    <3> QED BY <2>1, <3>1 DEF Puts
  <2>2. CASE f # "cards"
    <3>1. PICK k \in 1 .. 18 : b[k] = Puts(f)
      BY <1>7, <2>2
    <3>2. k + 3 \in 4 .. 21 /\ (k + 3) - 3 = k /\ k + 3 \in 1 .. 24
      OBVIOUS
    <3> QED BY <1>13, <3>1, <3>2
  <2> QED BY <2>1, <2>2
<1>16. \A i \in 1 .. 27 : SeedSteps[i] = "gate" => \A j \in 1 .. i - 1 : SeedSteps[j] = "preflight"
  <2> SUFFICES ASSUME NEW i \in 1 .. 27, SeedSteps[i] = "gate", NEW j \in 1 .. i - 1 PROVE SeedSteps[j] = "preflight"
    OBVIOUS
  <2>1. j = 1
    BY <1>14
  <2> QED BY <1>4, <1>13, <2>1
<1>17. \A i \in 1 .. 27 : SeedSteps[i] = "version" => i - 1 = 24
  BY <1>14
<1> QED BY <1>12, <1>13, <1>15, <1>16, <1>17

\* The same of root.py, but for what its flags leave out.
LEMMA RootOrder ==
    ASSUME NEW flags
    PROVE  /\ RootRun(flags) \in Seq(Labels)
           /\ \A i \in 1 .. Len(RootRun(flags)) : RootRun(flags)[i] = "version" =>
                \A f \in Required("root") :
                   f \in Skipped(flags) \/ \E j \in 1 .. i - 1 : RootRun(flags)[j] = Puts(f)
<1>1. PICK left : left = {i \in DOMAIN RootSteps : RootSteps[i] \notin Skipped(flags)}
  OBVIOUS
<1>2. PICK r : r = RootSteps
  OBVIOUS
<1>3. Len(r) = 15 /\ r \in Seq(Labels)
  BY <1>2 DEF RootSteps, Labels
<1>4. \A i \in 1 .. 15 : r[i] = "version" => i = 11
  BY <1>2 DEF RootSteps
<1>5. \A f \in Required("root") : Puts(f) = f /\ \E j \in 1 .. 10 : r[j] = f
  <2>1. /\ r[1] = "dirs" /\ r[2] = "telemetry" /\ r[3] = "deps" /\ r[5] = "vaultkey" /\ r[6] = "schema"
        /\ r[7] = "socket" /\ r[9] = "cmb" /\ r[10] = "kb"
    BY <1>2 DEF RootSteps
  <2> QED BY <2>1 DEF Required, Puts
<1>6. left \in SUBSET Nat /\ IsFiniteSet(left) /\ left \subseteq 1 .. 15
  <2>1. left \subseteq 1 .. 15
    BY <1>1, <1>2, <1>3
  <2>2. IsFiniteSet(1 .. 15)
    <3>1. 1 \in Int /\ 15 \in Int
      OBVIOUS
    <3> QED BY <3>1, FS_Interval
  <2>3. IsFiniteSet(left)
    BY <2>1, <2>2, FS_Subset
  <2>4. left \in SUBSET Nat
    BY <2>1
  <2> QED BY <2>1, <2>3, <2>4
<1>7. PICK o : o = Sorted(left)
  OBVIOUS
<1>8. PICK n : n = Cardinality(left)
  OBVIOUS
<1>9. /\ n \in Nat /\ o \in Seq(left) /\ Len(o) = n
      /\ \A i, j \in 1 .. n : i < j <=> o[i] < o[j]
      /\ \A m \in left : \E i \in 1 .. n : o[i] = m
  BY <1>6, <1>7, <1>8, SortedIs
<1>10. \A k \in 1 .. n : o[k] \in left
  BY <1>9
<1>11. PICK t : t = RootRun(flags)
  OBVIOUS
<1>12. t = [k \in 1 .. n |-> r[o[k]]]
  BY <1>1, <1>2, <1>7, <1>8, <1>11 DEF RootRun
<1>13. t \in Seq(Labels) /\ Len(t) = n
  <2>1. \A i \in 1 .. 15 : r[i] \in Labels
    BY <1>2 DEF RootSteps, Labels
  <2>2. \A k \in 1 .. n : r[o[k]] \in Labels
    BY <2>1, <1>6, <1>10
  <2> QED BY <1>9, <1>12, <2>2
<1>14. ASSUME NEW i \in 1 .. n, t[i] = "version", NEW f \in Required("root"), f \notin Skipped(flags)
       PROVE  \E j \in 1 .. i - 1 : t[j] = Puts(f)
  <2>1. o[i] = 11
    BY <1>4, <1>6, <1>10, <1>12, <1>14
  <2>2. PICK m \in 1 .. 10 : r[m] = f
    BY <1>5
  <2>3. m \in left
    BY <1>1, <1>2, <1>3, <1>14, <2>2
  <2>4. PICK j \in 1 .. n : o[j] = m
    BY <1>9, <2>3
  <2>5. j < i
    BY <1>9, <2>1, <2>4
  <2>6. j \in 1 .. i - 1 /\ t[j] = f
    BY <1>12, <2>2, <2>4, <2>5
  <2> QED BY <1>5, <2>6
<1> QED BY <1>11, <1>13, <1>14

-----------------------------------------------------------------------------
(* Setting up: each kind of step keeps the order of a run.                 *)

Programs == {"root", "seed", "shoot"}

\* Every step of a run is one of the above.
LEMMA StepGoes ==
    ASSUME Ordered, Step
    PROVE  \E p \in Programs : \E x : Goes(p, x)
<1>1. CASE RootStep
  <2>1. \E x : Goes("root", x)
    BY <1>1, RootInstalls, Records, KeySteps, Handovers DEF RootStep
  <2> QED BY <2>1 DEF Programs
<1>2. CASE SeedStep
  <2>1. \E x : Goes("seed", x)
    BY <1>2, SeedInstalls, Records, KeySteps, Pages DEF SeedStep
  <2> QED BY <2>1 DEF Programs
<1>3. CASE ShootStep
  <2>1. \E x : Goes("shoot", x)
    BY <1>3, Records, KeySteps, Pages, Handovers DEF ShootStep
  <2> QED BY <2>1 DEF Programs
<1> QED BY <1>1, <1>2, <1>3 DEF Step

LEMMA Tails ==
    ASSUME NEW p, NEW x, At(p, x), Ordered
    PROVE  /\ prog = p /\ Len(todo) \in Nat /\ 1 \in 1 .. Len(todo) /\ todo[1] = x
           /\ Tail(todo) \in Seq(Labels) /\ Len(Tail(todo)) = Len(todo) - 1
           /\ \A i \in 1 .. Len(Tail(todo)) : i + 1 \in 1 .. Len(todo) /\ Tail(todo)[i] = todo[i + 1]
BY DEF At, Ordered

LEMMA GoesKeepsOrder ==
    ASSUME Ordered, NEW p \in Programs, NEW x, Goes(p, x)
    PROVE  Ordered'
<1>1. At(p, x) /\ Grows /\ Keeps(x) /\ (prog' = "none" => Blank')
  BY DEF Goes
<1>2. DOMAIN disk' = Things
  BY <1>1 DEF Grows
<1>3. CASE todo' = Tail(todo) /\ prog' \in {p, "none"} /\ Provided(x)
  <2>1. todo' \in Seq(Labels)
    BY <1>1, <1>3, Tails
  <2>2. ASSUME prog' = "seed", NEW i \in 1 .. Len(todo'), todo'[i] = "gate"
        PROVE  fp' = 0 /\ \A j \in 1 .. i - 1 : todo'[j] = "preflight"
    <3>1. prog = "seed" /\ p = "seed"
      BY <1>1, <1>3, <2>2, Tails DEF Programs
    <3>2. i + 1 \in 1 .. Len(todo) /\ todo[i + 1] = "gate"
      BY <1>1, <1>3, <2>2, Tails
    <3>3. fp = 0 /\ \A j \in 1 .. (i + 1) - 1 : todo[j] = "preflight"
      BY <3>1, <3>2 DEF Ordered, GateFirst
    <3>4. x = "preflight"
      <4>1. i \in Nat /\ 1 \in 1 .. (i + 1) - 1
        BY <2>1, <2>2
      <4> QED BY <1>1, <3>3, <4>1, Tails
    <3>5. fp' = 0
      BY <1>1, <3>3, <3>4 DEF Keeps, Blank
    <3>6. ASSUME NEW j \in 1 .. i - 1 PROVE todo'[j] = "preflight"
      <4>1. j \in 1 .. Len(todo') /\ j + 1 \in 1 .. (i + 1) - 1
        BY <2>1, <2>2
      <4>2. todo'[j] = todo[j + 1]
        BY <1>1, <1>3, <4>1, Tails
      <4> QED BY <3>3, <4>1, <4>2
    <3> QED BY <3>5, <3>6
  <2>3. ASSUME NEW q \in {"root", "seed"}, prog' = q, NEW i \in 1 .. Len(todo'), todo'[i] = "version", NEW f \in Required(q)
        PROVE  Present(f)' \/ f \in excused' \/ \E j \in 1 .. i - 1 : todo'[j] = Puts(f)
    <3>1. prog = q
      BY <1>1, <1>3, <2>3, Tails DEF Programs
    <3>2. i + 1 \in 1 .. Len(todo) /\ todo[i + 1] = "version"
      BY <1>1, <1>3, <2>3, Tails
    <3>3. Present(f) \/ f \in excused \/ \E j \in 1 .. (i + 1) - 1 : todo[j] = Puts(f)
      BY <2>3, <3>1, <3>2 DEF Ordered, VersionLast
    <3>4. f \in Things
      BY <2>3, RequiredThings
    <3>5. CASE Present(f) \/ f \in excused
      BY <1>1, <3>4, <3>5 DEF Grows
    <3>6. ASSUME NEW j \in 1 .. (i + 1) - 1, todo[j] = Puts(f)
          PROVE  Present(f)' \/ f \in excused' \/ \E k \in 1 .. i - 1 : todo'[k] = Puts(f)
      <4>1. CASE j = 1
        BY <1>1, <1>3, <3>4, <3>6, <4>1, Tails DEF Provided
      <4>2. CASE j # 1
        <5>1. i \in Nat /\ j \in Nat
          BY <2>1, <2>3
        <5>2. j - 1 \in 1 .. i - 1 /\ j - 1 \in 1 .. Len(todo') /\ (j - 1) + 1 = j
          BY <2>1, <2>3, <4>2, <5>1
        <5>3. todo'[j - 1] = todo[(j - 1) + 1]
          BY <1>1, <1>3, <5>2, Tails
        <5> QED BY <3>6, <5>2, <5>3
      <4> QED BY <4>1, <4>2
    <3> QED BY <3>3, <3>5, <3>6
  <2>4. GateFirst'
    BY <2>2 DEF GateFirst
  <2>5. VersionLast'
    BY <2>3 DEF VersionLast
  <2> QED BY <1>1, <1>2, <2>1, <2>4, <2>5 DEF Ordered
<1>4. CASE todo' \in Seq(Labels) /\ prog' \in {"none", "shoot"}
  BY <1>1, <1>2, <1>4 DEF Ordered, GateFirst, VersionLast
<1> QED BY <1>3, <1>4 DEF Goes

LEMMA Interrupting ==
    ASSUME Ordered, Interrupt
    PROVE  Grows /\ todo' = <<>> /\ prog' = "none" /\ Blank' /\ UNCHANGED <<owner, pinned, vaultVars>>
<1>1. todo' = <<>> /\ prog' = "none" /\ Blank' /\ UNCHANGED <<owner, pinned, vaultVars>>
  BY DEF Interrupt, Quit, Proceed, Blank, bookVars
<1>2. \A s : DOMAIN Cut(s) = Things /\ \A f \in Things : Present(f) => Cut(s)[f] # "absent"
  BY DEF Cut, Ordered, Present
<1>3. DOMAIN Kept("master") = Things /\ \A f \in Things : Present(f) => Kept("master")[f] # "absent"
  BY KeptIs, InThings
<1>4. DOMAIN disk' = Things /\ \A f \in Things : Present(f) => Present(f)' \/ f = "path"
  <2>1. CASE disk' = disk
    BY <2>1 DEF Ordered, Present
  <2>2. CASE disk' \in {Cut(Head(todo))}
    BY <1>2, <2>2 DEF Present
  <2>3. CASE disk' \in {Cut("master"), Kept("master")}
    BY <1>2, <1>3, <2>3 DEF Present
  <2>4. CASE disk' = [disk EXCEPT !["path"] = "absent"]
    BY <2>4 DEF Present, Ordered
  <2>5. CASE disk' = [disk EXCEPT !["version"] = "torn"]
    BY <2>5 DEF Present, Ordered
  <2>6. CASE disk' = [disk EXCEPT ![Config(prog)] = "torn"]
    BY <2>6 DEF Present, Ordered
  <2> QED BY <2>1, <2>2, <2>3, <2>4, <2>5, <2>6 DEF Interrupt, Halfway
<1>5. excused' = excused \cup {f \in Things : disk[f] # "absent" /\ disk'[f] = "absent"}
  BY DEF Interrupt
<1>6. \A f \in Things : Present(f) \/ f \in excused => Present(f)' \/ f \in excused'
  BY <1>5 DEF Present
<1> QED BY <1>1, <1>4, <1>5, <1>6 DEF Grows

LEMMA Starting ==
    ASSUME Ordered, StartSeed \/ StartDev \/ StartShoot \/ StartRoot
    PROVE  /\ Ordered' /\ UNCHANGED <<disk, email, fp, keys, owner, pinned, vaultVars>> /\ excused \subseteq excused'
           /\ prog = "none"
<1>1. /\ UNCHANGED <<disk, email, fp, keys, owner, pinned, vaultVars>> /\ excused \subseteq excused'
      /\ prog = "none"
  BY DEF StartSeed, StartDev, StartShoot, StartRoot, Begin, formVars, gpgVars, bookVars, faultVars
<1>2. fp = 0 /\ DOMAIN disk' = Things /\ fp' = 0
  BY <1>1 DEF Ordered, Blank
<1> SUFFICES Ordered'
  BY <1>1
<1>3. CASE StartSeed
  <2>1. prog' = "seed" /\ UNCHANGED excused
    BY <1>3 DEF StartSeed, Begin, faultVars
  <2>2. CASE todo' = SeedSteps
    <3>1. GateFirst' /\ VersionLast'
      BY <1>2, <2>1, <2>2, SeedOrder DEF GateFirst, VersionLast
    <3> QED BY <1>2, <2>1, <2>2, <3>1, SeedOrder DEF Ordered
  <2>3. CASE todo' = <<"splash", "stamp", "open">>
    <3>1. todo' \in Seq(Labels) /\ \A i \in 1 .. Len(todo') : todo'[i] # "gate" /\ todo'[i] # "version"
      BY <2>3 DEF Labels
    <3>2. GateFirst' /\ VersionLast'
      BY <3>1 DEF GateFirst, VersionLast
    <3> QED BY <1>2, <2>1, <3>1, <3>2 DEF Ordered
  <2> QED BY <1>3, <2>2, <2>3 DEF StartSeed, Begin
<1>4. CASE StartDev
  <2>1. prog' = "seed" /\ todo' = <<"open">>
    BY <1>4 DEF StartDev, Begin
  <2>2. todo' \in Seq(Labels) /\ \A i \in 1 .. Len(todo') : todo'[i] # "gate" /\ todo'[i] # "version"
    BY <2>1 DEF Labels
  <2>3. GateFirst' /\ VersionLast'
    BY <2>2 DEF GateFirst, VersionLast
  <2> QED BY <1>2, <2>1, <2>2, <2>3 DEF Ordered
<1>5. CASE StartShoot
  <2>1. prog' = "shoot" /\ todo' \in Seq(Labels)
    BY <1>5, RunsTyped DEF StartShoot, Begin
  <2>2. GateFirst' /\ VersionLast'
    BY <2>1 DEF GateFirst, VersionLast
  <2> QED BY <1>2, <2>1, <2>2 DEF Ordered
<1>6. CASE StartRoot
  <2>1. PICK flags : prog' = "root" /\ todo' = RootRun(flags) /\ excused' = excused \cup Missing(Skipped(flags))
    BY <1>6 DEF StartRoot, Begin
  <2>2. \A f \in Required("root") : f \in Skipped(flags) => Present(f)' \/ f \in excused'
    BY <1>1, <2>1, RequiredThings DEF Missing, Present
  <2>3. todo' \in Seq(Labels)
    BY <2>1, RootOrder
  <2>4. \A i \in 1 .. Len(todo') : todo'[i] = "version" =>
          \A f \in Required("root") : Present(f)' \/ f \in excused' \/ \E j \in 1 .. i - 1 : todo'[j] = Puts(f)
    BY <2>1, <2>2, RootOrder
  <2>5. GateFirst' /\ VersionLast'
    BY <2>1, <2>4 DEF GateFirst, VersionLast
  <2> QED BY <1>2, <2>1, <2>3, <2>5 DEF Ordered
<1> QED BY <1>1, <1>3, <1>4, <1>5, <1>6

-----------------------------------------------------------------------------
(* Setting up: the properties.                                             *)

\* The steps that do more than put something in the home directory or turn a page.
Special == {"gpg", "create", "gate", "config", "stamp", "version", "vault", "huginn"}

LEMMA StepKinds ==
    ASSUME Ordered, Step
    PROVE  \/ \E p \in Programs : \E x : x \notin Special /\ Goes(p, x)
           \/ RootVersion \/ SeedVersion
           \/ RootGpg \/ SeedGpg \/ ShootCreate \/ (\E b : Gate(b))
           \/ SeedConfig \/ ShootConfig \/ SeedStamp \/ ShootStamp
           \/ SeedVault \/ ShootVault \/ Huginn
<1> DEFINE Plain == \E p \in Programs : \E x : x \notin Special /\ Goes(p, x)
<1>1. ASSUME NEW p \in Programs, NEW x, x \notin Special, Goes(p, x) PROVE Plain
  BY <1>1
<1> HIDE DEF Plain
<1>2. "root" \in Programs /\ "seed" \in Programs /\ "shoot" \in Programs
  BY DEF Programs
<1>3. RootDirs \/ RootTelemetry \/ RootDeps \/ RootSchema \/ RootSocket \/ RootManager \/ RootCmb \/ RootKb \/ RootPath \/ RootIdentity => Plain
  BY <1>1, <1>2, RootInstalls DEF Special
<1>4. RootVault \/ RootLauncher \/ RootChain => Plain
  BY <1>1, <1>2, Records, Handovers DEF Special
<1>5. SeedDirs \/ SeedTelemetry \/ SeedDeps \/ SeedSchema \/ SeedOllama \/ SeedSocket \/ SeedCmb \/ SeedKb => Plain
  BY <1>1, <1>2, SeedInstalls DEF Special
<1>6. SeedEmbed \/ SeedPath \/ SeedIdentity \/ SeedEnv \/ SeedMcp \/ SeedHooks => Plain
  BY <1>1, <1>2, SeedInstalls DEF Special
<1>7. SeedGrove \/ SeedLauncher \/ Cards => Plain
  BY <1>1, <1>2, Records DEF Special
<1>8. Preflight \/ Age \/ Talk \/ Features \/ Splash \/ SeedOpen => Plain
  BY <1>1, <1>2, Pages DEF Special
<1>9. BootCheck \/ BootPage \/ VideoPage \/ Welcome \/ Covenant \/ Legal \/ PathSelect \/ PgpAuth \/ ShootOpen => Plain
  BY <1>1, <1>2, Pages DEF Special
<1>10. Frank \/ Stands => Plain
  BY <1>1, <1>2, Handovers DEF Special
<1>11. CASE RootStep
  BY <1>3, <1>4, <1>11 DEF RootStep, Plain
<1>12. CASE SeedStep
  BY <1>5, <1>6, <1>7, <1>8, <1>12 DEF SeedStep, Plain
<1>13. CASE ShootStep
  BY <1>9, <1>10, <1>13 DEF ShootStep, Plain
<1> QED BY <1>11, <1>12, <1>13 DEF Step

LEMMA OrderKept ==
    ASSUME Ordered, [InstallNext]_installVars
    PROVE  Ordered'
<1>1. CASE Step
  BY <1>1, StepGoes, GoesKeepsOrder
<1>2. CASE Interrupt
  <2>1. todo' \in Seq(Labels) /\ DOMAIN disk' = Things /\ prog' = "none" /\ Blank'
    BY <1>2, Interrupting DEF Grows
  <2>2. GateFirst' /\ VersionLast'
    BY <2>1 DEF GateFirst, VersionLast
  <2> QED BY <2>1, <2>2 DEF Ordered
<1>3. CASE StartSeed \/ StartDev \/ StartShoot \/ StartRoot
  BY <1>3, Starting
<1>4. CASE UNCHANGED installVars
  BY <1>4 DEF installVars, Ordered, Blank, GateFirst, VersionLast, Present
<1> QED BY <1>1, <1>2, <1>3, <1>4 DEF InstallNext

LEMMA OrderStart == InstallInit => Ordered
<1> SUFFICES ASSUME InstallInit PROVE Ordered
  OBVIOUS
<1>1. prog = "none" /\ todo = <<>> /\ Blank /\ DOMAIN disk = Things
  BY DEF InstallInit, Blank
<1>2. GateFirst /\ VersionLast
  BY <1>1 DEF GateFirst, VersionLast
<1> QED BY <1>1, <1>2 DEF Ordered

(***************************************************************************)
(* The version file.                                                       *)
(***************************************************************************)
LEMMA PinnedKept ==
    ASSUME Ordered, PinnedIsInstalled, [InstallNext]_installVars
    PROVE  PinnedIsInstalled'
<1>1. ASSUME Grows, NEW P, pinned' \subseteq pinned \cup P,
             \A p \in P : \A f \in Required(p) : Present(f) \/ f \in excused
      PROVE  PinnedIsInstalled'
  <2> SUFFICES ASSUME NEW p \in pinned', NEW f \in Required(p) PROVE disk'[f] # "absent" \/ f \in excused'
    BY DEF PinnedIsInstalled
  <2>1. Present(f) \/ f \in excused
    BY <1>1 DEF PinnedIsInstalled, Present
  <2>2. f \in Things
    BY RequiredThings
  <2> QED BY <1>1, <2>1, <2>2 DEF Grows, Present
<1>2. ASSUME Grows, UNCHANGED pinned PROVE PinnedIsInstalled'
  <2>1. pinned' \subseteq pinned \cup pinned /\ \A p \in pinned : \A f \in Required(p) : Present(f) \/ f \in excused
    BY <1>2 DEF PinnedIsInstalled, Present
  <2> QED BY <1>1, <1>2, <2>1, Zenon
<1>3. ASSUME NEW p \in {"root", "seed"}, At(p, "version"), Grows, pinned' = pinned \cup {p} PROVE PinnedIsInstalled'
  <2>1. \A f \in Required(p) : Present(f) \/ f \in excused
    <3>1. prog = p /\ 1 \in 1 .. Len(todo) /\ todo[1] = "version"
      BY <1>3, Tails
    <3>2. \A f \in Required(p) : Present(f) \/ f \in excused \/ \E j \in 1 .. 1 - 1 : todo[j] = Puts(f)
      BY <3>1 DEF Ordered, VersionLast
    <3> QED BY <3>2
  <2>2. pinned' \subseteq pinned \cup {p} /\ \A q \in {p} : \A f \in Required(q) : Present(f) \/ f \in excused
    BY <1>3, <2>1
  <2> QED BY <1>1, <1>3, <2>2, Zenon
<1>4. ASSUME NEW p, NEW x, x # "version", Goes(p, x) PROVE PinnedIsInstalled'
  BY <1>2, <1>4 DEF Goes, Keeps
<1>5. CASE Step
  <2>1. RootVersion => PinnedIsInstalled'
    BY <1>3, Records DEF RootVersion, Goes
  <2>2. SeedVersion => PinnedIsInstalled'
    BY <1>3, Records DEF SeedVersion, Goes
  <2>3. RootGpg \/ SeedGpg \/ ShootCreate \/ (\E b : Gate(b)) \/ SeedVault \/ ShootVault \/ Huginn => PinnedIsInstalled'
    BY <1>4, KeySteps
  <2>4. SeedConfig \/ ShootConfig \/ SeedStamp \/ ShootStamp => PinnedIsInstalled'
    BY <1>4, Records
  <2>5. (\E p \in Programs : \E x : x \notin Special /\ Goes(p, x)) => PinnedIsInstalled'
    BY <1>4 DEF Special
  <2> QED BY <1>5, <2>1, <2>2, <2>3, <2>4, <2>5, StepKinds
<1>6. CASE Interrupt
  BY <1>2, <1>6, Interrupting
<1>7. CASE StartSeed \/ StartDev \/ StartShoot \/ StartRoot
  <2>1. UNCHANGED <<disk, pinned>> /\ excused \subseteq excused'
    BY <1>7, Starting
  <2> QED BY <2>1 DEF PinnedIsInstalled
<1>8. CASE UNCHANGED installVars
  BY <1>8 DEF installVars, PinnedIsInstalled
<1> QED BY <1>5, <1>6, <1>7, <1>8 DEF InstallNext

(***************************************************************************)
(* The vault.                                                              *)
(***************************************************************************)
LEMMA VaultKept ==
    ASSUME Ordered, VaultInv, [InstallNext]_installVars
    PROVE  VaultInv'
<1>1. ASSUME Grows, UNCHANGED vaultVars PROVE VaultInv'
  <2>1. Present("master") => Present("master")'
    BY <1>1, InThings DEF Grows
  <2> QED BY <1>1, <2>1 DEF VaultInv, vaultVars
<1>2. ASSUME Grows, NEW k, VaultWrite(k) PROVE VaultInv'
  <2>1. Present("master") => Present("master")'
    BY <1>2, InThings DEF Grows
  <2>2. Usable => Present("master")
    BY DEF Usable, Present
  <2> QED BY <1>2, <2>1, <2>2 DEF VaultInv, VaultWrite
<1>3. ASSUME NEW p, NEW x, x \notin {"vault", "gate", "huginn"}, Goes(p, x) PROVE VaultInv'
  BY <1>1, <1>3 DEF Goes, Keeps
<1>4. ASSUME NEW p, StepVault(p) PROVE VaultInv'
  <2>1. CASE VaultInit
    <3>1. disk' = [Kept("master") EXCEPT !["table"] = "whole"] /\ accepted' = accepted
          /\ creds' = IF Present("master") THEN creds ELSE {}
      BY <1>4, <2>1 DEF VaultInit, StepVault, Present
    <3>2. DOMAIN Kept("master") = Things /\ Kept("master")["master"] # "absent"
      BY KeptIs, InThings
    <3>3. Present("master")'
      BY <3>1, <3>2, InThings DEF Present
    <3> QED BY <3>1, <3>3 DEF VaultInv
  <2>2. CASE UNCHANGED <<disk, creds>>
    BY <1>4, <2>2 DEF StepVault, VaultInv, Present
  <2> QED BY <1>4, <2>1, <2>2 DEF StepVault
<1>5. CASE Step
  <2>1. RootVersion \/ SeedVersion \/ SeedConfig \/ ShootConfig \/ SeedStamp \/ ShootStamp => VaultInv'
    BY <1>3, Records
  <2>2. RootGpg \/ SeedGpg \/ ShootCreate => VaultInv'
    BY <1>3, KeySteps
  <2>3. ASSUME NEW b, Gate(b) PROVE VaultInv'
    BY <1>1, <1>2, <2>3, KeySteps DEF Gate, Goes
  <2>4. Huginn => VaultInv'
    BY <1>1, <1>2, KeySteps DEF Huginn, Goes
  <2>5. SeedVault \/ ShootVault => VaultInv'
    BY <1>4 DEF SeedVault, ShootVault
  <2>6. (\E p \in Programs : \E x : x \notin Special /\ Goes(p, x)) => VaultInv'
    BY <1>3 DEF Special
  <2> QED BY <1>5, <2>1, <2>2, <2>3, <2>4, <2>5, <2>6, StepKinds
<1>6. CASE Interrupt
  BY <1>1, <1>6, Interrupting
<1>7. CASE StartSeed \/ StartDev \/ StartShoot \/ StartRoot
  <2>1. UNCHANGED <<disk, vaultVars>>
    BY <1>7, Starting
  <2> QED BY <2>1 DEF VaultInv, vaultVars, Present
<1>8. CASE UNCHANGED installVars
  BY <1>8 DEF installVars, vaultVars, VaultInv, Present
<1> QED BY <1>5, <1>6, <1>7, <1>8 DEF InstallNext

(***************************************************************************)
(* The keys.                                                               *)
(***************************************************************************)
Addresses == Emails \cup {Local}

\* Keys are only added, the run's key is the first of its address, and a boot config
\* is given the key of the run.
Keying ==
    /\ keys' = keys \/ \E e \in Addresses : keys' = Append(keys, e)
    /\ \/ UNCHANGED <<email, fp>>
       \/ email' \in Addresses /\ (fp' = 0 \/ fp' = FirstKey(keys', email'))
    /\ owner' = owner \/ \E q : owner' = [owner EXCEPT ![q] = [email |-> email, key |-> fp]]

LEMMA FirstKeyIs ==
    ASSUME NEW ks \in Seq(Addresses), NEW e
    PROVE  FirstKey(ks, e) = 0 \/ FirstIn(ks, FirstKey(ks, e), e)
<1> DEFINE I == {i \in 1 .. Len(ks) : ks[i] = e}
<1>1. FirstKey(ks, e) = IF I # {} THEN Min(I) ELSE 0
  BY DEF FirstKey, SelectInSeq
<1>2. I \in SUBSET Nat /\ Len(ks) \in Nat
  OBVIOUS
<1>3. CASE I # {}
  <2>1. \E m \in I : \A n \in I : m <= n
    BY <1>2, <1>3, NatMin
  <2>2. Min(I) \in I /\ \A n \in I : Min(I) <= n
    BY <2>1 DEF Min
  <2>3. \A j \in 1 .. Min(I) - 1 : ks[j] # e
    BY <1>2, <2>2
  <2> QED BY <1>1, <1>3, <2>2, <2>3 DEF FirstIn
<1> QED BY <1>1, <1>3

LEMMA StepKeying ==
    ASSUME Ordered, OwnerInv, Step
    PROVE  Keying
<1>0. email \in Addresses /\ Local \in Addresses /\ keys \in Seq(Addresses)
  BY DEF OwnerInv, Addresses
<1>1. ASSUME NEW p, NEW x, Goes(p, x), x \notin {"gpg", "gate", "create"}
      PROVE  UNCHANGED keys /\ (UNCHANGED <<email, fp>> \/ (email' \in Addresses /\ fp' = 0))
  BY <1>0, <1>1 DEF Goes, Keeps, Blank
<1>2. ASSUME NEW p, NEW x, Goes(p, x), x \notin {"gpg", "gate", "create", "config", "stamp"} PROVE Keying
  BY <1>1, <1>2 DEF Goes, Keeps, Keying
<1>3. ASSUME NEW p, NEW x, Goes(p, x), x \in {"config", "stamp"}, NEW q, SaveConfig(q) PROVE Keying
  BY <1>1, <1>3 DEF SaveConfig, Keying
<1>4. ASSUME NEW p, NEW x, Goes(p, x), x \in {"config", "stamp"}, UNCHANGED owner PROVE Keying
  BY <1>1, <1>4 DEF Keying
<1>5. ASSUME RootGpg PROVE Keying
  <2>1. keys' = keys \/ (keys = <<>> /\ keys' = <<Local>>)
    BY <1>5 DEF RootGpg, gpgVars
  <2>2. <<Local>> = Append(<<>>, Local)
    OBVIOUS
  <2>3. UNCHANGED owner
    BY <1>5 DEF RootGpg, bookVars
  <2>4. UNCHANGED <<email, fp>> \/ Blank'
    BY <1>5, Proceeding DEF RootGpg, Continue, Quit
  <2> QED BY <1>0, <2>1, <2>2, <2>3, <2>4 DEF Keying, Blank
<1>6. ASSUME SeedGpg PROVE Keying
  <2>1. keys' \in {keys, Append(keys, email)} /\ fp' = FirstKey(keys', email) /\ email' = email /\ UNCHANGED owner
    BY <1>6 DEF SeedGpg, Holding, bookVars
  <2> QED BY <1>0, <2>1 DEF Keying
<1>7. ASSUME ShootCreate PROVE Keying
  <2>1. PICK e \in Emails : keys' \in {keys, Append(keys, e)} /\ fp' = FirstKey(keys', e) /\ email' = e /\ UNCHANGED owner
    BY <1>7 DEF ShootCreate, bookVars
  <2>2. e \in Addresses
    BY DEF Addresses
  <2> QED BY <2>1, <2>2 DEF Keying
<1>8. ASSUME NEW b, Gate(b) PROVE Keying
  <2>1. email' \in Addresses /\ fp' = fp /\ UNCHANGED <<keys, owner>>
    BY <1>8 DEF Gate, Addresses, gpgVars, bookVars
  <2>2. fp = 0
    <3>1. prog = "seed" /\ 1 \in 1 .. Len(todo) /\ todo[1] = "gate"
      BY <1>8, Tails DEF Gate
    <3> QED BY <3>1 DEF Ordered, GateFirst
  <2> QED BY <2>1, <2>2 DEF Keying
<1>9. RootVersion \/ SeedVersion => Keying
  BY <1>2, Records
<1>10. SeedVault \/ ShootVault \/ Huginn => Keying
  BY <1>2, KeySteps
<1>11. SeedConfig \/ ShootConfig => Keying
  <2>1. ASSUME ShootConfig PROVE Keying
    <3>1. CASE Stop
      BY <1>4, <2>1, <3>1, Records DEF Stop, bookVars
    <3> QED BY <1>3, <2>1, <3>1, Records DEF ShootConfig
  <2> QED BY <1>3, <2>1, Records DEF SeedConfig
<1>12. SeedStamp \/ ShootStamp => Keying
  BY <1>3, <1>4, Records DEF SeedStamp, ShootStamp, Leaves, Only, bookVars
<1>13. (\E p \in Programs : \E x : x \notin Special /\ Goes(p, x)) => Keying
  BY <1>2 DEF Special
<1> QED BY <1>5, <1>6, <1>7, <1>8, <1>9, <1>10, <1>11, <1>12, <1>13, StepKinds

LEMMA KeyingKeeps ==
    ASSUME OwnerInv, Keying
    PROVE  OwnerInv'
<1>1. keys \in Seq(Addresses) /\ email \in Addresses /\ DOMAIN owner = {"seed", "shoot"}
  BY DEF OwnerInv, Addresses
<1>2. keys' \in Seq(Addresses) /\ \A k, e : FirstIn(keys, k, e) => FirstIn(keys', k, e)
  <2>1. ASSUME NEW a \in Addresses, keys' = Append(keys, a) PROVE keys' \in Seq(Addresses) /\ \A k, e : FirstIn(keys, k, e) => FirstIn(keys', k, e)
    <3>1. /\ keys' \in Seq(Addresses) /\ Len(keys') = Len(keys) + 1 /\ Len(keys) \in Nat
          /\ \A j \in 1 .. Len(keys) : keys'[j] = keys[j]
      BY <1>1, <2>1, Appended
    <3> SUFFICES ASSUME NEW k, NEW e, FirstIn(keys, k, e) PROVE FirstIn(keys', k, e)
      BY <3>1
    <3>2. k \in 1 .. Len(keys) /\ keys[k] = e /\ \A j \in 1 .. k - 1 : keys[j] # e
      BY DEF FirstIn
    <3>3. k \in 1 .. Len(keys') /\ \A j \in 1 .. k - 1 : j \in 1 .. Len(keys)
      BY <3>1, <3>2
    <3> QED BY <3>1, <3>2, <3>3 DEF FirstIn
  <2>2. CASE keys' = keys
    BY <1>1, <2>2 DEF FirstIn
  <2> QED BY <2>1, <2>2 DEF Keying
<1>3. fp # 0 => FirstIn(keys, fp, email)
  BY DEF OwnerInv
<1>4. email' \in Addresses /\ (fp' # 0 => FirstIn(keys', fp', email'))
  <2>1. CASE UNCHANGED <<email, fp>>
    BY <1>1, <1>2, <1>3, <2>1
  <2>2. CASE email' \in Addresses /\ (fp' = 0 \/ fp' = FirstKey(keys', email'))
    <3>1. FirstKey(keys', email') = 0 \/ FirstIn(keys', FirstKey(keys', email'), email')
      BY <1>2, FirstKeyIs
    <3> QED BY <2>2, <3>1
  <2> QED BY <2>1, <2>2 DEF Keying
<1>5. DOMAIN owner' = {"seed", "shoot"} /\ \A p \in {"seed", "shoot"} : owner'[p].key # 0 => FirstIn(keys', owner'[p].key, owner'[p].email)
  <2>1. \A p \in {"seed", "shoot"} : owner[p].key # 0 => FirstIn(keys', owner[p].key, owner[p].email)
    BY <1>2 DEF OwnerInv
  <2>2. ASSUME NEW q, owner' = [owner EXCEPT ![q] = [email |-> email, key |-> fp]], NEW p \in {"seed", "shoot"}, owner'[p].key # 0
        PROVE  FirstIn(keys', owner'[p].key, owner'[p].email)
    <3>1. CASE p = q
      <4>1. owner'[p].key = fp /\ owner'[p].email = email
        BY <1>1, <2>2, <3>1
      <4> QED BY <1>2, <1>3, <2>2, <4>1
    <3>2. CASE p # q
      <4>1. owner'[p] = owner[p]
        BY <1>1, <2>2, <3>2
      <4> QED BY <2>1, <2>2, <4>1
    <3> QED BY <3>1, <3>2
  <2>3. CASE owner' = owner
    BY <1>1, <2>1, <2>3
  <2> QED BY <1>1, <2>2, <2>3 DEF Keying
<1> QED BY <1>2, <1>4, <1>5 DEF OwnerInv, Addresses

LEMMA OwnerKept ==
    ASSUME Ordered, OwnerInv, [InstallNext]_installVars
    PROVE  OwnerInv'
<1>0. email \in Addresses /\ Local \in Addresses
  BY DEF OwnerInv, Addresses
<1>1. CASE Step
  BY <1>1, StepKeying, KeyingKeeps
<1>2. CASE Interrupt
  <2>1. UNCHANGED owner /\ Blank'
    BY <1>2, Interrupting
  <2>2. keys' = keys \/ \E e \in Addresses : keys' = Append(keys, e)
    <3>1. <<Local>> = Append(<<>>, Local)
      OBVIOUS
    <3>2. keys' \in Meanwhile
      BY <1>2 DEF Interrupt
    <3>3. \A e \in Emails : e \in Addresses
      BY DEF Addresses
    <3> QED BY <1>0, <3>1, <3>2, <3>3 DEF Meanwhile
  <2> QED BY <1>0, <2>1, <2>2, KeyingKeeps DEF Keying, Blank
<1>3. CASE StartSeed \/ StartDev \/ StartShoot \/ StartRoot
  BY <1>3, Starting, KeyingKeeps DEF Keying
<1>4. CASE UNCHANGED installVars
  BY <1>4, KeyingKeeps DEF installVars, Keying
<1> QED BY <1>1, <1>2, <1>3, <1>4 DEF InstallNext

LEMMA OwnerMeans ==
    ASSUME OwnerInv
    PROVE  OneKeyPerOwner
<1> SUFFICES ASSUME NEW p \in {"seed", "shoot"}, NEW q \in {"seed", "shoot"},
                    owner[p].key # 0, owner[q].key # 0, owner[p].email = owner[q].email
             PROVE  owner[p].key = owner[q].key /\ keys[owner[p].key] = owner[p].email
  BY DEF OneKeyPerOwner
<1>1. FirstIn(keys, owner[p].key, owner[p].email) /\ FirstIn(keys, owner[q].key, owner[p].email)
  BY DEF OwnerInv
<1>2. \A k, l, e : FirstIn(keys, k, e) /\ FirstIn(keys, l, e) => k = l /\ keys[k] = e
  <2> SUFFICES ASSUME NEW k, NEW l, NEW e, FirstIn(keys, k, e), FirstIn(keys, l, e) PROVE k = l /\ keys[k] = e
    OBVIOUS
  <2>1. k \in Nat /\ l \in Nat /\ 1 <= k /\ 1 <= l /\ keys[k] = e /\ keys[l] = e
    BY DEF FirstIn, OwnerInv
  <2>2. ~(k < l)
    BY <2>1 DEF FirstIn
  <2>3. ~(l < k)
    BY <2>1 DEF FirstIn
  <2> QED BY <2>1, <2>2, <2>3
<1> QED BY <1>1, <1>2

-----------------------------------------------------------------------------
(* Setting up: the theorems.                                               *)

\* What a version file stands for is there, for every set of flags, however runs fail, are
\* interrupted and follow one another (step_8_version_pin of root.py, run_new_user of seed.py).
THEOREM SpecPinned == InstallSpec => []PinnedIsInstalled
<1>1. InstallInit => Ordered /\ PinnedIsInstalled
  BY OrderStart DEF InstallInit, PinnedIsInstalled
<1>2. Ordered /\ PinnedIsInstalled /\ [InstallNext]_installVars => (Ordered /\ PinnedIsInstalled)'
  BY OrderKept, PinnedKept
<1> QED BY <1>1, <1>2, PTL DEF InstallSpec

\* An API key that went into the vault can be decrypted for ever: .master.key is made only
\* when there is none, and is never cut short once there (_vault_init).
THEOREM SpecKeyKept == InstallSpec => []KeyKept
<1>1. InstallInit => Ordered /\ VaultInv
  BY OrderStart DEF InstallInit, VaultInv
<1>2. Ordered /\ VaultInv /\ [InstallNext]_installVars => (Ordered /\ VaultInv)'
  BY OrderKept, VaultKept
<1>3. VaultInv => KeyKept
  BY DEF VaultInv, KeyKept
<1> QED BY <1>1, <1>2, <1>3, PTL DEF InstallSpec

\* One address, one key, in the boot configs of seed.py and shoot.py, however many keys gpg
\* makes: both take the first that is made out to the address (gpg_create_key).
THEOREM SpecOneKey == InstallSpec => []OneKeyPerOwner
<1>1. InstallInit => Ordered /\ OwnerInv
  <2> SUFFICES ASSUME InstallInit PROVE OwnerInv
    BY OrderStart
  <2>1. keys = <<>> /\ email = Local /\ fp = 0 /\ owner = [p \in {"seed", "shoot"} |-> NoOwner]
    BY DEF InstallInit
  <2>2. \A p \in {"seed", "shoot"} : owner[p].key = 0
    BY <2>1 DEF NoOwner
  <2> QED BY <2>1, <2>2 DEF OwnerInv
<1>2. Ordered /\ OwnerInv /\ [InstallNext]_installVars => (Ordered /\ OwnerInv)'
  BY OrderKept, OwnerKept
<1>3. OwnerInv => OneKeyPerOwner
  BY OwnerMeans
<1> QED BY <1>1, <1>2, <1>3, PTL DEF InstallSpec
=============================================================================
