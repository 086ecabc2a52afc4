------------------------------- MODULE Forks -------------------------------
(***************************************************************************)
(* Forks: named units of work in the table forks, and the knowledge atoms  *)
(* tagged with one.  The tools of sap/sap_mcp.py (and the same functions   *)
(* of willow/forks.py) run on threads of one executor and in several       *)
(* server processes, each call on a connection of its own.                 *)
(*                                                                         *)
(* Join and log read a whole list, extend it and write it back.  Merge and *)
(* delete close the fork in one transaction and settle its atoms in        *)
(* another, so a call may die in between.                                  *)
(***************************************************************************)
EXTENDS Naturals, Sequences

CONSTANTS Clients,    \* threads and processes that run the tools
          ForkIds,    \* ids of forks
          Origin,     \* FORK-ORIGIN, the fork of the migration script
          Components, \* who creates, joins and logs
          Atoms,      \* rows of knowledge
          NoFork,     \* fork_id IS NULL
          Idle,       \* a client with no call under way
          Failures,   \* calls may die between their two steps
          MaxChanges  \* bound: change entries logged on a fork

ASSUME ForksAssumption ==
    /\ Origin \notin ForkIds
    /\ NoFork \notin ForkIds \cup {Origin}
    /\ Failures \in BOOLEAN
    /\ MaxChanges \in Nat

\* The calls of which only the first step has run.
AllForks == ForkIds \cup {Origin}

Calls ==
    [op : {"snapshot", "promote", "archive"}, fork : ForkIds]
      \cup [op : {"join"}, fork : AllForks, who : Components, seen : SUBSET Components]
      \cup [op : {"log"},  fork : AllForks, who : Components, seen : Seq(Components)]

ASSUME IdleAssumption == Idle \notin Calls

VARIABLES status,       \* of each fork
          participants, \* components of each fork
          changes,      \* change entries of each fork, by component
          snapshots,    \* forks whose environment was recorded in SOIL
          tag,          \* fork_id of each atom
          valid,        \* atoms whose invalid_at IS NULL
          call,         \* the second half of the call of each client
          source,       \* history: the last fork an atom was tagged with
          logged,       \* history: entries acknowledged with logged: True
          contended,    \* history: forks with two calls of fork_log at a time
          died          \* history: forks whose merge or delete died half-way

forkTable == <<status, participants, changes>>
record    == <<logged, contended, died>>
knowledge == <<tag, valid, source>>
vars == <<forkTable, snapshots, knowledge, call, record>>

Statuses == {"absent", "open", "merged", "deleted"}
Closed   == {"merged", "deleted"}

TypeOK ==
    /\ status       \in [AllForks -> Statuses]
    /\ participants \in [AllForks -> SUBSET Components]
    /\ changes      \in [AllForks -> Seq(Components)]
    /\ snapshots    \subseteq ForkIds
    /\ tag          \in [Atoms -> AllForks \cup {NoFork}]
    /\ valid        \subseteq Atoms
    /\ call         \in [Clients -> Calls \cup {Idle}]
    /\ source       \in [Atoms -> AllForks \cup {NoFork}]
    /\ logged       \in [AllForks -> Seq(Components)]
    /\ contended    \subseteq AllForks
    /\ died         \subseteq ForkIds

Init ==
    /\ status       = [f \in AllForks |-> "absent"]
    /\ participants = [f \in AllForks |-> {}]
    /\ changes      = [f \in AllForks |-> <<>>]
    /\ snapshots    = {}
    /\ tag          = [a \in Atoms |-> NoFork]
    /\ valid        = Atoms
    /\ call         = [c \in Clients |-> Idle]
    /\ source       = [a \in Atoms |-> NoFork]
    /\ logged       = [f \in AllForks |-> <<>>]
    /\ contended    = {}
    /\ died         = {}

Exists(f)     == status[f] # "absent"
TaggedWith(f) == {a \in Atoms : tag[a] = f}

Begin(c, job) ==
    /\ call[c] = Idle
    /\ call' = [call EXCEPT ![c] = job]

Doing(c, op) ==
    /\ call[c] # Idle
    /\ call[c].op = op

Return(c) == call' = [call EXCEPT ![c] = Idle]

(***************************************************************************)
(* fork_create: the row is inserted, then the environment snapshot is put  *)
(* in the SOIL store; the call swallows a failure of the put.              *)
(***************************************************************************)
Create(c, f, who) ==
    /\ ~ Exists(f)
    /\ Begin(c, [op |-> "snapshot", fork |-> f])
    /\ status' = [status EXCEPT ![f] = "open"]
    /\ participants' = [participants EXCEPT ![f] = {who}]
    /\ UNCHANGED <<changes, snapshots, knowledge, record>>

Snapshot(c) ==
    /\ Doing(c, "snapshot")
    /\ snapshots' \in {snapshots \cup {call[c].fork}, snapshots}
    /\ Return(c)
    /\ UNCHANGED <<forkTable, knowledge, record>>

(***************************************************************************)
(* fork_join: SELECT participants, then UPDATE with the extended list.  No *)
(* row lock is held in between, and the status is not looked at.           *)
(***************************************************************************)
JoinSelect(c, f, who) ==
    /\ Exists(f)
    /\ Begin(c, [op |-> "join", fork |-> f, who |-> who, seen |-> participants[f]])
    /\ UNCHANGED <<forkTable, snapshots, knowledge, record>>

Joined(seen, who) == seen \cup {who}

JoinUpdate(c) ==
    /\ Doing(c, "join")
    /\ participants' = [participants EXCEPT ![call[c].fork] = Joined(call[c].seen, call[c].who)]
    /\ Return(c)
    /\ UNCHANGED <<status, changes, snapshots, knowledge, record>>

(***************************************************************************)
(* fork_log: SELECT changes, then UPDATE with the list and one entry more. *)
(***************************************************************************)
Logging(c, f) == Doing(c, "log") /\ call[c].fork = f

LogSelect(c, f, who) ==
    /\ Exists(f)
    /\ Len(logged[f]) < MaxChanges
    /\ Begin(c, [op |-> "log", fork |-> f, who |-> who, seen |-> changes[f]])
    /\ contended' = IF \E d \in Clients : Logging(d, f) THEN contended \cup {f} ELSE contended
    /\ UNCHANGED <<forkTable, snapshots, knowledge, logged, died>>

\* Faulty: an entry equal to the last one is taken for a retry.
WithEntryOnce(seen, who) ==
    IF seen # <<>> /\ seen[Len(seen)] = who THEN seen ELSE Append(seen, who)

WithEntry(seen, who) == Append(seen, who)

LogUpdate(c) ==
    /\ Doing(c, "log")
    /\ LET f == call[c].fork
       IN  /\ changes' = [changes EXCEPT ![f] = WithEntry(call[c].seen, call[c].who)]
           /\ logged' = [logged EXCEPT ![f] = Append(@, call[c].who)]
    /\ Return(c)
    /\ UNCHANGED <<status, participants, snapshots, knowledge, contended, died>>

(***************************************************************************)
(* fork_merge and fork_delete.  The first transaction closes an open fork  *)
(* (on any other it matches no row, and the call ends); the second settles *)
(* the atoms tagged with it.                                               *)
(***************************************************************************)
Closable(f) == status[f] = "open"

MergeFork(c, f) ==
    /\ Closable(f)
    /\ Begin(c, [op |-> "promote", fork |-> f])
    /\ status' = [status EXCEPT ![f] = "merged"]
    /\ UNCHANGED <<participants, changes, snapshots, knowledge, record>>

Promote(c) ==
    /\ Doing(c, "promote")
    /\ tag' = [a \in Atoms |-> IF tag[a] = call[c].fork THEN NoFork ELSE tag[a]]
    /\ Return(c)
    /\ UNCHANGED <<forkTable, snapshots, valid, source, record>>

DeleteFork(c, f) ==
    /\ Closable(f)
    /\ Begin(c, [op |-> "archive", fork |-> f])
    /\ status' = [status EXCEPT ![f] = "deleted"]
    /\ UNCHANGED <<participants, changes, snapshots, knowledge, record>>

\* Faulty: the atoms that carry no tag are taken along.
ArchivedAll(f) == {a \in Atoms : tag[a] \in {f, NoFork}}

\* Faulty: a single atom is overlooked.
ArchivedFew(f) == {a \in TaggedWith(f) : \E b \in TaggedWith(f) : b # a}

Archived(f) == TaggedWith(f)

Archive(c) ==
    /\ Doing(c, "archive")
    /\ valid' = valid \ Archived(call[c].fork)
    /\ Return(c)
    /\ UNCHANGED <<forkTable, snapshots, tag, source, record>>

\* The call raises, or its process ends, after its first step: what was
\* committed stays, and nothing resumes the rest.
Die(c) ==
    /\ Failures
    /\ call[c] # Idle
    /\ died' = IF call[c].op \in {"promote", "archive"} THEN died \cup {call[c].fork} ELSE died
    /\ Return(c)
    /\ UNCHANGED <<forkTable, snapshots, knowledge, logged, contended>>

(***************************************************************************)
(* Writers of atoms.  Nothing in the tools sets fork_id: a client tags its *)
(* atoms with an SQL of its own while the fork is open.  The migration     *)
(* script runs once: it inserts FORK-ORIGIN as merged and tags every       *)
(* untagged atom with it, in one transaction.                              *)
(***************************************************************************)
Tag(a, f) ==
    /\ status[f] = "open"
    /\ tag[a] = NoFork
    /\ tag' = [tag EXCEPT ![a] = f]
    /\ source' = [source EXCEPT ![a] = f]
    /\ UNCHANGED <<forkTable, snapshots, valid, call, record>>

Migrate(who) ==
    /\ ~ Exists(Origin)
    /\ status' = [status EXCEPT ![Origin] = "merged"]
    /\ participants' = [participants EXCEPT ![Origin] = {who}]
    /\ changes' = [changes EXCEPT ![Origin] = <<who>>]
    /\ logged' = [logged EXCEPT ![Origin] = <<who>>]
    /\ tag' = [a \in Atoms |-> IF tag[a] = NoFork THEN Origin ELSE tag[a]]
    /\ source' = [a \in Atoms |-> IF tag[a] = NoFork THEN Origin ELSE source[a]]
    /\ UNCHANGED <<snapshots, valid, call, contended, died>>

ClientStep(c) ==
    \/ \E f \in ForkIds, who \in Components : Create(c, f, who)
    \/ \E f \in AllForks, who \in Components : JoinSelect(c, f, who) \/ LogSelect(c, f, who)
    \/ \E f \in ForkIds : MergeFork(c, f) \/ DeleteFork(c, f)
    \/ Snapshot(c) \/ JoinUpdate(c) \/ LogUpdate(c) \/ Promote(c) \/ Archive(c)
    \/ Die(c)

Next ==
    \/ \E c \in Clients : ClientStep(c)
    \/ \E a \in Atoms, f \in ForkIds : Tag(a, f)
    \/ \E who \in Components : Migrate(who)

Spec == Init /\ [][Next]_vars

-----------------------------------------------------------------------------
(* What the forks promise.                                                 *)

\* The fate of an atom is the fate of its fork: an atom is invalidated only
\* by the deletion of the fork it is tagged with, and loses its tag only by
\* the merge of that fork, whatever calls of other clients run between the
\* two transactions of a merge or a delete.
FateFollowsFork ==
    \A a \in Atoms :
        /\ a \notin valid => tag[a] # NoFork /\ status[tag[a]] = "deleted"
        /\ tag[a] = NoFork /\ source[a] # NoFork => status[source[a]] = "merged"

\* While an atom of a closed fork still waits for its promotion or its
\* archiving, the call that closed the fork is under way.
Settling(f) ==
    \A a \in TaggedWith(f) :
        /\ status[f] = "merged" =>
               \E c \in Clients : call[c] = [op |-> "promote", fork |-> f]
        /\ status[f] = "deleted" /\ a \in valid =>
               \E c \in Clients : call[c] = [op |-> "archive", fork |-> f]

\* A closed fork leaves no atom behind, whatever is tagged, migrated or closed
\* meanwhile, unless the very call that closed it died half-way.
NoneStranded == \A f \in ForkIds \ died : Settling(f)

\* No call reopens a closed fork or turns a merge into a deletion.
ClosedStays ==
    [][\A f \in AllForks : status[f] \in Closed => status'[f] = status[f]]_vars

\* The change list of a fork is what fork_log acknowledged, in that order, unless
\* two calls of fork_log on it once overlapped: no other call, closing, joining,
\* migrating or dying, loses an entry.
EntriesKept == \A f \in AllForks \ contended : changes[f] = logged[f]
=============================================================================
