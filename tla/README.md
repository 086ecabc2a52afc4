# A TLA+ verification of Willow 1.9

Willow is a local, multi-agent memory and tool system in Python. A process that
speaks MCP (`sap/sap_mcp.py`) offers its tools to several agents; knowledge lives
in PostgreSQL, or in SQLite as a fallback, and working records in a
per-collection SQLite store called SOIL; a daemon called Kart executes queued
commands; the processes of a "fleet" talk through tables and notifications of the
same database, called Grove. Hooks of the coding agent are short-lived processes
that write to all of these.

So the same rows and files are written by threads of one executor, by several
server and dashboard processes, by hooks and by daemons. Hardly any of it uses a
transaction that spans a read and the write that depends on it. This project
models the parts in which that matters, checks them with TLC on small instances
and proves what matters most with TLAPS for all values of their constants.

All paths below are relative to the repository. `PROJECT.json` maps every
definition to its lines.

## 1. Inventory

Components with a model come first. "Hard" names what tests hardly reach;
"correct" what makes the component right.

**Kart task queue** (`kart_worker.py`, `PgBridge.submit_task`).
State: rows of `public.tasks` (pending, running, complete, failed), the row a
daemon has in hand, the run it keeps for it in `willow.runs` and the dictionary
`_KART_RUN_IDS`. Operations: submit, claim (`UPDATE .. FOR UPDATE SKIP LOCKED`
and a commit), open the child run, execute, complete or fail, close the child
run, reconnect after any exception. Interaction: one daemon thread in each
dashboard (`app.py`), the coordinator writes the same rows, each session start
sweeps the runs. Hard: two claims at a time, a commit whose answer is lost, a
crash at any point, a report that does not look at the row's status, rows written
by someone else. Correct: one owner, at most one execution, the row tells what
the execution came to, pending tasks move on.

**Coordinator** (`willow/coordinator.py`).
State: two clocks, a LISTEN connection. Operations: classify the newest message
of a channel that notified, ask a model, submit tasks, and after ten silent
minutes activate the oldest pending task. Hard: notifications that name a channel
and not a message, lost connections, the read of the oldest task and its UPDATE
with claims in between. Correct: every message handled once; a task that is
activated gets executed.

**SOIL** (`core/willow_store.py`; hard deletes in `core/metabolic.py` and
`willow/flags.py`).
State per collection: the table `records` (row id, JSON, a deleted flag), the
vector table keyed by row id, the audit log; a lock per `WillowStore` object.
Operations: put (`INSERT OR REPLACE`, which changes the row id), update (read,
merge, put), soft delete, get, list, search; hard delete by housekeeping; edges
and Hebbian weights on top. Hard: an update's read precedes its transaction; the
lock does not reach other processes; row ids are given out again. Correct: a map
written one operation at a time, a log that tells what there is, no vector of
somebody else's text.

**FRANK ledger** (`PgBridge.ledger_append/verify/read`, the same in
`core/sqlite_bridge.py`).
State: rows with a hash over the previous hash and the payload. Hard: "the newest
row" is decided by `created_at`, the start of a transaction that a read may have
opened long ago, or a whole second in SQLite; reading it and inserting are two
statements. Correct: the chain verifies, and does not after tampering.

**Rate limiter** (`core/gleipnir.py`). State: a list of times for each
application. Operations: check, stats; both prune. Hard: denied calls count too;
the edge of the window. Correct: the pruned list decides as the full history.

**Tool gate** (`sap/middleware.py`, with `policy_put` and `policy_delete` of
`sap/sap_mcp.py`). State: the cached rules and their time, the limiter, the table
of receipts, receipts on their way. Operations: for each tool call, in order, the
policy check, the limiter, PGP and ACL and sanitizer, the tool, the receipt. Hard:
the calls are coroutines that give way at each step, and rules are loaded and
invalidated around them; limits count receipts that are written later. Correct:
rules are never too old; a new rule takes effect; no tool runs without a pass;
limits hold.

**Forks** (`willow/forks.py` and the fork tools of `sap/sap_mcp.py`,
`scripts/migrate_fork_origin.py`). State: the table `forks` with two JSON lists,
the tag of each knowledge atom, a SOIL snapshot. Operations: create, join, log,
merge, delete. Hard: join and log write back a whole list; merge and delete are
two transactions. Correct: atoms share the fate of their fork; no entry is lost;
a closed fork stays closed.

**PostgreSQL connections** (`core/pg_bridge.py`). State: the pool, the
connections of the threads, the circuit breaker. Operations: get (pool, then
direct), release, probe and renew, record failure or success. Hard: the pool is
created without a lock, connections go stale while they lie idle, successes and
failures of different threads cross. Correct: no connection in two hands, no slot
of the pool lost, a breaker that opens and closes when it should.

**Installers** (`seed.py`, `shoot.py`, `root.py`). State: the two boot
configurations, the key ring, the master keys and the vault's tables, version
pins, units and files under `~/.willow`. Operations: the steps of three programs
that a person starts, in any order and again. Hard: any step fails, any run is
interrupted, and the next run takes what it finds for finished. Correct: a stored
key stays readable, one GPG key for each owner, what is pinned is installed, and
whoever keeps trying gets done.

**Sessions** (`willow/fylgja/events`, `core/run_ledger.py`, `core/sean_db.py`,
`willow/hooks`). State: the turns file and its cursor, the run table, candidates
and the encrypted store of what was ratified, feedback records, atoms of commits,
the depth file. Operations: start, prompt, sub-agent, Stop, the five steps of a
shutdown, a commit. Every hook is a process of its own; they meet in files without
locks. Hard: two sessions at a time, an end half-way, a read long before the
write that depends on it. Correct: no turn passed over, nothing ratified lost,
one principle for a correction, one atom for a commit, a bounded number of agents.

**Grove** (`grove_db.py`, `grove/mcp_local.py`, `willow/grove_listen.py`,
`tools/grove_monitor_heimdallr.py`, `grove_serve.py`, `willow/coordinator.py`).
State: channels, messages, needs-reply flags, a cursor and a connection for each reader.
Operations: post, reply, command, acknowledge; seed, listen, wake, fetch, poll.
Hard: ids are given out before the commit that shows them; a notification names
a channel only and may be taken in with the answer to a query; a lost connection
seeds the cursor anew. Correct: each message shown once and, but for what the
code knows it gives up, shown at all; flags tell what waits.

**Nest** (`sap/core/nest_intake.py`, `tools/nest_watcher.py`). State: drop zones,
destinations, a JSON queue. Operations: scan, confirm, skip, the watcher. Hard:
load, work and save without a lock, a file moved in between. Correct: the queue tells
what is in the drop zones; no file is moved onto another.

**Dreams** (`dream_check`, `dream_run`). State: one SOIL record that is the lock and
the timer. Hard: read and written in two operations; replaced whole. Correct: a day
between two dreams, a lock that some call holds.

**Fleet** (`fleet.py`, `app.py`). State: child processes, failures and back-off of
each, a PID file. Operations: start, watch, respawn, alert, stop, quit. Hard: the
monitor, the screen and a second dashboard do not wait for each other; children
outlive a parent that was killed. Correct: no service twice, none down in silence.

**Norns** (`insight_pass` in `core/intelligence.py`, the reflections of
`willow/fylgja/events/stop.py`). State: the reflections and insights in SOIL.
Operations: list, ask a model for up to a minute, write the insight, mark its
evidence. Hard: the whole record as it was listed is written back; two passes.
Correct: an insight's evidence is what it was drawn from, the backlog is worked off.

Components without a model (sources and reasons are in `PROJECT.json`):

| Component | State and operations | What would make it correct |
|---|---|---|
| Dispatch and Orin (`agents/orin`, `agent_dispatch*`) | `dispatch_tasks`: dispatch, claim, result; as committed the worker reads columns the schema does not have | claimed once, answered once, time-out |
| Agent memory (`willow/memory`) | LRU of generations, hash ring, facts | bounded size; minimal reassignment |
| Sandbox (`sandbox/`) | change records in a JSON file, a table of allowed steps | no step outside the table |
| The other intelligence passes, routing, ranking, review, signature map | batch passes, scoring, model calls | quality of heuristics: not a question for a model of states |
| Sanitizing, SAP gate and registry | regular expressions, manifests | the same |
| Backup, scripts, skills, legacy server, OpenClaw, clients | one-off or superseded | the same |

## 2. Modules

Each component has a module with its state, one action per operation or step,
its specification and its properties; an `MC` module with the instance TLC
checks. The theorems are in seven `Proofs` modules, each for one component or for
several that lie close together (section 4).

| Module | Models | Composes |
|---|---|---|
| `TaskContract` | abstract: what the queue promises to a submitter | |
| `KartQueue` | the tables, the daemon loop, faults, the silence feed, the sweep of runs | implements `TaskContract` |
| `SoilContract` | abstract: a map written one operation at a time, and its log | |
| `SoilStore` | one collection, its writers, lock, vectors, log, hard deletes | implements `SoilContract` |
| `FrankLedger` | appends, transactions and verification of the ledger | |
| `Gleipnir` | the limiter | |
| `ToolGate` | the pipeline of all calls in progress, the cache, rules, receipts | contains an instance of `Gleipnir`, whose promise it keeps |
| `Forks` | forks, atoms and the two halves of each call | |
| `PgConnections` | pool, direct connections, breaker, server | |
| `Limits` | constants of the limiter, for `Gleipnir` and `ToolGate` | |
| `Installer` | three programs over one home directory | |
| `Session` | two sessions' hooks, the git hook, the stores they share | |
| `Grove` | posts, flags and notifications, and one of five readers in each behaviour | |
| `Nest` | queue file, drop zones and their callers | |
| `Dream` | the lock and timer of one agent | |
| `Fleet` | dashboards, their monitors and services | |
| `Norn` | reflections, insights and the passes between them | |
| `Sorting` | ids in increasing order, as the queries of `Nest` and `Grove` return them | |
| `DataLemmas` | facts about numbers and sequences that several proofs cite | `Sorting` |

How the code became steps:

* *A statement with its commit is one step* when nothing read before decides it.
  A read and a write that depends on it are two, with what was read kept in a
  variable of the client (`current`, `job`, `draft`, `call`). That is where the
  interleavings come from.
* *A claim of Kart is two steps*, `ClaimSelect` and `ClaimCommit`, with the row
  locked in between (`lock`). SKIP LOCKED is the conjunct `lock[t] = NoWorker` of
  `Claimable`. `DbError` decides a commit in flight either way.
* *SQLite row ids* are one more than the largest in the table, the row about to
  be replaced included (`NextRowid`), which is how they come back after a hard
  delete. That `INSERT OR REPLACE` into `records_vec` is a delete and an insert
  is taken from the code around it.
* *PostgreSQL's `now()`* is the start of a transaction: `FrankLedger` keeps
  `began` for each connection, and `Read` opens a transaction as psycopg2 does.
  A hash is the sequence of everything it was computed from, so two are equal
  only if all of that is: SHA-256 without collisions.
* *The event loop and the executor*: every step of a gated call that is sent to a
  thread is an action of `ToolGate`, and any call in another slot may move in
  between. Three clocks of the code (`monotonic()`, `time()`, the database's) are
  one. PGP, ACL and sanitizer are one choice, `Admit` or `Refuse`.
* *Pools of psycopg2* hand out an idle connection or a new one, fail when all are
  out, and refuse what they have not handed out (`Obtain`, `PutBack`): external,
  like the server going down and up. Which identity a new connection takes makes
  no difference, so `NewConn` picks one.
* *Programs and hooks* (`Installer`, `Session`, `Nest`, `Dream`, `Norn`) go through
  a field `todo`, or `step`: one step for each write another process could see, with what
  was read before kept in the process's record. A process may end at every step.
* *A file written in place* (boot configuration, Nest queue, the turns file when it
  is rotated) is truncated in one step and written in the next; an end in between leaves
  it empty. The depth file's single digit is written at once, or lost with its writer.
* *A call of `_mcp.call`* never raises: a failure is an answer, `{"error": ..}`
  (`willow/fylgja/_mcp.py`). A step of `Session` and `Norn` that fails therefore goes on
  as the caller does with such an answer: the compost looks for "ingested", a
  shutdown's feedback and an insight pass look at nothing.
* *Grove*: a message has its id from the step `Insert` and is visible from `Commit`
  on. Finding a channel and inserting are one step since nothing removes channels.
  `Readers` picks the reader of a behaviour; they do not influence each other. Each
  query of a channel by the agent that polls is a step.
* *Fleet*: a child that ends, binds its port or survives its parent is an action of
  the service; `loose` counts those no dashboard knows.
* *Norn*: a pass keeps the records it listed (`seen`) and writes them
  back with its mark. A put that fails (`PutFails`) is marked on the reflections all
  the same, with the number of an insight that does not exist. The model's answer is a
  choice, and no answer is the choice of
  setting aside, because that is what the code makes of it.
* *Installers*: schema, CMB atom and starter atoms are those of the database that the
  program opens, PostgreSQL or SQLite. A launcher that is not written, because there is no
  single Windows user or no desktop, is in `excused` like a step that was passed over.
* *Forks*: nothing in the tools sets an atom's fork. That a client tags with an open
  fork (`Tag`) is an assumption about clients that the code does not enforce.
* *Histories* (variables marked so) record what a property needs and no action
  looks at: how often a task was begun, which forks saw overlapping calls of
  `fork_log`, which rules were clean. They guard nothing. Bounds on counters are
  constants whose comment says "bound".

Definitions marked `Faulty` are not part of the specification: each is what the
definition after it might look like with a plausible slip, and the property it is
listed with in `PROJECT.json` fails when it takes that definition's place.

## 3. Runs

Start a run with `tlc -config <cfg> <module>`. Ten runs pass and two show a
disagreement between the code and what the repository says of it.

| Run | Instance | Distinct states |
|---|---|---|
| `kart` (`MCKartQueue.cfg`) | 2 daemons, 2 tasks, 2 creation times, 1 fault anywhere, 1 silence feed | 360 000 |
| `soil` (`MCSoilStore.cfg`) | 2 threads of one process, 2 records of 2 fields, 3 writes, 1 hard delete | 610 000 |
| `frank` (`MCFrankLedger.cfg`) | 2 connections, 2 contents, 4 rows, 5 instants | 1 190 000 |
| `gate` (`MCToolGate.cfg`) | 3 calls, 2 at a time, a limit rule that comes and goes, a limiter at its limit, rules cached for 1 tick and asked for in up to 1, a database that fails, from the first instant | 3 380 000 |
| `forks` (`MCForks.cfg`) | 2 clients that may die half-way, 2 forks and FORK-ORIGIN, 2 atoms, 2 entries; symmetric | 3 960 000 |
| `pg` (`MCPgConnections.cfg`) | 2 threads, a pool of 1, 5 connections, a breaker of 2 failures in 2 ticks | 1 100 000 |
| `installer` (`MCInstaller.cfg`) | any number of runs of the three programs, 2 GPG keys, 1 step that fails or 1 interrupt, WSL with or without a desktop, `root.py` in full or on Termux | 330 000 |
| `session` (`MCSession.cfg`) | 2 sessions of 2 turns, 2 shutdowns, 2 corrections or 2 excerpts or 2 commits or 3 sub-agents, 1 end or refused call, a turns file kept to 2 of 3 turns; symmetric | 2 120 000 |
| `grove` (`MCGrove.cfg`) | 2 clients, 2 channels, each of 5 readers or none, 3 or 4 messages, 1 lost connection, dead client or failed fetch | 650 000 |
| `upkeep` (`MCUpkeep.cfg`) | one of: the Nest with 2 callers and the watcher, 2 files, 2 calls each, 1 end; 2 calls of `dream_run`, 3 dreams, 5 instants, 1 fault; 2 dashboards, 2 services, 3 starts, 2 ends or failures; 2 insight passes, 2 sessions, 4 reflections, 1 fault | 770 000 |
| `kart_fed`, `session_atoms` | the instance of the run it belongs to, without faults for the first | |

**What the passing runs show.**

`kart`: `AtMostOnce` holds over both daemons, crashes and answers that were lost,
although `_complete_task` and `_fail_task` look at nothing but the id;
`RunNeverAhead` says that the run ledger may lag behind the queue but never runs ahead
of it; `KeepsContract` is the refinement of `TaskContract`, in which a report tells what
came of the execution; `FinishesUnlessDisturbed` says that no task is parked as
pending unless every daemon is dead or stuck in a command, and that only a fault,
the feed or a command that does not end keeps one from a final status.

`soil`: `KeepsContract` is the refinement of `SoilContract`, where an update
merges into what is there at the moment of writing and every write is logged.
`VectorsCurrent` holds although no delete removes a vector and row ids come back,
because every `put` replaces or removes the vector of its new row id.

`frank`: `Rooted` (a row is chained to a row that is in the ledger) needs no
assumption about writers; `SoleWriterVerifies` says that what the code assumes,
one writer, is enough for the chain to verify whatever other connections read or
leave unfinished, as long as no two rows have one timestamp; `TamperEvident`
says that a changed row, or any missing row but the newest, is noticed.

`gate`: `InForce` bounds how old the rules can be that a call is judged by:
the life of the cache and the time of one query, which in this run may take as long as
a rule lives. `Immediate` says when a change of rules takes effect at once; its two
exceptions are in section 5. `Throttled`: behind the gate, whatever the calls in the
other slots do, a call is denied exactly when the limit's number of calls of its
application, denied ones among them, came before it inside the window.

`forks`: `FateFollowsFork`; `NoneStranded` and `EntriesKept` say
precisely when something is lost: only when the call that closed a fork died
half-way, only when two calls of `fork_log` on one fork overlapped.

`pg`: `Exclusive` and `Accounted` hold although two pools may be created and a
release may go to a pool that did not give the connection; only a failed
`init_schema` costs a slot. `BreakerExact` gives the state of the breaker as a
function of the history of failures, `Recovers` says that it stays closed once
the server stays up.

`installer`: `KeyKept`, an API key the vault could hold when it was taken can be
decrypted for ever, whatever was interrupted or run again; `OneKeyPerOwner`, `seed.py`
and `shoot.py` record one GPG key for one address although the latter makes a new one each
time; `PinnedIsInstalled`, a version file stands for an installed system but for
the steps that were skipped, failed in a program that passes over failures, or found no
Windows desktop for the launcher; `Settles`, a person who keeps starting the programs ends
up with both configurations whole. `shoot.py` raises before it saves when there is no agent
name, and only one step of `seed.py` gives the shell one: if that was passed over,
`shoot.py` may never get done, and `Settles` excepts it.

`session`: each property names the only things that can break it. `TurnsKept`: a turn
the cursor has passed is in a composite, or no compost could see it: it was stamped before
the clock was read and appended after the file was, it was further back than a compost
looks, or a rotation of the file took it out; `RatifiedIsStored`: what is
marked ratified is in the encrypted store or in the copy of an open review, but for
reviews that were cut or overlapped; `FeedbackOnce`: a correction is written up a second
time only after a lost mark or an overlap, and never marked without having been written
unless the write was refused; `HookAtomOnce`: the git hook and the pipeline write one
atom of each kind for a commit unless two of them look at once; `AgentsBounded`: the depth file
keeps the agents within the limit unless a launch overlaps another launch or the end of a
turn, or a writer of that file was ended; `OneRun`: the newest run
alone is running unless two sessions start at once or a start was cut.

`grove`: `ShownInOrder`, a reader shows or answers the messages of a channel in the order of
their ids, and so none twice, unless its seed failed; `MissedExplained`, a message below
the cursor was shown, or committed below the cursor already, or fell into the gap of a
lost connection; `FlagsTell`,
needs-reply is there until the answer's second step and gone only if there is an answer;
`NewestHandled`, once the coordinator has worked off its notifications, each message that
called it was handled, has a newer one in its channel, or was the newest when a fetch
failed, which costs just that message; `Reached`, heimdallr and the loop of
`grove_serve` come to every message above their cursor while they stay connected.

`upkeep`: `QueueTells` ties the queue to the drop zones unless a stale copy was
written; `Spaced` puts a day between two dreams unless forced, raced or after a fault;
`OneInstance` and `Told` are the fleet's: no service twice but after a race, a kill
or a late spawn, none down without being spawned again or reported;
`EvidenceTells`: a superseded reflection is the text its insight was drawn from, no
text is drawn from twice and no newer text gives way to an older one, but for insights
whose put failed (their evidence is superseded all the same), passes that overlapped, marks
that failed and texts written during a pass; `Digested`: no backlog worth a question stays,
because each text is drawn from, set aside, or gone with an insight whose put failed; it
says that the list is worked off, not that nothing is lost on the way.

Invariants of section 4 that no run lists (`ReportMatchesOutcome`, `AuditTells`,
`Sliding`, and the strengthenings such as `Kept`, `QueueInv`, `FleetInv`, `VaultInv`,
`TurnInv` or `ReaderInv`) were checked on the same instances before they were proved: a
module that extends the `MC` module and the `Proofs` module can name them.

**Why the bounds are enough.** Each hazard needs two actors (two claims, an update
and a hard delete, an append and a lingering read, a query for rules and a
`policy_put`, two calls on one fork, two threads without a pool) and one or two
things to act on; each instance has both. Windows are two ticks, so that their
edge, inside and outside all occur; in `gate` the cache lives for one tick and a query
takes up to one, so that rules can be used up to their bound and would be used past
it if a query that fails kept the old ones (the mutant of `InForce`).
`soil` has one write more than records, so that
a row is replaced and its id returns. `kart` has one fault because every fault
empties the hands of one daemon and the other one goes on; two faults were
checked for the safety properties while the model was written. `pg` has the
5 connections that 2 threads can have alive at a time and a pool that is full with
one connection. `installer` has one step that fails or one interrupt because a
second one can only hit a run that starts from a state the first one left, and any
number of runs follow; with `--skip-pg` as a second flag the run was
checked while the model was written (510 000 states), and the theorems hold for any set of flags.
`session` gives each behaviour one kind of input beside the turns (`Worlds`),
since the steps of a shutdown share no state; two sessions are enough for every
overlap of two. `grove` bounds messages and channels for each reader by
what it looks at: two channels where notifications carry one, one otherwise; a
batch of 1 so that every limit is reached; four messages where replies refer to earlier ones.
In `upkeep` two names are enough for a free name to be taken, a window of two ticks in
six instants has two dreams inside, at and past its edge, the failures fall in the time of the first
dashboard (`Fault`: two with one start, none after a second one), enough for a start that
fails, a respawn that fails and the alert at the third count, three starts let a
dashboard come back beside another one, and four reflections write both of
two sessions' records anew after an insight; a cluster
takes two instead of three. The theorems of section 4 hold without these bounds.

**Deadlock** is checked in `forks`, `pg` and `installer`. Elsewhere
it is off because the bounded instance ends: all tasks done, the clock or the
ledger full.

**Fairness.** `KartQueue` assumes weak fairness of `LoopStep`, the daemon's own
steps: a live daemon thread keeps polling (`kart_loop`). It assumes nothing of
`ExecEnd`, because a command may never end (section 5), nor of submissions, the
feed, crashes, restarts and sessions. `PgConnections` assumes it of time and of each
thread's steps between a request and its answer, which are plain calls with
connection and statement time-outs; nothing is assumed of requests or of
the server. `Installer` assumes that a person keeps starting `seed.py` and `shoot.py`
and at some time gives a name, agrees, and starts `shoot.py` from a shell that has read
the profile in which `seed.py` wrote the agent's name (strong fairness: it is the person's
patience, and `Settles` says what it buys), and that a running program goes on. `Grove`
assumes weak fairness of the reader's own loop, its seed and its LISTEN, which the
programs retry for ever; nobody has to write. `Fleet` assumes that the monitor's loop
goes round (`Respawn`, `Fail`) and its back-off ends (`Cool`). `Norn` assumes that
passes are run again, which the service does at every start, and that a running one goes
on: the question has a time-out. The other modules state safety only.

**The disagreements** (`findings` in `PROJECT.json` quotes the lines):
`kart_fed`, the silence feed marks a task as running "so Kart picks it up", and
Kart claims pending tasks only; `session_atoms`, the file that should name the last
extracted commit is read and never written, so each shutdown writes another atom for a
commit that has one.

## 4. Theorems

`tlapm <module>` checks a proof. All theorems hold for every value of the
constants under the module's named assumptions, which state types, that
placeholders differ from what they stand beside, and that sizes are natural
numbers.

| Module | Proved | Argument |
|---|---|---|
| `KartGroveProofs`: queue | `TypeOK`, `Ownership`, `SingleOwner`, `AtMostOnce`, `ReportMatchesOutcome`, `RunNeverAhead`, `FedIsStranded`, `FinalStays`, refinement of `TaskContract` | `TypeOK /\ Ownership` is inductive |
| `KartGroveProofs`: Grove | `ShownInOrder`, `MissedExplained`, `FlagsTell`, `NewestHandled` | `TableInv`, `FlagInv`, `ReaderInv` |
| `StoreProofs`: SOIL | `TypeOK`, `VectorsCurrent`, `AuditTells`; with one store, `LockGuards` and the refinement of `SoilContract` | each inductive with `TypeOK` |
| `StoreProofs`: FRANK | `FrankTypeOK`, `Rooted`, `SoleWriterVerifies`, `TamperEvident` | `DraftsRooted`; `SoleWriterInOrder`; a least wrong row |
| `StoreProofs`: installers | `KeyKept`, `OneKeyPerOwner`, `PinnedIsInstalled` | `Ordered`; `OwnerInv`; `VaultInv` |
| `SessionProofs`: sessions | `TurnsKept`, `RatifiedIsStored`, `FeedbackOnce`, `HookAtomOnce`, `AgentsBounded`, `OneRun` | `ProgramsInv` with `TurnInv`, `ReviewInv`, `RuleInv`, `AtomInv`, `AgentInv`, `RunInv` |
| `SessionProofs`: forks | `TypeOK`, `ClosedStays`, `FateFollowsFork`, `NoneStranded`, `EntriesKept` | `Committed`, `Sourced`; `Fresh` |
| `PgConnectionsProofs` | `Exclusive`, `Accounted`, as long as there are spare identities; `BreakerExact` | `OnePlace`, `Hands`, `Outside`; `BreakerInv` |
| `UpkeepProofs` | `FilesKept` and `LockHeld` (no run lists them), `QueueTells`, `Spaced`, `EvidenceTells`, `OneInstance` | `NestInv`; `QueueInv`; `DreamInv`; `NornInv`; `FleetInv` |
| `GleipnirProofs` | `TypeOK`, `Sliding`, `SoftFirst` | `Kept`: the list is a tail of the history |
| `ToolGateProofs` | `TypeOK`, `InForce`, `Immediate`, `Throttled` | `ForceInv`; `CleanInv`; each step of the gate is one of the limiter or leaves it alone, so `GleipnirSliding` holds behind the gate |
| `DataLemmas` | least and greatest elements, sequences appended and joined, ranks, what `Sorted` returns | |

Why the strengthenings are needed:

* **Kart.** That no two daemons hold a task does not survive a step by itself:
  one must know that a held task is not pending once its claim is committed, and
  locked before. `Ownership` says for each place in the loop what the row, the
  run and the result are; and for each row that a finished one has its one
  execution behind it and a fed one has no owner.
* **SOIL.** An update writes what it computed before; `LockGuards` says that this
  still is a merge into the present record, or the record is gone (a hard delete
  ignores the lock). It needs every thread in one store (`OneStore`); vectors
  and log do not.
* **FRANK.** The newest row by time has to be the last row committed. For a sole
  writer, `SoleWriterInOrder` says that timestamps rise along the commits, that no
  transaction of his began before his last row, and that a hash he has
  read is still that of the last row. `TamperEvident` needs no invariant but the types:
  it is about any ledger that verifies. A changed row no longer has its hash; without a
  row, the one after it (the rows are finite, so there is a first) has another before it.
* **Gleipnir.** `Kept`: what the list holds is the end of the history, and
  everything before it lies outside the window for good. Then the length of
  the list and one time of the history say the same.
* **ToolGate.** `InForce` follows from `CacheRecent` (the cached rules were in
  force less than a query's time before they were stored) and the same of the
  rules in the hands of each call. `Immediate` needs to know which rules no older ones
  are on the way to replace: the history variable `clean` and `CleanInv`.
* **Forks.** `Committed` ties the second half of a call to the status its first half
  wrote, `Sourced` a tag to its history. `EntriesKept` needs `Fresh`: outside
  contended forks, the list a call of `fork_log` has read is still the list.
* **Connections.** `Spec /\ []Spare => []Exclusive`: `NewConn` takes a fresh identity
  with CHOOSE, and `Spare` says that there is one, which is no restriction on a
  process. That a connection is in one place only (`OnePlace`) needs to know for
  each step of a request whether there is a pool and whether the connection in hand
  came from it (`Hands`, `Outside`). `BreakerExact` needs to know that the
  breaker's list is the end of all failures, and that those it dropped are out of the
  window for good (`Remembers`); each prune then keeps that form.
* **Upkeep.** `NestInv`: who is about to move a file holds a free spot of its own,
  unless two had chosen one. `DreamInv`: as long as nothing went wrong one call
  runs, and the record or that call is a day past every dream. `NornInv`: a cited
  text is open only while a pass that holds it has yet to mark it (`CitedOnce`); two passes
  that hold one session's reflection are on record (`SharedTold`); and what a pass has
  listed is no older than what was overtaken (`UpToDate`). `QueueInv`: unless somebody
  wrote a copy that was out of date, one caller saves at a time, and a pending item has
  its file in the drop zone, taken away by its owner, or moved by a caller who is about to
  save that. `FleetInv`: but for a slip (section 5), no service is without its dashboard,
  the PID file names the dashboard that has services or may get some, and what runs
  while a dashboard clears its list is in that list.
* **Installers.** What a run has left to do stands in an order (`Ordered`): no key is in hand
  when the gate asks for one, and what the version stands for is there, was passed over,
  or comes before it. `OwnerInv`: the key in hand, and in either
  configuration, is the first one of its address. `VaultInv`: a key the vault has taken
  stays among its credentials, and there is none without the master key.
* **Sessions.** Which two programs are in the same work is remembered in `overlap`
  (`ProgramsInv`); where nothing overlapped and nothing was cut, each invariant says what
  the one program in between two of its steps still knows: the turns it has read
  cover the ones the clock will pass, its copy of the database holds what the file
  does, its records are not written up, the commit it looked at still has no atom.
* **Grove.** What a client is doing agrees with the message it wrote, and no two
  write the same one (`TableInv`); then a flag can only be set or cleared by the call that
  is at that step (`FlagInv`). `ReaderInv`: cursors never pass the table; what was
  shown is not beyond the cursor, and the rows in the hand of `grove_serve` rise and lie
  beyond it, which is why the order is kept and none is shown twice;
  a reader without a connection is excused from everything it has not shown;
  and a notified channel has a message.

**Only model-checked:** liveness (`FinishesUnlessDisturbed`, `Recovers`, `Settles`,
`Reached`, `Told`, `Digested`), which this prover does not reach under fairness, and the
two disagreements. Every other property of a passing run is proved. Induction over
data is out of the prover's reach as a rule of its own, since the library's theorems
take an operator; where rows or ids had to be gone through, the proof takes the
least one that is wrong. The prover does not expand `SelectSeq` and `SortSeq` either:
`Sorted` is defined by what it returns, and `SortedIs` proves that there is such a
sequence. No module that a proof uses declares a recursive operator.

## 5. Seen while modelling

Behaviour that contradicts or surprises, without a run of its own:

* A task whose daemon crashed stays 'running' with no holder, and nothing looks for
  it; `kart_worker.py:299` speaks of holding "across claim+complete atomic pairs",
  but claim and completion are two commits. `FinishesUnlessDisturbed` excepts it.
* The 1800 seconds of a command are looked at only when it prints a line
  (`kart_worker.py:277`): a silent command that does not end holds its daemon
  for ever. `FairSpec` leaves it that freedom.
* Updates of one SOIL record from two processes lose keys: with one process for
  each thread `LockGuards` and `KeepsContract` fail. The lock belongs to a
  `WillowStore` object (`core/willow_store.py:337`).
* Hard deletes leave no entry in the log (`core/metabolic.py:73`,
  `willow/flags.py:71`), against "every write is logged" (`core/willow_store.py:11`),
  and an update in progress writes a purged record again. `SoilContract` has the
  step `Lose` for them.
* The tool that calls `put` says "Append-only" (`sap/sap_mcp.py:607`); `put` replaces
  (`core/willow_store.py:242`).
* In the SQLite ledger all rows of one second tie, and the third append of a second is
  chained to the first (`core/sqlite_bridge.py:662`): the assumption `Distinct` of
  `SoleWriterVerifies`.
* Rules selected before the commit of `policy_put` may be stored after its invalidation
  (`sap/middleware.py:204`) and then live for a minute, and in the first minute
  after boot the time 0.0 is fresh, so an invalidation has no effect and the server
  starts with no rules: the exceptions of `Immediate`.
* A blocking rule with the target `*` stops `policy_delete` as well.
* Two calls of `fork_log` lose an entry that both acknowledge (`willow/forks.py:77`),
  and `fork_log`, described as for an open fork (`sap/sap_mcp.py:1225`), writes to
  closed ones, like `fork_join`.
* `_get_pool` has no lock (`core/pg_bridge.py:419`): two threads that find no pool
  create one each, and the pool "shared across all PgBridge instances" (line
  410) is replaced. `pg` contains it; the loser falls back to a direct connection.
* `init_schema` that fails keeps its connection out of the pool and is not run again
  by that process (`core/pg_bridge.py:423`): `leaked` in `Accounted`.
* Appends of one server process that never overlap still break the ledger's chain when
  one connection's transaction was opened by an earlier read (`core/pg_bridge.py:1216`):
  the reason for the sole writer in `SoleWriterVerifies`.
* A limit rule counts receipts, and they are written after the answer
  (`sap/middleware.py`): one more call than the limit gets through.
* A merge whose call dies between its two commits never promotes its atoms
  (`willow/forks.py:98`): the exception of `NoneStranded`.

Installers:

* `shoot.py:1868` raises without an agent name before the configuration is saved, after all
  its pages; only `seed.py`'s environment step gives one, and it may be passed over.
* Three programs keep two master keys (`.master.key` and `vault.key`) and two tables in
  one `vault.db`. The gate of `seed.py` writes the API key before its own step makes the
  vault: on a first run ever the key is lost while "Connected." is shown.
  `sap/core/inference.py:47` reads a key file that no installer writes.
* A key, identity or telemetry file cut short by an interrupt is never repaired;
  `root.py` then stops at its vault step on each run, though `root.py:7` says "Idempotent".
* `completed` is set whatever failed, so "Re-run seed.py and enable Grove when prompted"
  (`seed.py:1640`) has no effect; the answer of `frank_onboarding` is ignored.

Sessions:

* `grove_get_history` answers `{"result": [..]}`, and both callers
  (`session_start.py`, `shutdown.py`) look for `"messages"`: the dispatch inbox and the
  ingest of Grove find nothing.
* `turn_count` is written by nobody, so every turn is a first turn; no hook writes the pointer
  file of a run, so runs end as abandoned only (against `core/run_ledger.py:4`).
* Stop names its composite by the session, session start looks one up by the date. A
  failed INSERT of the synthesis aborts the transaction of all that follow, and
  `HEAD~20` does not exist in a young repository. gpg writes straight over the only
  copy of `sean.db.gpg`.

* `_rotate_turns` reads, truncates and writes the turns file (`shutdown.py:44`); a turn that
  another session appends in between is overwritten. The stop hook reads and writes the depth
  file (`stop.py:305`) like a launch does, so a launch in between is forgotten.

Grove:

* "Re-seed cursors so we don't replay or miss messages after reconnect"
  (`willow/grove_listen.py:245`): what was committed while disconnected is missed.
  A notification taken in with the SELECT's answer does not wake that loop, which does not
  ask again by itself: `Reached` leaves it out.
* A seed of `grove_serve` that fails makes it answer the whole history, against
  "so we don't replay history on startup"; `unseeded` in `ShownInOrder`.
* The coordinator's own answer is the newest message of its channel: a message that arrives
  while it answers another is never handled. It and `grove_serve` both answer "@willow".
* The coordinator takes a notification out of its queue and then fetches; a fetch that
  raises logs a warning and returns nothing (`willow/coordinator.py:115`), and the message is
  not asked for again.

Nest, dreams, fleet, Norns:

* "skip removes it from the queue" (`sap/sap_mcp.py:2168`): a skipped file is staged
  again by the next scan, which looks at pending items only. A second confirm turns a
  confirmed item into an error. A queue file cut short makes every later call raise. Two
  confirms may choose one free name, and one file then replaces the other
  (`raced` in `FilesKept`).
* The records that take the dream lock, and that a failure leaves, have no
  `last_dream_at`: the day is forgotten (`lapse` in `Spaced`). A server that dies leaves the lock
  for ever. `dream_run` "Checks conditions", but not the five sessions.
* A crashed service is spawned twice and at the third failure reported once and left; "Stop
  retrying after this many failures" (`fleet.py:65`, ten) is out of reach. A monitor may
  spawn a service after `stop()` has taken its list. A quitting dashboard runs `stop()`
  twice, from `action_quit` and from atexit (`app.py:643`, `app.py:691`), and each
  removes the PID file whoever wrote it (`fleet.py:121`), so that a third dashboard may start
  beside one that runs (`slip` in `OneInstance`).
* An insight whose `store_put` fails is counted as written, and its evidence is marked
  superseded by a record that does not exist: `_mcp.call` answers `{"error": ..}`
  (`willow/fylgja/_mcp.py:257`), so the `except` around the put
  (`core/intelligence.py:450`) is never reached (`lost` in `EvidenceTells`).
* One night without an answer of the model sets all open reflections aside for good
  (`core/intelligence.py:413`). A later turn's reflection is lost when a pass writes back
  the older one (`overtaken` in `EvidenceTells`). All reflections fall under the domain
  "general", for which `chunk_pass` never writes.

## 6. Not modelled

In the modelled components: what commands, tools and embeddings compute; search and
ranking; the JSON round trip of a ledger entry (keys or numbers that JSONB
normalises would hash differently on verification, `core/pg_bridge.py:1219`); edges of
SOIL, whose weights are read from a list and written back later
(`core/willow_store.py:309`); the inline
execution of `agent_task_submit`; the events of a run. The manifests, ACLs and
sanitizer behind `Admit` and `Refuse`. Lock time-outs of PostgreSQL appear as
failures, not as times. SQLite's own locking appears as the atomicity of
transactions and the failure of an update. Of the hooks, what a composite or an atom
says, telemetry, and the steps that find nothing (section 5). Of Grove,
`grove_flag` and `grove_unflag`, with which a client sets or clears any flag under any
sender (`FlagsTell` is about the flags that commands and answers set and clear),
`grove_bus_receive` and `grove_inbox` (pages by priority), subscriptions and push of
`mcp_local.py`, the archive, and cursors in the table, which nobody calls. Of the fleet, the
watchdog and the dashboard's own session file.

Dispatch and the Orin worker have no model because they have no behaviour yet: the
worker reads columns (`updated_at`, `result`) that the schema does not have, so each claim
fails. `sap/sap_mcp_v1.py`, the longest file, is superseded and referenced by nothing.

The share of mapped lines stays low because most of the code is text: pages of the
installers and the dashboard, prompts, schemas of tools, reads that are handed on. Of the
modelled components, the writes that another process, thread or later run can see are meant
to be actions, and those that are not are listed in this section.

Components left out are listed in section 1 and, with the reason, in
`PROJECT.json`. They are presentation, text and numeric heuristics, calls of models,
one-off scripts, or planned below.

## 7. Plan

Done, in this order: the task queue and its proofs; SOIL; the ledger; the limiter and
the gate; forks; connections and their proofs; installers; sessions; Grove; the Nest,
dreams, fleet and Norns; the proofs of all safety properties the runs check.

Next, by what depends on it:

1. Proofs: type invariants of the modules that have none as a theorem; the Nest's and
   `Norn`'s promises as abstract specifications and their refinement.
2. `Dispatch` once its worker agrees with the schema: it has the shape of `KartQueue`, so
   its abstract specification can be `TaskContract`.
3. `SoilEdges`: weights over `SoilStore`, with activations of two agents.
4. Sequential algorithms as operators: the hash ring and the LRU of
   `willow/memory`, `angular_action`, the step table of `sandbox/`.
5. An abstract specification of Grove, a log read in order, with the gaps of
   `MissedExplained` as its only deviations.
