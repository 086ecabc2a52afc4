------------------------------ MODULE Session ------------------------------
(***************************************************************************)
(* What Fylgja does around the sessions of one agent: the hooks of Claude  *)
(* Code (session_start, prompt_submit, pre_tool, stop), the /shutdown      *)
(* program, and the git hook that writes an atom for a commit.             *)
(*                                                                         *)
(* Each session, and git, runs one program at a time; `step` is the step   *)
(* it is at.  The programs of different sessions interleave: their files   *)
(* are named after the agent, not after the session.  A program may be     *)
(* ended anywhere (a hook by its time limit).  Time is the number of turns *)
(* stamped, and a turn its stamp.  Wording, the index of the hardware and the pages printed for   *)
(* the model are left out.                                                 *)
(***************************************************************************)
EXTENDS Naturals, Sequences, SequencesExt, FiniteSets

CONSTANTS Sessions, Git,   \* who runs programs
          Rules,           \* records prompt_submit may file as feedback
          Excerpts,        \* excerpts stop.py may stage for Loki
          Worlds,          \* which kinds of input one behaviour has
          MinTurns,        \* turns a compost needs (3)
          TailTurns,       \* turns a compost looks at (TURNS_TAIL)
          KeepTurns,       \* turns the file keeps (TURNS_MAX_LINES)
          Window,          \* commits the synthesis looks back (20)
          MaxDepth,        \* WILLOW_AGENT_MAX_DEPTH
          MaxTurns, MaxCommits, MaxLaunches, MaxShutdowns, MaxTrouble  \* bounds

ASSUME SessionAssumption ==
    /\ Git \notin Sessions
    /\ {MinTurns, TailTurns, KeepTurns, Window, MaxDepth, MaxTurns, MaxCommits, MaxLaunches,
        MaxShutdowns, MaxTrouble} \subseteq Nat
    /\ MaxCommits > 0
    /\ \A w \in Worlds : w \subseteq {"shutdown", "turns", "feedback", "personal", "commits", "agents"}

VARIABLES world,      \* the kinds of input of this behaviour
          stage,      \* "new", "idle" or "turn", for each session
          step,       \* the step each program is at, "none" when none runs
          loc,        \* what each program has read
          runs,       \* rows of willow.runs, oldest first: their status
          depth,      \* the number in the depth file
          turns, file,     \* turns stamped, turns.txt
          cursor, composted,         \* the compost's cursor, turns it has counted
          feedback, principles,      \* status of each record, and how often it was written up
          excerpts, seandb, sealed,  \* status of each excerpt, atoms kept, the file is whole
          commits, atoms,            \* commits so far; atoms of each, by their writer
          launched, ended,           \* history: agents launched, turns ended
          appended,     \* history: turns ever appended to turns.txt
          unseen,     \* history: turns a compost could not see: appended too late for it,
                      \* too far back, or taken out of the file by a rotation
          cut,        \* history: steps at which a program was ended or refused
          overlap,    \* history: steps two programs were at together
          trouble, shutdowns         \* bounded counters

turnVars   == <<turns, file, cursor, composted, appended, unseen>>
ruleVars   == <<feedback, principles>>
lokiVars   == <<excerpts, seandb, sealed>>
gitVars    == <<commits, atoms>>
agentVars  == <<depth, launched, ended>>
faultVars  == <<cut, trouble>>
clockVars  == <<world, stage, shutdowns>>
sessionVars == <<step, loc, overlap, runs, turnVars, ruleVars, lokiVars, gitVars, agentVars,
                 faultVars, clockVars>>

Programs   == Sessions \cup {Git}
Nothing    == [upto |-> 0, now |-> 0, ids |-> {}, db |-> {}, pick |-> 0, kept |-> <<>>]
Writers    == {"commit", "merge", "synth"}

SessionInit ==
    /\ world \in Worlds
    /\ stage = [s \in Sessions |-> "new"]
    /\ step  = [p \in Programs |-> "none"] /\ loc = [p \in Programs |-> Nothing]
    /\ runs  = <<>> /\ depth = 0
    /\ turns = 0 /\ file = <<>> /\ cursor = 0 /\ composted = {} /\ appended = {} /\ unseen = {}
    /\ feedback = [r \in Rules |-> "none"] /\ principles = [r \in Rules |-> 0]
    /\ excerpts = [x \in Excerpts |-> "none"] /\ seandb = {} /\ sealed = TRUE
    /\ commits = 1 /\ atoms = [c \in 1 .. MaxCommits |-> [w \in Writers |-> 0]]
    /\ launched = 0 /\ ended = 0
    /\ cut = {} /\ overlap = {} /\ trouble = 0 /\ shutdowns = 0

At(p, x) == step[p] = x
Free(p)  == At(p, "none")

\* Kinds of work that two programs are in at once are remembered.
Kind(x) == CASE x \in {"stale", "insert"}           -> "starts"
             [] x \in {"decrypt", "judge", "seal"}  -> "reviews"
             [] x \in {"rules", "write", "mark"}    -> "pipelines"
             [] x \in {"check commit", "write commit", "check merge", "write merge"} -> "writers"
             [] x \in {"launch", "stop"}            -> "depths"
             [] OTHER                               -> x
Kinds == {"starts", "reviews", "pipelines", "writers", "depths"}
Busy(p) == {Kind(step[q]) : q \in Programs \ {p}}
\* p goes on with step x, and with what it has read in l.
Becomes(p, x, l) ==
    /\ step' = [step EXCEPT ![p] = x]
    /\ loc'  = [loc EXCEPT ![p] = IF x = "none" THEN Nothing ELSE l]
    /\ overlap' = overlap \cup ({Kind(x)} \cap Kinds \cap Busy(p))
Go(p, x)       == Becomes(p, x, loc[p])
Fine           == UNCHANGED faultVars
Refused(p)     == trouble < MaxTrouble /\ trouble' = trouble + 1 /\ cut' = cut \cup {step[p]}

\* What a step leaves alone: every group of variables but those named in ws.
Only(ws) ==
    /\ IF "turn"  \in ws THEN TRUE ELSE UNCHANGED turnVars
    /\ IF "rule"  \in ws THEN TRUE ELSE UNCHANGED ruleVars
    /\ IF "loki"  \in ws THEN TRUE ELSE UNCHANGED lokiVars
    /\ IF "git"   \in ws THEN TRUE ELSE UNCHANGED gitVars
    /\ IF "agent" \in ws THEN TRUE ELSE UNCHANGED agentVars
    /\ IF "run"   \in ws THEN TRUE ELSE UNCHANGED runs
    /\ IF "clock" \in ws THEN TRUE ELSE UNCHANGED clockVars

-----------------------------------------------------------------------------
(* SessionStart                                                            *)

StartSession(s) ==
    /\ stage[s] = "new" /\ Free(s)
    /\ stage' = [stage EXCEPT ![s] = "idle"]
    /\ Becomes(s, "stale", Nothing)
    /\ Fine /\ UNCHANGED <<world, shutdowns>> /\ Only({"clock"})

\* _open_run: what another session of this agent left running is abandoned, then the
\* new row is inserted; two statements, each committed by itself.
CloseStaleNot(s) ==
    At(s, "stale") /\ Go(s, "insert") /\ Fine /\ Only({})
CloseStale(s) ==
    /\ At(s, "stale")
    /\ \/ /\ Fine /\ Go(s, "insert")
          /\ runs' = [i \in DOMAIN runs |-> IF runs[i] = "running" THEN "abandoned" ELSE runs[i]]
       \/ Refused(s) /\ Go(s, "none") /\ UNCHANGED runs
    /\ Only({"run"})
InsertRun(s) ==
    /\ At(s, "insert") /\ Go(s, "none") /\ Only({"run"})
    /\ \/ Fine /\ runs' = Append(runs, "running")
       \/ Refused(s) /\ UNCHANGED runs

-----------------------------------------------------------------------------
(* UserPromptSubmit, PreToolUse for an agent, and Stop                     *)

Prompt(s) ==
    /\ stage[s] = "idle" /\ Free(s) /\ turns < MaxTurns
    /\ \/ Becomes(s, "log", Nothing)
       \/ /\ "feedback" \in world /\ \E r \in Rules : feedback[r] = "none"
          /\ Becomes(s, "note", Nothing)
    /\ stage' = [stage EXCEPT ![s] = "turn"]
    /\ Fine /\ UNCHANGED <<world, shutdowns>> /\ Only({"clock"})

\* A record's id holds a hash that differs from process to process: it is a new one.
NoteFeedback(s) ==
    /\ At(s, "note") /\ Go(s, "log") /\ UNCHANGED principles /\ Only({"rule"})
    /\ \/ /\ Fine
          /\ \E r \in {q \in Rules : feedback[q] = "none"} :
                feedback' = [feedback EXCEPT ![r] = "pending"]
       \/ Refused(s) /\ UNCHANGED feedback

\* _log_turn takes the time, then opens the file and appends; whatever fails is passed
\* over, and fails throughout in a world without "turns".
StampTurn(s) ==
    /\ At(s, "log") /\ Becomes(s, IF "turns" \in world THEN "append" ELSE "none",
                               [Nothing EXCEPT !.upto = turns + 1])
    /\ turns' = turns + 1
    /\ Fine /\ UNCHANGED <<file, cursor, composted, appended, unseen>> /\ Only({"turn"})

\* A compost that has read the file does not see it, and will move the cursor past it.
TooLate(i) ==
    \/ i <= cursor
    \/ \E q \in Sessions : \/ At(q, "clock")
                          \/ (i <= loc[q].now /\ step[q] \in {"ingest", "cursor"})
AppendTurn(s) ==
    /\ At(s, "append") /\ Go(s, "none")
    /\ file'   = Append(file, loc[s].upto)
    /\ appended' = appended \cup {loc[s].upto}
    /\ unseen' = IF TooLate(loc[s].upto) THEN unseen \cup {loc[s].upto} ELSE unseen
    /\ Fine /\ UNCHANGED <<turns, cursor, composted>> /\ Only({"turn"})

\* check: the depth is read and compared; launch: what was read, plus one, is written.
CheckDepthLate(s) ==
    /\ stage[s] = "turn" /\ Free(s) /\ "agents" \in world
    /\ launched < MaxLaunches /\ depth <= MaxDepth
    /\ Becomes(s, "launch", [Nothing EXCEPT !.upto = depth])
    /\ Fine /\ Only({})
CheckDepth(s) ==
    /\ stage[s] = "turn" /\ Free(s) /\ "agents" \in world
    /\ launched < MaxLaunches /\ depth < MaxDepth
    /\ Becomes(s, "launch", [Nothing EXCEPT !.upto = depth])
    /\ Fine /\ Only({})
LaunchAgent(s) ==
    /\ At(s, "launch") /\ Go(s, "none") /\ Only({"agent"})
    /\ depth' = loc[s].upto + 1 /\ launched' = launched + 1
    /\ Fine /\ UNCHANGED ended

\* Stop, at the end of a turn: the depth is read; one level less is written; and
\* perhaps an excerpt is staged for Loki.
StopTurn(s) ==
    /\ stage[s] = "turn" /\ Free(s)
    /\ stage' = [stage EXCEPT ![s] = "idle"] /\ ended' = ended + 1
    /\ Becomes(s, "stop", [Nothing EXCEPT !.upto = depth])
    /\ Fine /\ UNCHANGED <<world, shutdowns, launched, depth>> /\ Only({"clock", "agent"})
LowerDepth(s) ==
    /\ At(s, "stop") /\ Go(s, IF "personal" \in world THEN "signal" ELSE "none")
    /\ depth' = IF loc[s].upto > 1 THEN loc[s].upto - 1 ELSE 0
    /\ Fine /\ UNCHANGED <<launched, ended>> /\ Only({"agent"})
StageExcerpt(s) ==
    /\ At(s, "signal") /\ Go(s, "none") /\ Fine /\ Only({"loki"}) /\ UNCHANGED <<seandb, sealed>>
    /\ \/ UNCHANGED excerpts
       \/ \E x \in {y \in Excerpts : excerpts[y] = "none"} :
             excerpts' = [excerpts EXCEPT ![x] = "pending"]

-----------------------------------------------------------------------------
(* /shutdown: compost                                                      *)

Shutdown(s) ==
    /\ stage[s] = "turn" /\ Free(s) /\ shutdowns < MaxShutdowns /\ "shutdown" \in world
    /\ shutdowns' = shutdowns + 1
    /\ Becomes(s, "tail", Nothing)
    /\ Fine /\ UNCHANGED <<world, stage>> /\ Only({"clock"})

Newest(f, n) == IF Len(f) <= n THEN f ELSE SubSeq(f, Len(f) - n + 1, Len(f))
\* Turns a rotation has in hand while the file is cut.
InHand == UNION {ToSet(loc[q].kept) : q \in {r \in Sessions : At(r, "rewrite")}}

\* The turns after the cursor among the last TailTurns; fewer than MinTurns wait.
ReadTail(s) ==
    /\ At(s, "tail") /\ Fine /\ Only({"turn"})
    /\ LET tail == ToSet(Newest(file, TailTurns))
           news == {i \in tail : i > cursor}
       IN  IF Cardinality(news) < MinTurns
           THEN Go(s, "list") /\ UNCHANGED unseen
           ELSE /\ Becomes(s, "clock", [loc[s] EXCEPT !.ids = news])
                /\ unseen' = unseen \cup {i \in (ToSet(file) \cup InHand) \ tail : i > cursor}
    /\ UNCHANGED <<turns, file, cursor, composted, appended>>
ReadClock(s) ==
    /\ At(s, "clock") /\ Becomes(s, "ingest", [loc[s] EXCEPT !.now = turns]) /\ Fine /\ Only({})
IngestTurns(s) ==
    /\ At(s, "ingest") /\ Only({"turn"})
    /\ \/ Fine /\ Go(s, "cursor") /\ composted' = composted \cup loc[s].ids
       \/ Refused(s) /\ Go(s, "rotate") /\ UNCHANGED composted
    /\ UNCHANGED <<turns, file, cursor, appended, unseen>>
MoveCursorToNow(s) ==
    /\ At(s, "cursor") /\ Go(s, "rotate") /\ Fine /\ Only({"turn"})
    /\ cursor' = turns
    /\ UNCHANGED <<turns, file, composted, appended, unseen>>
MoveCursor(s) ==
    /\ At(s, "cursor") /\ Go(s, "rotate") /\ Fine /\ Only({"turn"})
    /\ cursor' = loc[s].now
    /\ UNCHANGED <<turns, file, composted, appended, unseen>>

\* _rotate_turns: a file that is too long is read, cut to nothing and written again from
\* what was read; what another session appends meanwhile is overwritten.
ReadTurns(s) ==
    /\ At(s, "rotate") /\ Fine /\ Only({})
    /\ IF Len(file) <= KeepTurns
       THEN Go(s, "list")
       ELSE Becomes(s, "truncate", [loc[s] EXCEPT !.kept = Newest(file, KeepTurns)])
TruncateTurns(s) ==
    /\ At(s, "truncate") /\ Go(s, "rewrite") /\ file' = <<>>
    /\ unseen' = unseen \cup (ToSet(file) \ ToSet(loc[s].kept))
    /\ Fine /\ UNCHANGED <<turns, cursor, composted, appended>> /\ Only({"turn"})
RewriteTurns(s) ==
    /\ At(s, "rewrite") /\ Go(s, "list") /\ file' = loc[s].kept
    /\ unseen' = unseen \cup (ToSet(file) \ ToSet(loc[s].kept))
    /\ Fine /\ UNCHANGED <<turns, cursor, composted, appended>> /\ Only({"turn"})

-----------------------------------------------------------------------------
(* /shutdown: Loki's review of the excerpts                                *)

ListExcerpts(s) ==
    /\ At(s, "list") /\ Fine /\ Only({})
    /\ LET pending == {x \in Excerpts : excerpts[x] = "pending"}
       IN  IF pending = {} THEN Go(s, "since") ELSE Becomes(s, "decrypt", [loc[s] EXCEPT !.ids = pending])
DecryptDbFresh(s) ==
    At(s, "decrypt") /\ Only({}) /\ Fine /\ Becomes(s, "judge", [loc[s] EXCEPT !.db = {}])
DecryptDb(s) ==
    /\ At(s, "decrypt") /\ Only({})
    /\ \/ sealed /\ Fine /\ Becomes(s, "judge", [loc[s] EXCEPT !.db = seandb])
       \/ ~ sealed /\ Fine /\ Go(s, "since")
       \/ Refused(s) /\ Go(s, "since")

\* One excerpt: the verdict, the row, and then the mark, which may be lost.
JudgeExcerpt(s) ==
    /\ At(s, "judge") /\ Only({"loki"}) /\ UNCHANGED <<seandb, sealed>>
    /\ \E x \in loc[s].ids, v \in {"ratified", "rejected", "error"} :
         /\ Becomes(s, "judge", [loc[s] EXCEPT !.ids = @ \ {x},
                                 !.db = IF v = "ratified" THEN @ \cup {x} ELSE @])
         /\ \/ Fine /\ excerpts' = [excerpts EXCEPT ![x] = v]
            \/ Refused(s) /\ UNCHANGED excerpts
EndReview(s) ==
    /\ At(s, "judge") /\ loc[s].ids = {} /\ Go(s, "seal") /\ Fine /\ Only({})
SealDb(s) ==
    /\ At(s, "seal") /\ Go(s, "since") /\ Only({"loki"}) /\ UNCHANGED <<excerpts, sealed>>
    /\ \/ Fine /\ seandb' = loc[s].db
       \/ Refused(s) /\ UNCHANGED seandb

-----------------------------------------------------------------------------
(* Atoms of commits: the git hook, the safety net and the hook pipeline    *)

\* A commit starts the post-commit hook.
Commit ==
    /\ "commits" \in world /\ commits < MaxCommits /\ Free(Git)
    /\ commits' = commits + 1 /\ UNCHANGED atoms
    /\ Becomes(Git, "check commit", Nothing)
    /\ Fine /\ Only({"git"})

\* Commits after HEAD~Window; a younger repository has no such commit and gets none.
\* Nothing ever writes the state file that would name the last one extracted.
ListCommits(s) ==
    /\ At(s, "since") /\ Fine /\ Only({})
    /\ CASE "commits" \notin world -> Go(s, "rules")
         [] "commits" \in world /\ commits <= Window -> Go(s, "check commit")
         [] OTHER -> Becomes(s, "synth", [loc[s] EXCEPT !.ids = commits - Window + 1 .. commits])
\* Each is inserted and committed; one error leaves the transaction failed for the rest.
SynthAtom(s) ==
    /\ At(s, "synth") /\ Only({"git"}) /\ UNCHANGED commits
    /\ \E c \in loc[s].ids :
         \/ /\ Fine /\ atoms' = [atoms EXCEPT ![c].synth = @ + 1]
            /\ Becomes(s, "synth", [loc[s] EXCEPT !.ids = @ \ {c}])
         \/ /\ Refused(s) /\ Becomes(s, "synth", [loc[s] EXCEPT !.ids = {}]) /\ UNCHANGED atoms
EndSynth(s) ==
    /\ At(s, "synth") /\ loc[s].ids = {} /\ Go(s, "check commit") /\ Fine /\ Only({})

\* write_atom_to_kb: is there an atom of this kind for the commit?  If not, insert it.
\* git's hook writes an atom of the commit; the pipeline of a shutdown runs post_commit
\* and then post_merge on whatever HEAD is.
Checks(w)    == IF w = "commit" THEN "check commit" ELSE "check merge"
Inserts(w)   == IF w = "commit" THEN "write commit" ELSE "write merge"
Passes(p, w) == IF p = Git THEN "none" ELSE IF w = "commit" THEN "check merge" ELSE "rules"
CheckAtomNot(p, w) ==
    At(p, Checks(w)) /\ Only({}) /\ Fine /\ Becomes(p, Inserts(w), [loc[p] EXCEPT !.pick = commits])
CheckAtom(p, w) ==
    /\ At(p, Checks(w)) /\ Only({})
    /\ \/ atoms[commits][w] = 0 /\ Fine /\ Becomes(p, Inserts(w), [loc[p] EXCEPT !.pick = commits])
       \/ atoms[commits][w] > 0 /\ Fine /\ Go(p, Passes(p, w))
       \/ Refused(p) /\ Go(p, Passes(p, w))
WriteAtom(p, w) ==
    /\ At(p, Inserts(w)) /\ Go(p, Passes(p, w)) /\ Only({"git"}) /\ UNCHANGED commits
    /\ \/ Fine /\ atoms' = [atoms EXCEPT ![loc[p].pick][w] = @ + 1]
       \/ Refused(p) /\ UNCHANGED atoms

-----------------------------------------------------------------------------
(* /shutdown: the feedback pipeline                                        *)

ListFeedback(s) ==
    /\ At(s, "rules") /\ Fine /\ Only({})
    /\ LET pending == {r \in Rules : feedback[r] = "pending"}
       IN  IF pending = {} THEN Go(s, "none") ELSE Becomes(s, "write", [loc[s] EXCEPT !.ids = pending])
\* The answer of opus_feedback_write is not looked at.
WritePrinciple(s) ==
    /\ At(s, "write") /\ Only({"rule"}) /\ UNCHANGED feedback
    /\ \E r \in loc[s].ids :
         /\ Becomes(s, "mark", [loc[s] EXCEPT !.ids = @ \ {r}, !.db = {r}])
         /\ \/ Fine /\ principles' = [principles EXCEPT ![r] = @ + 1]
            \/ Refused(s) /\ UNCHANGED principles
MarkFeedbackNot(s) ==
    /\ At(s, "mark") /\ Only({}) /\ Fine
    /\ Go(s, IF loc[s].ids = {} THEN "none" ELSE "write")
MarkFeedback(s) ==
    /\ At(s, "mark") /\ Only({"rule"}) /\ UNCHANGED principles
    /\ Go(s, IF loc[s].ids = {} THEN "none" ELSE "write")
    /\ \/ Fine /\ feedback' = [r \in Rules |-> IF r \in loc[s].db THEN "processed" ELSE feedback[r]]
       \/ Refused(s) /\ UNCHANGED feedback

-----------------------------------------------------------------------------
(* A program is ended: a hook by its time limit, a shutdown by its user.   *)
(* A small file it was writing may be left empty.                          *)

EndProgram(p) ==
    /\ ~Free(p) /\ Refused(p) /\ Go(p, "none")
    /\ unseen' = unseen \cup (IF At(p, "rewrite") THEN ToSet(loc[p].kept) \ ToSet(file) ELSE {})
    /\ UNCHANGED <<turns, file, composted, appended, excerpts, seandb>>
    /\ cursor' \in {cursor} \cup (IF At(p, "cursor") THEN {0} ELSE {})
    /\ sealed' \in {sealed} \cup (IF At(p, "seal") THEN {FALSE} ELSE {})
    /\ depth' \in {depth} \cup (IF At(p, "launch") \/ At(p, "stop") THEN {0} ELSE {})
    /\ UNCHANGED <<launched, ended>> /\ Only({"turn", "loki", "agent"})

ShutdownStep(s) ==
    \/ ReadTail(s) \/ ReadClock(s) \/ IngestTurns(s) \/ MoveCursor(s)
    \/ ReadTurns(s) \/ TruncateTurns(s) \/ RewriteTurns(s)
    \/ ListExcerpts(s) \/ DecryptDb(s) \/ JudgeExcerpt(s) \/ EndReview(s) \/ SealDb(s)
    \/ ListCommits(s) \/ SynthAtom(s) \/ EndSynth(s)
    \/ ListFeedback(s) \/ WritePrinciple(s) \/ MarkFeedback(s)
HookStep(s) ==
    \/ StartSession(s) \/ CloseStale(s) \/ InsertRun(s)
    \/ Prompt(s) \/ NoteFeedback(s) \/ StampTurn(s) \/ AppendTurn(s)
    \/ CheckDepth(s) \/ LaunchAgent(s) \/ Shutdown(s)
    \/ StopTurn(s) \/ LowerDepth(s) \/ StageExcerpt(s)
WriterStep(p) == \E w \in {"commit", "merge"} : CheckAtom(p, w) \/ WriteAtom(p, w)

SessionNext ==
    \/ \E s \in Sessions : HookStep(s) \/ ShutdownStep(s)
    \/ Commit
    \/ \E p \in Programs : WriterStep(p) \/ EndProgram(p)
SessionSpec == SessionInit /\ [][SessionNext]_sessionVars

-----------------------------------------------------------------------------
(* A logged turn the cursor has passed is in a composite, or the compost   *)
(* could not see it: it was stamped before the clock was read and appended *)
(* after the file was, it was further back than a compost looks, or a      *)
(* rotation had taken it out of the file.  No turn is passed over because  *)
(* of an ingest that takes its time or fails.                              *)
TurnsKept ==
    \A i \in appended : i <= cursor => i \in composted \/ i \in unseen

(* An excerpt that is marked ratified is in the personal database or in    *)
(* the copy that an open review will put back, unless a review was cut     *)
(* short or two of them were open together.                                *)
RatifiedIsStored ==
    \/ cut \cap {"judge", "seal"} # {} \/ "reviews" \in overlap
    \/ \A x \in Excerpts : excerpts[x] = "ratified" =>
          x \in seandb \/ \E s \in Sessions : x \in loc[s].db /\ (At(s, "judge") \/ At(s, "seal"))

(* A correction is written up once and then marked: again only if a mark   *)
(* was lost or two pipelines ran together, never only if the write was     *)
(* refused.                                                                *)
FeedbackOnce ==
    \A r \in Rules :
      /\ principles[r] > 1 => "mark" \in cut \/ "pipelines" \in overlap
      /\ feedback[r] = "processed" /\ principles[r] = 0 => "write" \in cut

(* However often the hook and the pipeline of a shutdown come across a     *)
(* commit, they write one atom of each kind for it, unless two of them     *)
(* look at once.                                                           *)
HookAtomOnce ==
    "writers" \in overlap \/ \A c \in 1 .. commits : atoms[c].commit <= 1 /\ atoms[c].merge <= 1

(* No more than MaxDepth agents are launched beyond the turns that have    *)
(* ended, unless two programs change the depth file at once: a launch and  *)
(* another launch, or a launch and the end of a turn; or a program was     *)
(* ended while it wrote that file.                                         *)
AgentsBounded ==
    \/ "depths" \in overlap \/ cut \cap {"launch", "stop"} # {}
    \/ launched <= ended + MaxDepth

(* Of one agent's runs the newest alone is running, unless two sessions    *)
(* start at once.                                                          *)
OneRun ==
    \/ "starts" \in overlap \/ cut \cap {"stale", "insert"} # {}
    \/ \A i \in DOMAIN runs : runs[i] = "running" => i = Len(runs)

(* docs/ATOM_EXTRACTION_COMPLETE.md:322: extracted commits are tracked "to *)
(* prevent duplicates"; so a commit has one commit atom, however many      *)
(* sessions are closed.                                                    *)
AtomOnce == \A c \in 1 .. commits : atoms[c].commit + atoms[c].synth <= 1
=============================================================================
