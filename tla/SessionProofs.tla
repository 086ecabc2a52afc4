---------------------------- MODULE SessionProofs --------------------------
(***************************************************************************)
(* Proofs about what sessions share.  Of Session: that a compost keeps     *)
(* every turn, a review what it ratified, a pipeline each correction, the  *)
(* hooks one atom of a commit, and the bounds on agents and on runs.  Of   *)
(* Forks: types, the fate of atoms, that only a call that dies strands an  *)
(* atom, that closed forks stay closed, and that only overlapping calls of *)
(* fork_log lose an acknowledged change.                                   *)
(***************************************************************************)
EXTENDS Session, Forks, DataLemmas


-----------------------------------------------------------------------------
(* Sessions: how programs go from step to step.                            *)

\* What a program has read, as the prover can take it apart.
Locals(l) == l \in [upto : {l.upto}, now : {l.now}, ids : {l.ids}, db : {l.db}, pick : {l.pick},
                    kept : {l.kept}]

\* Unless it is remembered, no two programs are in one kind of work.
ProgramsInv ==
    /\ DOMAIN step = Programs /\ DOMAIN loc = Programs
    /\ \A p \in Programs : Locals(loc[p])
    /\ \A p, q \in Programs : p # q /\ Kind(step[p]) \in Kinds \ overlap => Kind(step[q]) # Kind(step[p])

\* p goes on with one of the steps of X; only what groups of variables it changes is left open.
GoesTo(p, X) == \E x \in X : \E l : Locals(l) /\ Becomes(p, x, l)
Forgets == ~(cut \subseteq cut' /\ overlap \subseteq overlap')

LEMMA Becoming ==
    ASSUME ProgramsInv, NEW p \in Programs, NEW x, NEW l, Locals(l), Becomes(p, x, l)
    PROVE  /\ step'[p] = x /\ (x # "none" => loc'[p] = l) /\ (x = "none" => loc'[p] = Nothing)
           /\ \A q \in Programs \ {p} : step'[q] = step[q] /\ loc'[q] = loc[q]
           /\ overlap \subseteq overlap'
           /\ ProgramsInv'
<1>1. /\ DOMAIN step' = Programs /\ DOMAIN loc' = Programs /\ step'[p] = x
      /\ loc'[p] = IF x = "none" THEN Nothing ELSE l
      /\ \A q \in Programs \ {p} : step'[q] = step[q] /\ loc'[q] = loc[q]
  BY DEF ProgramsInv, Becomes
<1>2. Locals(Nothing)
  BY DEF Nothing, Locals
<1>3. \A q \in Programs : Locals(loc[q])'
  BY <1>1, <1>2 DEF ProgramsInv, Locals
<1>4. overlap' = overlap \cup ({Kind(x)} \cap Kinds \cap Busy(p))
  BY DEF Becomes
<1>5. \A q \in Programs \ {p} : Kind(step[q]) \in Busy(p)
  BY DEF Busy
<1>6. \A a, b \in Programs : a # b /\ Kind(step'[a]) \in Kinds \ overlap' => Kind(step'[b]) # Kind(step'[a])
  <2> HIDE DEF Kind, Kinds
  <2> QED BY <1>1, <1>4, <1>5 DEF ProgramsInv
<1> QED BY <1>1, <1>3, <1>4, <1>6 DEF ProgramsInv

\* What p may hold when it goes on.
LEMMA Holding ==
    ASSUME NEW l, Locals(l)
    PROVE  /\ Locals(Nothing)
           /\ \A v : /\ Locals([l EXCEPT !.ids = v]) /\ Locals([l EXCEPT !.now = v])
                     /\ Locals([l EXCEPT !.db = v]) /\ Locals([l EXCEPT !.pick = v])
                     /\ Locals([l EXCEPT !.kept = v])
                     /\ Locals([Nothing EXCEPT !.upto = v])
           /\ \A v, w : Locals([l EXCEPT !.ids = v, !.db = w])
BY DEF Locals, Nothing

-----------------------------------------------------------------------------
(* Which steps a program may go to, and what it leaves alone.              *)

LEMMA StartsTable ==
    ASSUME ProgramsInv, NEW s \in Sessions, StartSession(s) \/ CloseStale(s) \/ InsertRun(s)
    PROVE  /\ GoesTo(s, {"stale", "insert", "none"})
           /\ UNCHANGED <<turnVars, ruleVars, lokiVars, gitVars, agentVars>> /\ ~Forgets
<1>1. Locals(loc[s]) /\ Locals(Nothing)
  BY Holding DEF ProgramsInv, Programs
<1>2. GoesTo(s, {"stale", "insert", "none"})
  BY <1>1 DEF StartSession, CloseStale, InsertRun, Go, GoesTo
<1>3. UNCHANGED <<turnVars, ruleVars, lokiVars, gitVars, agentVars>>
  BY DEF StartSession, CloseStale, InsertRun, Only
<1>4. cut \subseteq cut' /\ overlap \subseteq overlap'
  BY DEF StartSession, CloseStale, InsertRun, Go, Becomes, Fine, Refused, faultVars
<1> QED BY <1>2, <1>3, <1>4 DEF Forgets

LEMMA TurnTable ==
    ASSUME ProgramsInv, NEW s \in Sessions,
           \/ Prompt(s) \/ NoteFeedback(s) \/ StampTurn(s) \/ AppendTurn(s)
           \/ CheckDepth(s) \/ LaunchAgent(s) \/ Shutdown(s)
    PROVE  /\ StampTurn(s) \/ GoesTo(s, {"log", "note", "none", "launch", "tail"})
           /\ CheckDepth(s) \/ GoesTo(s, {"log", "append", "note", "none", "tail"})
           /\ GoesTo(s, {"log", "append", "note", "none", "launch", "tail"})
           /\ UNCHANGED <<lokiVars, gitVars, runs>> /\ ~Forgets
           /\ NoteFeedback(s) \/ UNCHANGED ruleVars
           /\ StampTurn(s) \/ AppendTurn(s) \/ UNCHANGED turnVars
           /\ LaunchAgent(s) \/ UNCHANGED agentVars
<1>1. /\ Locals(loc[s]) /\ Locals(Nothing) /\ Locals([Nothing EXCEPT !.upto = depth])
      /\ Locals([Nothing EXCEPT !.upto = turns + 1])
  BY Holding DEF ProgramsInv, Programs
<1>2. StampTurn(s) \/ CheckDepth(s) \/ GoesTo(s, {"log", "note", "none", "tail"})
  BY <1>1 DEF Prompt, NoteFeedback, AppendTurn, LaunchAgent, Shutdown, Go, GoesTo
<1>3. CheckDepth(s) => GoesTo(s, {"launch"})
  BY <1>1 DEF CheckDepth, GoesTo
<1>4. StampTurn(s) => GoesTo(s, {"append", "none"})
  BY <1>1 DEF StampTurn, GoesTo
<1>5. UNCHANGED <<lokiVars, gitVars, runs>>
  BY DEF Prompt, NoteFeedback, StampTurn, AppendTurn, CheckDepth, LaunchAgent, Shutdown, Only
<1>6. /\ NoteFeedback(s) \/ UNCHANGED ruleVars
      /\ StampTurn(s) \/ AppendTurn(s) \/ UNCHANGED turnVars
      /\ LaunchAgent(s) \/ UNCHANGED agentVars
  BY DEF Prompt, NoteFeedback, StampTurn, AppendTurn, CheckDepth, LaunchAgent, Shutdown, Only
<1>7. cut \subseteq cut' /\ overlap \subseteq overlap'
  BY DEF Prompt, NoteFeedback, StampTurn, AppendTurn, CheckDepth, LaunchAgent, Shutdown, Go, Becomes, Fine,
         Refused, faultVars
<1> QED BY <1>2, <1>3, <1>4, <1>5, <1>6, <1>7 DEF Forgets, GoesTo

Stops(s) == StopTurn(s) \/ LowerDepth(s) \/ StageExcerpt(s)

LEMMA StopTable ==
    ASSUME ProgramsInv, NEW s \in Sessions, Stops(s)
    PROVE  /\ GoesTo(s, {"stop", "signal", "none"})
           /\ StageExcerpt(s) => GoesTo(s, {"none"}) /\ UNCHANGED agentVars
           /\ UNCHANGED <<turnVars, ruleVars, gitVars, runs, seandb>> /\ ~Forgets
           /\ StageExcerpt(s) \/ UNCHANGED lokiVars
<1>1. Locals(loc[s]) /\ Locals([Nothing EXCEPT !.upto = depth])
  BY Holding DEF ProgramsInv, Programs
<1>2. GoesTo(s, {"stop", "signal", "none"}) /\ (StageExcerpt(s) => GoesTo(s, {"none"}))
  BY <1>1 DEF Stops, StopTurn, LowerDepth, StageExcerpt, Go, GoesTo
<1>3. UNCHANGED <<turnVars, ruleVars, gitVars, runs, seandb>>
  BY DEF Stops, StopTurn, LowerDepth, StageExcerpt, Only, lokiVars
<1>4. /\ StageExcerpt(s) => UNCHANGED agentVars
      /\ StageExcerpt(s) \/ UNCHANGED lokiVars
  BY DEF Stops, StopTurn, LowerDepth, StageExcerpt, Only
<1>5. cut \subseteq cut' /\ overlap \subseteq overlap'
  BY DEF Stops, StopTurn, LowerDepth, StageExcerpt, Go, Becomes, Fine, faultVars
<1> QED BY <1>2, <1>3, <1>4, <1>5 DEF Forgets

Composts(s) ==
    \/ ReadTail(s) \/ ReadClock(s) \/ IngestTurns(s) \/ MoveCursor(s)
    \/ ReadTurns(s) \/ TruncateTurns(s) \/ RewriteTurns(s)
Reviews(s) == ListExcerpts(s) \/ DecryptDb(s) \/ JudgeExcerpt(s) \/ EndReview(s) \/ SealDb(s)
Synthesizes(s) == ListCommits(s) \/ SynthAtom(s) \/ EndSynth(s)
Digests(s) == ListFeedback(s) \/ WritePrinciple(s) \/ MarkFeedback(s)

LEMMA CompostTable ==
    ASSUME ProgramsInv, NEW s \in Sessions, Composts(s)
    PROVE  /\ GoesTo(s, {"clock", "ingest", "cursor", "rotate", "truncate", "rewrite", "list"})
           /\ UNCHANGED <<ruleVars, lokiVars, gitVars, agentVars, runs>> /\ ~Forgets
<1>1. Locals(loc[s])
  BY DEF ProgramsInv, Programs
<1>2. \A v : /\ Locals([loc[s] EXCEPT !.ids = v]) /\ Locals([loc[s] EXCEPT !.now = v])
            /\ Locals([loc[s] EXCEPT !.kept = v])
  BY <1>1, Holding
<1>3. GoesTo(s, {"clock", "ingest", "cursor", "rotate", "truncate", "rewrite", "list"})
  BY <1>1, <1>2 DEF Composts, ReadTail, ReadClock, IngestTurns, MoveCursor, ReadTurns, TruncateTurns,
         RewriteTurns, Go, GoesTo
<1>4. UNCHANGED <<ruleVars, lokiVars, gitVars, agentVars, runs>>
  BY DEF Composts, ReadTail, ReadClock, IngestTurns, MoveCursor, ReadTurns, TruncateTurns,
         RewriteTurns, Only
<1>5. cut \subseteq cut' /\ overlap \subseteq overlap'
  BY DEF Composts, ReadTail, ReadClock, IngestTurns, MoveCursor, ReadTurns, TruncateTurns,
         RewriteTurns, Go, Becomes, Fine, Refused, faultVars
<1> QED BY <1>3, <1>4, <1>5 DEF Forgets

LEMMA ReviewTable ==
    ASSUME ProgramsInv, NEW s \in Sessions, Reviews(s)
    PROVE  /\ GoesTo(s, {"decrypt", "judge", "seal", "since"})
           /\ UNCHANGED <<turnVars, ruleVars, gitVars, agentVars, runs>> /\ ~Forgets
<1>1. Locals(loc[s])
  BY DEF ProgramsInv, Programs
<1>2. /\ \A v : Locals([loc[s] EXCEPT !.ids = v]) /\ Locals([loc[s] EXCEPT !.db = v])
      /\ \A v, w : Locals([loc[s] EXCEPT !.ids = v, !.db = w])
  BY <1>1, Holding
<1>3. ASSUME JudgeExcerpt(s) PROVE GoesTo(s, {"judge"})
  <2>1. PICK x \in loc[s].ids, v \in {"ratified", "rejected", "error"} :
          Becomes(s, "judge", [loc[s] EXCEPT !.ids = loc[s].ids \ {x},
                               !.db = IF v = "ratified" THEN loc[s].db \cup {x} ELSE loc[s].db])
    BY <1>3 DEF JudgeExcerpt
  <2> QED BY <1>2, <2>1 DEF GoesTo
<1>4. GoesTo(s, {"decrypt", "judge", "seal", "since"})
  <2>1. JudgeExcerpt(s) \/ GoesTo(s, {"decrypt", "judge", "seal", "since"})
    BY <1>1, <1>2 DEF Reviews, ListExcerpts, DecryptDb, EndReview, SealDb, Go, GoesTo
  <2> QED BY <1>3, <2>1 DEF GoesTo
<1>5. UNCHANGED <<turnVars, ruleVars, gitVars, agentVars, runs>>
  BY DEF Reviews, ListExcerpts, DecryptDb, JudgeExcerpt, EndReview, SealDb, Only
<1>6. cut \subseteq cut' /\ overlap \subseteq overlap'
  BY DEF Reviews, ListExcerpts, DecryptDb, JudgeExcerpt, EndReview, SealDb, Go, Becomes, Fine, Refused, faultVars
<1> QED BY <1>4, <1>5, <1>6 DEF Forgets

LEMMA SynthTable ==
    ASSUME ProgramsInv, NEW s \in Sessions, Synthesizes(s)
    PROVE  /\ GoesTo(s, {"synth", "check commit", "rules"})
           /\ UNCHANGED <<turnVars, ruleVars, lokiVars, agentVars, runs>> /\ ~Forgets
<1>1. Locals(loc[s])
  BY DEF ProgramsInv, Programs
<1>2. \A v : Locals([loc[s] EXCEPT !.ids = v])
  BY <1>1, Holding
<1>3. GoesTo(s, {"synth", "check commit", "rules"})
  BY <1>1, <1>2 DEF Synthesizes, ListCommits, SynthAtom, EndSynth, Go, GoesTo
<1>4. UNCHANGED <<turnVars, ruleVars, lokiVars, agentVars, runs>>
  BY DEF Synthesizes, ListCommits, SynthAtom, EndSynth, Only
<1>5. cut \subseteq cut' /\ overlap \subseteq overlap'
  BY DEF Synthesizes, ListCommits, SynthAtom, EndSynth, Go, Becomes, Fine, Refused, faultVars
<1> QED BY <1>3, <1>4, <1>5 DEF Forgets

LEMMA WriterTable ==
    ASSUME ProgramsInv, NEW p \in Programs, NEW w \in {"commit", "merge"}, CheckAtom(p, w) \/ WriteAtom(p, w)
    PROVE  /\ GoesTo(p, {"none", "check merge", "rules", "write commit", "write merge"})
           /\ UNCHANGED <<turnVars, ruleVars, lokiVars, agentVars, runs>> /\ ~Forgets
<1>1. Locals(loc[p]) /\ Passes(p, w) \in {"none", "check merge", "rules"} /\ Inserts(w) \in {"write commit", "write merge"}
  BY DEF ProgramsInv, Passes, Inserts
<1>2. \A v : Locals([loc[p] EXCEPT !.pick = v])
  BY <1>1, Holding
<1>3. GoesTo(p, {"none", "check merge", "rules", "write commit", "write merge"})
  BY <1>1, <1>2 DEF CheckAtom, WriteAtom, Go, GoesTo
<1>4. UNCHANGED <<turnVars, ruleVars, lokiVars, agentVars, runs>>
  BY DEF CheckAtom, WriteAtom, Only
<1>5. cut \subseteq cut' /\ overlap \subseteq overlap'
  BY DEF CheckAtom, WriteAtom, Go, Becomes, Fine, Refused, faultVars
<1> QED BY <1>3, <1>4, <1>5 DEF Forgets

LEMMA CommitTable ==
    ASSUME ProgramsInv, Commit
    PROVE  /\ GoesTo(Git, {"check commit"})
           /\ UNCHANGED <<turnVars, ruleVars, lokiVars, agentVars, runs, atoms>> /\ ~Forgets
<1>1. Locals(Nothing)
  BY DEF Locals, Nothing
<1>2. GoesTo(Git, {"check commit"})
  BY <1>1 DEF Commit, GoesTo
<1>3. UNCHANGED <<turnVars, ruleVars, lokiVars, agentVars, runs, atoms>>
  BY DEF Commit, Only
<1>4. cut \subseteq cut' /\ overlap \subseteq overlap'
  BY DEF Commit, Becomes, Fine, faultVars
<1> QED BY <1>2, <1>3, <1>4 DEF Forgets

LEMMA DigestTable ==
    ASSUME ProgramsInv, NEW s \in Sessions, Digests(s)
    PROVE  /\ GoesTo(s, {"none", "write", "mark"})
           /\ UNCHANGED <<turnVars, lokiVars, gitVars, agentVars, runs>> /\ ~Forgets
<1>1. Locals(loc[s])
  BY DEF ProgramsInv, Programs
<1>2. /\ \A v : Locals([loc[s] EXCEPT !.ids = v])
      /\ \A v, w : Locals([loc[s] EXCEPT !.ids = v, !.db = w])
  BY <1>1, Holding
<1>3. GoesTo(s, {"none", "write", "mark"})
  BY <1>1, <1>2 DEF Digests, ListFeedback, WritePrinciple, MarkFeedback, Go, GoesTo
<1>4. UNCHANGED <<turnVars, lokiVars, gitVars, agentVars, runs>>
  BY DEF Digests, ListFeedback, WritePrinciple, MarkFeedback, Only
<1>5. cut \subseteq cut' /\ overlap \subseteq overlap'
  BY DEF Digests, ListFeedback, WritePrinciple, MarkFeedback, Go, Becomes, Fine, Refused, faultVars
<1> QED BY <1>3, <1>4, <1>5 DEF Forgets

LEMMA EndTable ==
    ASSUME ProgramsInv, NEW p \in Programs, EndProgram(p)
    PROVE  /\ GoesTo(p, {"none"}) /\ step[p] # "none" /\ cut' = cut \cup {step[p]}
           /\ UNCHANGED <<turns, file, composted, appended, excerpts, seandb, ruleVars, gitVars, launched, ended, runs>> /\ ~Forgets
           /\ cursor' \in {cursor, 0} /\ unseen \subseteq unseen'
           /\ depth' = depth \/ (depth' = 0 /\ step[p] \in {"launch", "stop"})
<1>1. Locals(loc[p])
  BY DEF ProgramsInv
<1>2. GoesTo(p, {"none"}) /\ step[p] # "none"
  BY <1>1 DEF EndProgram, Go, GoesTo, Free, At
<1>3. /\ UNCHANGED <<turns, file, composted, appended, excerpts, seandb, ruleVars, gitVars, launched, ended, runs>>
      /\ cursor' \in {cursor, 0} /\ unseen \subseteq unseen'
      /\ depth' = depth \/ (depth' = 0 /\ step[p] \in {"launch", "stop"})
  BY DEF EndProgram, Only, At
<1>4. cut' = cut \cup {step[p]} /\ overlap \subseteq overlap'
  BY DEF EndProgram, Go, Becomes, Refused
<1> QED BY <1>2, <1>3, <1>4 DEF Forgets

\* Where a program is when it takes a step of each kind.
LEMMA Stands ==
    ASSUME NEW s \in Sessions
    PROVE  /\ HookStep(s) => step[s] \in {"none", "stale", "insert", "note", "log", "append", "launch", "stop", "signal"}
           /\ Composts(s) => step[s] \in {"tail", "clock", "ingest", "cursor", "rotate", "truncate", "rewrite"}
           /\ Reviews(s) => step[s] \in {"list", "decrypt", "judge", "seal"}
           /\ Synthesizes(s) => step[s] \in {"since", "synth"}
           /\ Digests(s) => step[s] \in {"rules", "write", "mark"}
           /\ Commit => step[Git] = "none"
           /\ \A p \in Programs : WriterStep(p) =>
                step[p] \in {"check commit", "check merge", "write commit", "write merge"}
<1>1. HookStep(s) => step[s] \in {"none", "stale", "insert", "note", "log", "append", "launch", "stop", "signal"}
  BY DEF HookStep, StartSession, CloseStale, InsertRun, Prompt, NoteFeedback, StampTurn, AppendTurn, CheckDepth,
         LaunchAgent, Shutdown, StopTurn, LowerDepth, StageExcerpt, At, Free
<1>2. Composts(s) => step[s] \in {"tail", "clock", "ingest", "cursor", "rotate", "truncate", "rewrite"}
  BY DEF Composts, ReadTail, ReadClock, IngestTurns, MoveCursor, ReadTurns, TruncateTurns, RewriteTurns, At
<1>3. Reviews(s) => step[s] \in {"list", "decrypt", "judge", "seal"}
  BY DEF Reviews, ListExcerpts, DecryptDb, JudgeExcerpt, EndReview, SealDb, At
<1>4. Synthesizes(s) => step[s] \in {"since", "synth"}
  BY DEF Synthesizes, ListCommits, SynthAtom, EndSynth, At
<1>5. Digests(s) => step[s] \in {"rules", "write", "mark"}
  BY DEF Digests, ListFeedback, WritePrinciple, MarkFeedback, At
<1>6. Commit => step[Git] = "none"
  BY DEF Commit, Free, At
<1>7. \A p \in Programs : WriterStep(p) =>
         step[p] \in {"check commit", "check merge", "write commit", "write merge"}
  BY DEF WriterStep, CheckAtom, WriteAtom, Checks, Inserts, At
<1> QED BY <1>1, <1>2, <1>3, <1>4, <1>5, <1>6, <1>7

LEMMA ProgramsStart == SessionInit => ProgramsInv
<1> SUFFICES ASSUME SessionInit PROVE ProgramsInv
  OBVIOUS
<1>1. Locals(Nothing) /\ Kind("none") \notin Kinds
  BY DEF Locals, Nothing, Kind, Kinds
<1>2. \A p \in Programs : step[p] = "none" /\ loc[p] = Nothing
  BY DEF SessionInit
<1> QED BY <1>1, <1>2 DEF SessionInit, ProgramsInv

LEMMA GoesKeeps == ASSUME ProgramsInv, NEW p \in Programs, NEW X, GoesTo(p, X) PROVE ProgramsInv'
<1>0. PICK x \in X : \E l : Locals(l) /\ Becomes(p, x, l)
  BY DEF GoesTo
<1>1. PICK l : Locals(l) /\ Becomes(p, x, l)
  BY <1>0
<1> QED BY <1>1, Becoming

LEMMA Staying ==
    ASSUME ProgramsInv, NEW p \in Programs, NEW X, GoesTo(p, X)
    PROVE  /\ \A q \in Programs : step'[q] \notin X => step[q] = step'[q] /\ loc'[q] = loc[q]
           /\ step'[p] \in X /\ \A q \in Programs \ {p} : step'[q] = step[q] /\ loc'[q] = loc[q]
<1>0. PICK x \in X : \E l : Locals(l) /\ Becomes(p, x, l)
  BY DEF GoesTo
<1>1. PICK l : Locals(l) /\ Becomes(p, x, l)
  BY <1>0
<1>2. step'[p] = x /\ \A q \in Programs \ {p} : step'[q] = step[q] /\ loc'[q] = loc[q]
  BY <1>1, Becoming
<1> QED BY <1>0, <1>2

LEMMA ProgramsKeep == ProgramsInv /\ [SessionNext]_sessionVars => ProgramsInv'
<1> SUFFICES ASSUME ProgramsInv, [SessionNext]_sessionVars PROVE ProgramsInv'
  OBVIOUS
<1>1. ASSUME NEW s \in Sessions, HookStep(s) PROVE ProgramsInv'
  BY <1>1, StartsTable, TurnTable, StopTable, GoesKeeps DEF HookStep, Stops, Programs
<1>2. ASSUME NEW s \in Sessions, ShutdownStep(s) PROVE ProgramsInv'
  BY <1>2, CompostTable, ReviewTable, SynthTable, DigestTable, GoesKeeps
     DEF ShutdownStep, Composts, Reviews, Synthesizes, Digests, Programs
<1>3. CASE Commit
  BY <1>3, CommitTable, GoesKeeps DEF Programs
<1>4. ASSUME NEW p \in Programs, WriterStep(p) \/ EndProgram(p) PROVE ProgramsInv'
  BY <1>4, WriterTable, EndTable, GoesKeeps DEF WriterStep
<1>5. CASE UNCHANGED sessionVars
  BY <1>5 DEF sessionVars, ProgramsInv
<1> QED BY <1>1, <1>2, <1>3, <1>4, <1>5 DEF SessionNext

-----------------------------------------------------------------------------
(* Sessions: the compost.                                                  *)

\* A compost has counted the turn, or could not see it.
Safe(i) == i \in composted \/ i \in unseen
InRotation(i) == \E q \in Sessions : step[q] = "rewrite" /\ i \in ToSet(loc[q].kept)
TurnTypes ==
    /\ turns \in Nat /\ cursor \in Nat /\ appended \subseteq Nat \ {0} /\ file \in Seq(Nat)
    /\ \A s \in Sessions : /\ step[s] = "append" => loc[s].upto \in Nat \ {0}
                           /\ step[s] \in {"ingest", "cursor"} => loc[s].now \in Nat
                           /\ step[s] \in {"truncate", "rewrite"} => loc[s].kept \in Seq(Nat)

\* A logged turn is in the file or in the hands of a rotation until it is safe; between
\* the reading of the file and the move of the cursor, the turns the cursor will pass
\* are held or safe.
TurnInv ==
    /\ TurnTypes
    /\ \A i \in appended : /\ i <= cursor => Safe(i)
                           /\ i \in ToSet(file) \/ InRotation(i) \/ Safe(i)
    /\ \A s \in Sessions, i \in appended :
         /\ step[s] = "clock" => i \in loc[s].ids \/ Safe(i)
         /\ step[s] = "ingest" /\ i <= loc[s].now => i \in loc[s].ids \/ Safe(i)
         /\ step[s] = "cursor" /\ i <= loc[s].now => Safe(i)

\* What a step that logs nothing must see to.
LEMMA TurnMove ==
    ASSUME ProgramsInv, TurnInv, NEW p \in Programs, NEW x, NEW l, Locals(l), Becomes(p, x, l),
           appended' = appended, composted \subseteq composted', unseen \subseteq unseen',
           turns' \in Nat, cursor' \in Nat, file' \in Seq(Nat),
           x = "append" => l.upto \in Nat \ {0},
           x \in {"ingest", "cursor"} => l.now \in Nat,
           x \in {"truncate", "rewrite"} => l.kept \in Seq(Nat),
           \A i \in appended : i <= cursor' => i \in composted' \/ i \in unseen',
           \A i \in ToSet(file) : \/ i \in ToSet(file') \/ i \in unseen'
                                  \/ p \in Sessions /\ x = "rewrite" /\ i \in ToSet(l.kept),
           step[p] = "rewrite" => \A i \in ToSet(loc[p].kept) : i \in ToSet(file') \/ i \in unseen',
           x = "clock" => \A i \in appended : i \in l.ids \/ i \in composted' \/ i \in unseen',
           x = "ingest" => \A i \in appended : i <= l.now => i \in l.ids \/ i \in composted' \/ i \in unseen',
           x = "cursor" => \A i \in appended : i <= l.now => i \in composted' \/ i \in unseen'
    PROVE  TurnInv'
<1>1. /\ step'[p] = x /\ (x # "none" => loc'[p] = l)
      /\ \A q \in Programs \ {p} : step'[q] = step[q] /\ loc'[q] = loc[q]
  BY Becoming
<1>2. \A i : Safe(i) => Safe(i)'
  BY DEF Safe
<1>3. TurnTypes'
  BY <1>1 DEF TurnInv, TurnTypes, Programs
<1>4. \A i \in appended' : i <= cursor' => Safe(i)'
  BY DEF Safe
<1>5. ASSUME NEW i \in appended' PROVE i \in ToSet(file') \/ InRotation(i)' \/ Safe(i)'
  <2>1. CASE i \in ToSet(file)
    BY <1>1, <2>1 DEF InRotation, Safe
  <2>2. CASE InRotation(i)
    <3>1. PICK q \in Sessions : step[q] = "rewrite" /\ i \in ToSet(loc[q].kept)
      BY <2>2 DEF InRotation
    <3> QED BY <1>1, <3>1 DEF InRotation, Safe, Programs
  <2> QED BY <1>2, <1>5, <2>1, <2>2 DEF TurnInv
<1>6. ASSUME NEW s \in Sessions, NEW i \in appended'
      PROVE  /\ step'[s] = "clock" => i \in loc'[s].ids \/ Safe(i)'
             /\ step'[s] = "ingest" /\ i <= loc'[s].now => i \in loc'[s].ids \/ Safe(i)'
             /\ step'[s] = "cursor" /\ i <= loc'[s].now => Safe(i)'
  <2>1. CASE s = p
    BY <1>1, <2>1 DEF Safe
  <2>2. CASE s # p
    BY <1>1, <1>2, <2>2 DEF TurnInv, Programs
  <2> QED BY <2>1, <2>2
<1> QED BY <1>3, <1>4, <1>5, <1>6 DEF TurnInv

LEMMA TurnFrame ==
    ASSUME ProgramsInv, TurnInv, NEW p \in Programs, NEW X, GoesTo(p, X),
           X \cap {"clock", "ingest", "cursor", "append", "truncate", "rewrite"} = {},
           UNCHANGED <<turns, file, composted, appended>>, unseen \subseteq unseen', cursor' \in {cursor, 0},
           step[p] = "rewrite" => \A i \in ToSet(loc[p].kept) : i \in ToSet(file) \/ i \in unseen'
    PROVE  TurnInv'
<1>0. PICK x \in X : \E l : Locals(l) /\ Becomes(p, x, l)
  BY DEF GoesTo
<1>1. PICK l : Locals(l) /\ Becomes(p, x, l)
  BY <1>0
<1>2. \A i \in appended : i <= cursor' => i \in composted' \/ i \in unseen'
  <2>1. \A i \in appended : i \in Nat \ {0}
    BY DEF TurnInv, TurnTypes
  <2> QED BY <2>1 DEF TurnInv, Safe
<1>3. turns' \in Nat /\ cursor' \in Nat /\ file' \in Seq(Nat)
  BY DEF TurnInv, TurnTypes
<1> QED BY <1>1, <1>2, <1>3, TurnMove

\* The last lines of a file are lines.
LEMMA NewestLines == ASSUME NEW f \in Seq(Nat), NEW n \in Nat PROVE Newest(f, n) \in Seq(Nat)
<1>1. CASE Len(f) <= n
  BY <1>1 DEF Newest
<1>2. CASE ~(Len(f) <= n)
  <2>1. Len(f) \in Nat /\ Len(f) - n + 1 \in 1 .. Len(f) + 1
    BY <1>2
  <2>2. SubSeq(f, Len(f) - n + 1, Len(f)) \in Seq(Nat)
    BY <2>1
  <2> QED BY <1>2, <2>2 DEF Newest
<1> QED BY <1>1, <1>2

LEMMA CompostTurns ==
    ASSUME ProgramsInv, TurnInv, NEW s \in Sessions, Composts(s)
    PROVE  TurnInv'
<1>1. s \in Programs /\ Locals(loc[s]) /\ KeepTurns \in Nat
  BY SessionAssumption DEF Programs, ProgramsInv
<1>2. turns \in Nat /\ cursor \in Nat /\ file \in Seq(Nat) /\ \A i \in appended : i <= cursor => i \in composted \/ i \in unseen
  BY DEF TurnInv, TurnTypes, Safe
<1>3. CASE ReadTail(s)
  <2>1. PICK tail : tail = ToSet(Newest(file, TailTurns))
    OBVIOUS
  <2>2. PICK news : news = {i \in tail : i > cursor}
    OBVIOUS
  <2>3. UNCHANGED <<turns, file, composted, appended, cursor>> /\ step[s] = "tail"
    BY <1>3 DEF ReadTail, At
  <2>4. \/ Go(s, "list") /\ UNCHANGED unseen
        \/ /\ Becomes(s, "clock", [loc[s] EXCEPT !.ids = news])
           /\ unseen' = unseen \cup {i \in (ToSet(file) \cup InHand) \ tail : i > cursor}
    BY <1>3, <2>1, <2>2 DEF ReadTail
  <2>5. CASE Go(s, "list") /\ UNCHANGED unseen
    <3>1. GoesTo(s, {"list"})
      BY <1>1, <2>5 DEF Go, GoesTo
    <3> QED BY <1>1, <2>3, <2>5, <3>1, TurnFrame
  <2>6. CASE /\ Becomes(s, "clock", [loc[s] EXCEPT !.ids = news])
             /\ unseen' = unseen \cup {i \in (ToSet(file) \cup InHand) \ tail : i > cursor}
    <3>1. PICK l : l = [loc[s] EXCEPT !.ids = news]
      OBVIOUS
    <3>2. Locals(l) /\ l.ids = news /\ Becomes(s, "clock", l)
      BY <1>1, <2>6, <3>1 DEF Locals
    <3>3. \A i \in appended : i \in ToSet(file) \/ i \in InHand \/ Safe(i)
      <4>1. \A i : InRotation(i) => i \in InHand
        BY DEF InRotation, InHand, At
      <4> QED BY <4>1 DEF TurnInv
    <3>4. \A i \in appended : i \in news \/ i \in composted' \/ i \in unseen'
      <4>1. \A i \in appended : i \in Nat /\ (i > cursor \/ i <= cursor)
        <5>1. \A i \in appended : i \in Nat
          BY DEF TurnInv, TurnTypes
        <5>2. cursor \in Nat
          BY DEF TurnInv, TurnTypes
        <5> QED BY <5>1, <5>2
      <4> QED BY <1>2, <2>2, <2>3, <2>6, <3>3, <4>1 DEF Safe
    <3> QED BY <1>1, <1>2, <2>3, <2>6, <3>2, <3>4, TurnMove
  <2> QED BY <2>4, <2>5, <2>6
<1>4. CASE ReadClock(s)
  <2>1. PICK l : l = [loc[s] EXCEPT !.now = turns]
    OBVIOUS
  <2>2. Locals(l) /\ l.now = turns /\ l.ids = loc[s].ids /\ Becomes(s, "ingest", l) /\ step[s] = "clock"
    BY <1>1, <1>4, <2>1 DEF Locals, ReadClock, At
  <2>3. UNCHANGED <<turns, file, composted, appended, unseen, cursor>>
    BY <1>4 DEF ReadClock, Only, turnVars
  <2>4. \A i \in appended : i \in l.ids \/ i \in composted \/ i \in unseen
    BY <2>2 DEF TurnInv, Safe
  <2> QED BY <1>1, <1>2, <2>2, <2>3, <2>4, TurnMove
<1>5. CASE IngestTurns(s)
  <2>1. UNCHANGED <<turns, file, cursor, appended, unseen>> /\ step[s] = "ingest"
    BY <1>5 DEF IngestTurns, At
  <2>2. CASE Go(s, "rotate") /\ UNCHANGED composted
    <3>1. GoesTo(s, {"rotate"})
      BY <1>1, <2>2 DEF Go, GoesTo
    <3> QED BY <1>1, <2>1, <2>2, <3>1, TurnFrame
  <2>3. CASE Go(s, "cursor") /\ composted' = composted \cup loc[s].ids
    <3>1. \A i \in appended : i <= loc[s].now => i \in composted' \/ i \in unseen
      BY <2>1, <2>3 DEF TurnInv, Safe
    <3>2. loc[s].now \in Nat
      BY <2>1 DEF TurnInv, TurnTypes
    <3>3. Becomes(s, "cursor", loc[s]) /\ composted \subseteq composted'
      BY <2>3 DEF Go
    <3>4. \A i \in appended : i <= cursor' => i \in composted' \/ i \in unseen'
      BY <1>2, <2>1, <3>3
    <3> QED BY <1>1, <1>2, <2>1, <3>1, <3>2, <3>3, <3>4, TurnMove
  <2> QED BY <1>5, <2>2, <2>3 DEF IngestTurns
<1>6. CASE MoveCursor(s)
  <2>1. UNCHANGED <<turns, file, composted, appended, unseen>> /\ step[s] = "cursor" /\ cursor' = loc[s].now /\ Go(s, "rotate")
    BY <1>6 DEF MoveCursor, At
  <2>2. loc[s].now \in Nat /\ \A i \in appended : i <= loc[s].now => i \in composted \/ i \in unseen
    BY <2>1 DEF TurnInv, TurnTypes, Safe
  <2> QED BY <1>1, <1>2, <2>1, <2>2, TurnMove DEF Go
<1>7. CASE ReadTurns(s)
  <2>1. UNCHANGED <<turns, file, composted, appended, unseen, cursor>> /\ step[s] = "rotate"
    BY <1>7 DEF ReadTurns, At, Only, turnVars
  <2>2. CASE Go(s, "list")
    <3>1. GoesTo(s, {"list"})
      BY <1>1, <2>2 DEF Go, GoesTo
    <3> QED BY <1>1, <2>1, <3>1, TurnFrame
  <2>3. CASE Becomes(s, "truncate", [loc[s] EXCEPT !.kept = Newest(file, KeepTurns)])
    <3>1. PICK l : l = [loc[s] EXCEPT !.kept = Newest(file, KeepTurns)]
      OBVIOUS
    <3>2. Locals(l) /\ l.kept = Newest(file, KeepTurns) /\ Becomes(s, "truncate", l)
      BY <1>1, <2>3, <3>1 DEF Locals
    <3>3. l.kept \in Seq(Nat)
      BY <1>1, <1>2, <3>2, NewestLines
    <3> QED BY <1>1, <1>2, <2>1, <3>2, <3>3, TurnMove
  <2> QED BY <1>7, <2>2, <2>3 DEF ReadTurns
<1>8. CASE TruncateTurns(s)
  <2>1. /\ UNCHANGED <<turns, cursor, composted, appended>> /\ step[s] = "truncate" /\ file' = <<>>
        /\ unseen' = unseen \cup (ToSet(file) \ ToSet(loc[s].kept)) /\ Becomes(s, "rewrite", loc[s])
    BY <1>8 DEF TruncateTurns, At, Go
  <2>2. loc[s].kept \in Seq(Nat) /\ file' \in Seq(Nat)
    BY <2>1 DEF TurnInv, TurnTypes
  <2>3. \A i \in appended : i <= cursor' => i \in composted' \/ i \in unseen'
    BY <1>2, <2>1
  <2>4. \A i \in ToSet(file) : i \in unseen' \/ i \in ToSet(loc[s].kept)
    BY <2>1
  <2> QED BY <1>1, <1>2, <2>1, <2>2, <2>3, <2>4, TurnMove
<1>9. CASE RewriteTurns(s)
  <2>1. /\ UNCHANGED <<turns, cursor, composted, appended>> /\ step[s] = "rewrite" /\ file' = loc[s].kept
        /\ unseen' = unseen \cup (ToSet(file) \ ToSet(loc[s].kept)) /\ Becomes(s, "list", loc[s])
    BY <1>9 DEF RewriteTurns, At, Go
  <2>2. file' \in Seq(Nat)
    BY <2>1 DEF TurnInv, TurnTypes
  <2>3. \A i \in appended : i <= cursor' => i \in composted' \/ i \in unseen'
    BY <1>2, <2>1
  <2>4. /\ \A i \in ToSet(file) : i \in unseen' \/ i \in ToSet(file')
        /\ \A i \in ToSet(loc[s].kept) : i \in ToSet(file')
    BY <2>1
  <2> QED BY <1>1, <1>2, <2>1, <2>2, <2>3, <2>4, TurnMove
<1> QED BY <1>3, <1>4, <1>5, <1>6, <1>7, <1>8, <1>9 DEF Composts

LEMMA StampKeeps == ASSUME ProgramsInv, TurnInv, NEW s \in Sessions, StampTurn(s) PROVE TurnInv'
<1>1. PICK l : l = [Nothing EXCEPT !.upto = turns + 1]
  OBVIOUS
<1>2. PICK x : x = IF "turns" \in world THEN "append" ELSE "none"
  OBVIOUS
<1>3. Locals(l) /\ l.upto = turns + 1 /\ Becomes(s, x, l) /\ x \in {"append", "none"} /\ s \in Programs
  BY <1>1, <1>2 DEF StampTurn, Locals, Nothing, Programs
<1>4. turns' = turns + 1 /\ UNCHANGED <<file, cursor, composted, appended, unseen>> /\ step[s] = "log"
  BY DEF StampTurn, At
<1>5. turns \in Nat /\ cursor \in Nat /\ file \in Seq(Nat) /\ \A i \in appended : i <= cursor => i \in composted \/ i \in unseen
  BY DEF TurnInv, TurnTypes, Safe
<1>6. l.upto \in Nat \ {0} /\ turns' \in Nat
  BY <1>3, <1>4, <1>5
<1> QED BY <1>3, <1>4, <1>5, <1>6, TurnMove

LEMMA AppendKeeps == ASSUME ProgramsInv, TurnInv, NEW s \in Sessions, AppendTurn(s) PROVE TurnInv'
<1>1. Locals(loc[s]) /\ s \in Programs
  BY DEF ProgramsInv, Programs
<1>2. PICK u : u = loc[s].upto
  OBVIOUS
<1>3. /\ step[s] = "append" /\ file' = Append(file, u) /\ appended' = appended \cup {u}
      /\ unseen' = (IF TooLate(u) THEN unseen \cup {u} ELSE unseen)
      /\ UNCHANGED <<turns, cursor, composted>> /\ Becomes(s, "none", loc[s])
  BY <1>2 DEF AppendTurn, At, Go
<1>4. u \in Nat \ {0} /\ turns \in Nat /\ cursor \in Nat /\ file \in Seq(Nat)
  BY <1>2, <1>3 DEF TurnInv, TurnTypes
<1>5. step'[s] = "none" /\ \A q \in Programs \ {s} : step'[q] = step[q] /\ loc'[q] = loc[q]
  BY <1>1, <1>3, Becoming
<1>6. \A q \in Sessions : step'[q] # "none" => q # s /\ step'[q] = step[q] /\ loc'[q] = loc[q]
  BY <1>5 DEF Programs
<1>7. file' \in Seq(Nat) /\ ToSet(file') = ToSet(file) \cup {u}
  <2>1. /\ file' \in Seq(Nat) /\ Len(file') = Len(file) + 1 /\ Len(file) \in Nat
        /\ \A j \in 1 .. Len(file) : file'[j] = file[j]
        /\ file'[Len(file) + 1] = u
    BY <1>3, <1>4, Appended
  <2>2. DOMAIN file' = DOMAIN file \cup {Len(file) + 1} /\ DOMAIN file = 1 .. Len(file)
    <3>1. DOMAIN file' = 1 .. Len(file) + 1 /\ DOMAIN file = 1 .. Len(file)
      BY <1>4, <2>1
    <3> QED BY <2>1, <3>1
  <2> QED BY <2>1, <2>2 DEF ToSet
<1>8. TurnTypes'
  <2>1. appended' \subseteq Nat \ {0} /\ turns' \in Nat /\ cursor' \in Nat
    BY <1>3, <1>4 DEF TurnInv, TurnTypes
  <2>2. \A q \in Sessions : /\ step'[q] = "append" => loc'[q].upto \in Nat \ {0}
                            /\ step'[q] \in {"ingest", "cursor"} => loc'[q].now \in Nat
                            /\ step'[q] \in {"truncate", "rewrite"} => loc'[q].kept \in Seq(Nat)
    BY <1>6 DEF TurnInv, TurnTypes
  <2> QED BY <1>7, <2>1, <2>2 DEF TurnTypes
<1>9. \A i : Safe(i) => Safe(i)'
  BY <1>3 DEF Safe
<1>10. ASSUME NEW i \in appended' PROVE /\ i <= cursor' => Safe(i)'
                                        /\ i \in ToSet(file') \/ InRotation(i)' \/ Safe(i)'
  <2>1. CASE i = u
    BY <1>3, <1>7, <2>1 DEF Safe, TooLate
  <2>2. CASE i \in appended
    <3>1. InRotation(i) => InRotation(i)'
      <4>1. \A q \in Sessions : step[q] = "rewrite" => step'[q] = "rewrite" /\ loc'[q] = loc[q]
        BY <1>3, <1>5 DEF Programs
      <4> QED BY <4>1 DEF InRotation
    <3> QED BY <1>3, <1>7, <1>9, <2>2, <3>1 DEF TurnInv
  <2> QED BY <1>3, <2>1, <2>2
<1>11. ASSUME NEW q \in Sessions, NEW i \in appended'
       PROVE  /\ step'[q] = "clock" => i \in loc'[q].ids \/ Safe(i)'
              /\ step'[q] = "ingest" /\ i <= loc'[q].now => i \in loc'[q].ids \/ Safe(i)'
              /\ step'[q] = "cursor" /\ i <= loc'[q].now => Safe(i)'
  <2>1. CASE i = u
    <3>1. /\ step[q] = "clock" => TooLate(u)
          /\ i <= loc[q].now /\ step[q] \in {"ingest", "cursor"} => TooLate(u)
      BY <2>1 DEF TooLate, At
    <3>2. TooLate(u) => Safe(i)'
      BY <1>3, <2>1 DEF Safe
    <3> QED BY <1>6, <3>1, <3>2
  <2>2. CASE i \in appended
    BY <1>6, <1>9, <2>2 DEF TurnInv
  <2> QED BY <1>3, <2>1, <2>2
<1> QED BY <1>8, <1>10, <1>11 DEF TurnInv

LEMMA TurnKeeps == ProgramsInv /\ TurnInv /\ [SessionNext]_sessionVars => TurnInv'
<1> SUFFICES ASSUME ProgramsInv, TurnInv, [SessionNext]_sessionVars PROVE TurnInv'
  OBVIOUS
<1> USE DEF turnVars
<1>1. ASSUME NEW s \in Sessions, HookStep(s) PROVE TurnInv'
  <2>1. s \in Programs /\ step[s] # "rewrite"
    BY <1>1, Stands DEF Programs
  <2>2. CASE StartSession(s) \/ CloseStale(s) \/ InsertRun(s)
    BY <2>1, <2>2, StartsTable, TurnFrame
  <2>3. CASE Prompt(s) \/ NoteFeedback(s) \/ CheckDepth(s) \/ LaunchAgent(s) \/ Shutdown(s)
    <3>1. UNCHANGED turnVars
      BY <2>3 DEF Prompt, NoteFeedback, CheckDepth, LaunchAgent, Shutdown, Only
    <3>2. ~StampTurn(s)
      BY <2>3 DEF Prompt, NoteFeedback, CheckDepth, LaunchAgent, Shutdown, StampTurn, Free, At
    <3>3. GoesTo(s, {"log", "note", "none", "launch", "tail"})
      BY <2>3, <3>2, TurnTable
    <3> QED BY <2>1, <3>1, <3>3, TurnFrame
  <2>4. CASE Stops(s)
    BY <2>1, <2>4, StopTable, TurnFrame
  <2> QED BY <1>1, <2>2, <2>3, <2>4, StampKeeps, AppendKeeps DEF HookStep, Stops
<1>2. ASSUME NEW s \in Sessions, ShutdownStep(s) PROVE TurnInv'
  <2>1. s \in Programs
    BY DEF Programs
  <2>2. Composts(s) \/ Reviews(s) \/ Synthesizes(s) \/ Digests(s)
    BY <1>2 DEF ShutdownStep, Composts, Reviews, Synthesizes, Digests
  <2>3. Reviews(s) \/ Synthesizes(s) \/ Digests(s) => step[s] # "rewrite"
    BY Stands
  <2> QED BY <2>1, <2>2, <2>3, CompostTurns, ReviewTable, SynthTable, DigestTable, TurnFrame
<1>3. CASE Commit
  <2>1. step[Git] # "rewrite" /\ Git \in Programs
    BY <1>3 DEF Commit, Free, At, Programs
  <2> QED BY <1>3, <2>1, CommitTable, TurnFrame
<1>4. ASSUME NEW p \in Programs, WriterStep(p) \/ EndProgram(p) PROVE TurnInv'
  <2>1. CASE WriterStep(p)
    <3>1. step[p] # "rewrite"
      BY <2>1 DEF WriterStep, CheckAtom, WriteAtom, Checks, Inserts, At
    <3> QED BY <2>1, <3>1, WriterTable, TurnFrame DEF WriterStep
  <2>2. CASE EndProgram(p)
    <3>1. step[p] = "rewrite" => \A i \in ToSet(loc[p].kept) : i \in ToSet(file) \/ i \in unseen'
      BY <2>2 DEF EndProgram, At
    <3> QED BY <2>2, <3>1, EndTable, TurnFrame
  <2> QED BY <1>4, <2>1, <2>2
<1>5. CASE UNCHANGED sessionVars
  <2>1. UNCHANGED <<step, loc, turnVars>>
    BY <1>5 DEF sessionVars
  <2>2. \A i : (Safe(i) <=> Safe(i)') /\ (InRotation(i) <=> InRotation(i)')
    BY <2>1 DEF Safe, InRotation
  <2>3. TurnTypes'
    BY <2>1 DEF TurnInv, TurnTypes
  <2> QED BY <2>1, <2>2, <2>3 DEF TurnInv
<1> QED BY <1>1, <1>2, <1>3, <1>4, <1>5 DEF SessionNext

(***************************************************************************)
(* For any sessions, wherever programs end: a logged turn that the cursor  *)
(* has passed is in a composite, or the compost could not see it.  It was  *)
(* appended too late, was further back than a compost looks, or was taken  *)
(* out of the file by a rotation (_log_turn of prompt_submit.py;           *)
(* run_compost and _rotate_turns of shutdown.py).                          *)
(***************************************************************************)
THEOREM SpecTurnsKept == SessionSpec => []TurnsKept
<1>1. SessionInit => TurnInv
  BY DEF SessionInit, TurnInv, TurnTypes, Programs
<1>2. TurnInv => TurnsKept
  BY DEF TurnInv, TurnsKept, Safe
<1> QED
  BY <1>1, <1>2, ProgramsStart, ProgramsKeep, TurnKeeps, PTL DEF SessionSpec

-----------------------------------------------------------------------------
(* Sessions: Loki's review.                                                *)

\* In a review alone, the copy in memory holds what is in the file, and what is
\* marked ratified is in one of them.
ReviewInv ==
    \/ cut \cap {"judge", "seal"} # {} \/ "reviews" \in overlap
    \/ /\ \A s \in Sessions : step[s] \in {"judge", "seal"} => seandb \subseteq loc[s].db
       /\ \A x \in Excerpts : excerpts[x] = "ratified" =>
            x \in seandb \/ \E s \in Sessions : x \in loc[s].db /\ step[s] \in {"judge", "seal"}
ReviewTypes == DOMAIN excerpts = Excerpts

\* A program that is not in a review stays out of it, or one is cut short.
LEMMA ReviewFrame ==
    ASSUME ProgramsInv, ReviewInv, NEW p \in Programs, NEW X, GoesTo(p, X),
           "judge" \notin X, "seal" \notin X,
           step[p] \in {"judge", "seal"} => step[p] \in cut',
           ~Forgets, UNCHANGED <<excerpts, seandb>>
    PROVE  ReviewInv'
<1>0. PICK x \in X : \E l : Locals(l) /\ Becomes(p, x, l)
  BY DEF GoesTo
<1>1. PICK l : Locals(l) /\ Becomes(p, x, l)
  BY <1>0
<1>2. step'[p] = x /\ \A q \in Programs \ {p} : step'[q] = step[q] /\ loc'[q] = loc[q]
  BY <1>1, Becoming
<1>3. CASE step[p] \in {"judge", "seal"}
  BY <1>3 DEF ReviewInv
<1>4. CASE step[p] \notin {"judge", "seal"}
  <2>1. \A s \in Sessions : step'[s] \in {"judge", "seal"} <=> step[s] \in {"judge", "seal"}
    BY <1>0, <1>2, <1>4 DEF Programs
  <2>2. \A s \in Sessions : step[s] \in {"judge", "seal"} => loc'[s] = loc[s]
    BY <1>2, <1>4 DEF Programs
  <2> QED BY <2>1, <2>2 DEF ReviewInv, Forgets
<1> QED BY <1>3, <1>4

\* Nobody else is at a step of a review.
LEMMA AloneInReview ==
    ASSUME ProgramsInv, NEW s \in Sessions, step[s] \in {"decrypt", "judge", "seal"}, "reviews" \notin overlap
    PROVE  \A q \in Programs \ {s} : step[q] \notin {"decrypt", "judge", "seal"}
BY DEF ProgramsInv, Kind, Kinds, Programs

LEMMA ReviewsKeep ==
    ASSUME ProgramsInv, ReviewTypes, ReviewInv, NEW s \in Sessions, Reviews(s)
    PROVE  ReviewInv'
<1>1. s \in Programs /\ Locals(loc[s])
  BY DEF Programs, ProgramsInv
<1>2. ~Forgets
  BY ReviewTable
<1>3. CASE ListExcerpts(s)
  <2>1. GoesTo(s, {"since", "decrypt"})
    BY <1>1, <1>3, Holding DEF ListExcerpts, Go, GoesTo
  <2>2. UNCHANGED <<excerpts, seandb>> /\ step[s] = "list"
    BY <1>3 DEF ListExcerpts, Only, lokiVars, At
  <2> QED BY <1>1, <1>2, <2>1, <2>2, ReviewFrame
<1>4. CASE DecryptDb(s)
  <2>1. UNCHANGED <<excerpts, seandb>> /\ step[s] = "decrypt"
    BY <1>4 DEF DecryptDb, Only, lokiVars, At
  <2>2. CASE Go(s, "since")
    <3>1. GoesTo(s, {"since"})
      BY <1>1, <2>2 DEF Go, GoesTo
    <3> QED BY <1>1, <1>2, <2>1, <3>1, ReviewFrame
  <2>3. CASE Becomes(s, "judge", [loc[s] EXCEPT !.db = seandb])
    <3>1. PICK l : l = [loc[s] EXCEPT !.db = seandb]
      OBVIOUS
    <3>2. Locals(l) /\ l.db = seandb
      BY <1>1, <3>1 DEF Locals
    <3>3. step'[s] = "judge" /\ loc'[s] = l /\ \A q \in Programs \ {s} : step'[q] = step[q] /\ loc'[q] = loc[q]
      BY <1>1, <2>3, <3>1, <3>2, Becoming
    <3> QED BY <1>2, <2>1, <3>2, <3>3 DEF ReviewInv, Programs, Forgets
  <2> QED BY <1>4, <2>2, <2>3 DEF DecryptDb
<1>5. CASE JudgeExcerpt(s)
  <2>1. PICK x \in loc[s].ids, v \in {"ratified", "rejected", "error"} :
          /\ Becomes(s, "judge", [loc[s] EXCEPT !.ids = loc[s].ids \ {x},
                                  !.db = IF v = "ratified" THEN loc[s].db \cup {x} ELSE loc[s].db])
          /\ \/ excerpts' = [excerpts EXCEPT ![x] = v]
             \/ Refused(s) /\ UNCHANGED excerpts
    BY <1>5 DEF JudgeExcerpt
  <2>2. step[s] = "judge" /\ UNCHANGED seandb
    BY <1>5 DEF JudgeExcerpt, At
  <2>3. PICK l : l = [loc[s] EXCEPT !.ids = loc[s].ids \ {x},
                      !.db = IF v = "ratified" THEN loc[s].db \cup {x} ELSE loc[s].db]
    OBVIOUS
  <2>4. Locals(l) /\ l.db = (IF v = "ratified" THEN loc[s].db \cup {x} ELSE loc[s].db)
    BY <1>1, <2>3 DEF Locals
  <2>5. step'[s] = "judge" /\ loc'[s] = l /\ \A q \in Programs \ {s} : step'[q] = step[q] /\ loc'[q] = loc[q]
    BY <1>1, <2>1, <2>3, <2>4, Becoming
  <2>6. CASE Refused(s)
    BY <2>2, <2>6 DEF Refused, ReviewInv
  <2>7. CASE excerpts' = [excerpts EXCEPT ![x] = v]
    <3>1. \A y \in Excerpts : excerpts'[y] = "ratified" => excerpts[y] = "ratified" \/ y \in l.db
      BY <2>4, <2>7 DEF ReviewTypes
    <3>2. loc[s].db \subseteq l.db
      BY <2>4
    <3> QED BY <1>2, <2>2, <2>5, <3>1, <3>2 DEF ReviewInv, Programs, Forgets
  <2> QED BY <2>1, <2>6, <2>7
<1>6. CASE EndReview(s)
  <2>1. step[s] = "judge" /\ UNCHANGED <<excerpts, seandb>>
    BY <1>6 DEF EndReview, At, Only, lokiVars
  <2>2. step'[s] = "seal" /\ loc'[s] = loc[s] /\ \A q \in Programs \ {s} : step'[q] = step[q] /\ loc'[q] = loc[q]
    BY <1>1, <1>6, Becoming DEF EndReview, Go
  <2> QED BY <1>2, <2>1, <2>2 DEF ReviewInv, Programs, Forgets
<1>7. CASE SealDb(s)
  <2>1. step[s] = "seal" /\ UNCHANGED excerpts /\ Go(s, "since")
    BY <1>7 DEF SealDb, At
  <2>2. step'[s] = "since" /\ \A q \in Programs \ {s} : step'[q] = step[q] /\ loc'[q] = loc[q]
    BY <1>1, <2>1, Becoming DEF Go
  <2>3. CASE Refused(s)
    BY <2>1, <2>3 DEF Refused, ReviewInv
  <2>4. CASE seandb' = loc[s].db
    <3> SUFFICES ASSUME ~(cut \cap {"judge", "seal"} # {} \/ "reviews" \in overlap) PROVE ReviewInv'
      BY <1>2 DEF ReviewInv, Forgets
    <3>1. \A q \in Sessions \ {s} : step[q] \notin {"judge", "seal"}
      BY <2>1, AloneInReview DEF Programs
    <3>2. \A q \in Sessions : step'[q] \notin {"judge", "seal"}
      BY <2>2, <3>1 DEF Programs
    <3>3. \A x \in Excerpts : excerpts[x] = "ratified" => x \in seandb'
      BY <2>1, <2>4, <3>1 DEF ReviewInv
    <3> QED BY <2>1, <3>2, <3>3 DEF ReviewInv
  <2> QED BY <1>7, <2>3, <2>4 DEF SealDb
<1> QED BY <1>3, <1>4, <1>5, <1>6, <1>7 DEF Reviews

LEMMA ReviewKeeps ==
    ProgramsInv /\ ReviewTypes /\ ReviewInv /\ [SessionNext]_sessionVars => (ReviewTypes /\ ReviewInv)'
<1> SUFFICES ASSUME ProgramsInv, ReviewTypes, ReviewInv, [SessionNext]_sessionVars
             PROVE  ReviewTypes' /\ ReviewInv'
  OBVIOUS
<1> USE DEF lokiVars
<1>1. ASSUME NEW s \in Sessions, HookStep(s) PROVE ReviewTypes' /\ ReviewInv'
  <2>1. step[s] \notin {"judge", "seal"} /\ s \in Programs
    BY <1>1, Stands DEF Programs
  <2>2. CASE StageExcerpt(s)
    <3>1. GoesTo(s, {"none"}) /\ ~Forgets /\ UNCHANGED seandb
      BY <2>2, StopTable DEF Stops
    <3>2. DOMAIN excerpts' = Excerpts /\ \A x \in Excerpts : excerpts'[x] = "ratified" => excerpts[x] = "ratified"
      BY <2>2 DEF StageExcerpt, ReviewTypes
    <3>3. step'[s] = "none" /\ \A q \in Programs \ {s} : step'[q] = step[q] /\ loc'[q] = loc[q]
      BY <2>1, <3>1, Staying
    <3>4. \A q \in Sessions : /\ step'[q] \in {"judge", "seal"} <=> step[q] \in {"judge", "seal"}
                              /\ step[q] \in {"judge", "seal"} => loc'[q] = loc[q]
      BY <2>1, <3>3 DEF Programs
    <3> QED BY <3>1, <3>2, <3>4 DEF ReviewInv, ReviewTypes, Forgets
  <2>3. CASE ~StageExcerpt(s)
    <3>1. UNCHANGED lokiVars
      BY <1>1, <2>3, StartsTable, TurnTable, StopTable DEF HookStep, Stops
    <3> QED BY <1>1, <2>1, <3>1, StartsTable, TurnTable, StopTable, ReviewFrame DEF HookStep, Stops, ReviewTypes
  <2> QED BY <2>2, <2>3
<1>2. ASSUME NEW s \in Sessions, ShutdownStep(s) PROVE ReviewTypes' /\ ReviewInv'
  <2>1. s \in Programs
    BY DEF Programs
  <2>2. Composts(s) \/ Reviews(s) \/ Synthesizes(s) \/ Digests(s)
    BY <1>2 DEF ShutdownStep, Composts, Reviews, Synthesizes, Digests
  <2>3. CASE Composts(s)
    BY <2>1, <2>3, CompostTable, Stands, ReviewFrame DEF ReviewTypes
  <2>4. CASE Synthesizes(s)
    BY <2>1, <2>4, SynthTable, Stands, ReviewFrame DEF ReviewTypes
  <2>5. CASE Digests(s)
    BY <2>1, <2>5, DigestTable, Stands, ReviewFrame DEF ReviewTypes
  <2>6. CASE Reviews(s)
    <3>1. DOMAIN excerpts' = DOMAIN excerpts
      BY <2>6 DEF Reviews, ListExcerpts, DecryptDb, JudgeExcerpt, EndReview, SealDb, Only
    <3> QED BY <2>6, <3>1, ReviewsKeep DEF ReviewTypes
  <2> QED BY <2>2, <2>3, <2>4, <2>5, <2>6
<1>3. CASE Commit
  <2>1. Git \in Programs
    BY DEF Programs
  <2>2. GoesTo(Git, {"check commit"}) /\ ~Forgets /\ UNCHANGED lokiVars
    BY <1>3, CommitTable
  <2>3. step[Git] = "none"
    BY <1>3 DEF Commit, Free, At
  <2> QED BY <2>1, <2>2, <2>3, ReviewFrame DEF ReviewTypes
<1>4. ASSUME NEW p \in Programs, WriterStep(p) \/ EndProgram(p) PROVE ReviewTypes' /\ ReviewInv'
  <2>1. CASE WriterStep(p)
    <3>1. step[p] \notin {"judge", "seal"}
      BY <2>1 DEF WriterStep, CheckAtom, WriteAtom, Checks, Inserts, At
    <3> QED BY <2>1, <3>1, WriterTable, ReviewFrame DEF WriterStep, ReviewTypes
  <2> QED BY <1>4, <2>1, EndTable, ReviewFrame DEF ReviewTypes
<1>5. CASE UNCHANGED sessionVars
  BY <1>5 DEF sessionVars, faultVars, ReviewInv, ReviewTypes
<1> QED BY <1>1, <1>2, <1>3, <1>4, <1>5 DEF SessionNext

(***************************************************************************)
(* For any sessions: an excerpt marked ratified is in the personal         *)
(* database, or in the copy that an open review will put back, unless a    *)
(* review was cut short or two were open together (run_loki_review of      *)
(* loki.py, open_sean_db of sean_db.py).                                   *)
(***************************************************************************)
THEOREM SpecRatified == SessionSpec => []RatifiedIsStored
<1>1. SessionInit => ReviewTypes /\ ReviewInv
  BY DEF SessionInit, ReviewTypes, ReviewInv, Programs
<1>2. ReviewInv => RatifiedIsStored
  BY DEF ReviewInv, RatifiedIsStored, At
<1> QED
  BY <1>1, <1>2, ProgramsStart, ProgramsKeep, ReviewKeeps, PTL DEF SessionSpec

-----------------------------------------------------------------------------
(* Sessions: corrections.                                                  *)

\* A record that is written up is marked, or about to be by the one pipeline; what
\* the pipeline holds is not written up yet.
RuleInv ==
    /\ DOMAIN feedback = Rules /\ principles \in [Rules -> Nat]
    /\ \A r \in Rules : feedback[r] = "processed" => principles[r] > 0 \/ "write" \in cut
    /\ \A s \in Sessions : step[s] = "mark" => \A r \in Rules \cap loc[s].db : principles[r] > 0 \/ "write" \in cut
    /\ \/ "mark" \in cut \/ "pipelines" \in overlap
       \/ /\ \A r \in Rules :
               /\ principles[r] <= 1
               /\ principles[r] > 0 => \/ feedback[r] = "processed"
                                       \/ \E s \in Sessions : step[s] = "mark" /\ r \in loc[s].db
          /\ \A s \in Sessions : step[s] \in {"write", "mark"} =>
               /\ loc[s].ids \subseteq Rules
               /\ \A r \in loc[s].ids : feedback[r] = "pending" /\ principles[r] = 0
               /\ step[s] = "mark" => loc[s].ids \cap loc[s].db = {}

LEMMA RuleFrame ==
    ASSUME ProgramsInv, RuleInv, NEW p \in Programs, NEW X, GoesTo(p, X),
           "write" \notin X, "mark" \notin X, step[p] = "mark" => "mark" \in cut',
           ~Forgets, UNCHANGED <<feedback, principles>>
    PROVE  RuleInv'
<1>0. PICK x \in X : \E l : Locals(l) /\ Becomes(p, x, l)
  BY DEF GoesTo
<1>1. PICK l : Locals(l) /\ Becomes(p, x, l)
  BY <1>0
<1>2. step'[p] = x /\ \A q \in Programs \ {p} : step'[q] = step[q] /\ loc'[q] = loc[q]
  BY <1>1, Becoming
<1>3. \A s \in Sessions : step'[s] \in {"write", "mark"} => step[s] = step'[s] /\ loc'[s] = loc[s]
  BY <1>0, <1>2 DEF Programs
<1>4. \A s \in Sessions : step'[s] = "mark" => step[s] = "mark" /\ loc'[s] = loc[s]
  BY <1>3
<1>5. \A s \in Sessions : step[s] = "mark" => s = p \/ (step'[s] = "mark" /\ loc'[s] = loc[s])
  BY <1>2 DEF Programs
<1>6. CASE step[p] = "mark"
  BY <1>4, <1>6 DEF RuleInv, Forgets
<1>7. CASE step[p] # "mark"
  BY <1>3, <1>4, <1>5, <1>7 DEF RuleInv, Forgets
<1> QED BY <1>6, <1>7

LEMMA AloneInPipeline ==
    ASSUME ProgramsInv, NEW s \in Sessions, step[s] \in {"rules", "write", "mark"}, "pipelines" \notin overlap
    PROVE  \A q \in Programs \ {s} : step[q] \notin {"rules", "write", "mark"}
BY DEF ProgramsInv, Kind, Kinds, Programs

LEMMA DigestsKeep ==
    ASSUME ProgramsInv, RuleInv, NEW s \in Sessions, Digests(s)
    PROVE  RuleInv'
<1>1. s \in Programs /\ Locals(loc[s])
  BY DEF Programs, ProgramsInv
<1>2. ~Forgets /\ step[s] \in {"rules", "write", "mark"}
  BY DigestTable, Stands
<1>3. CASE ListFeedback(s)
  <2>1. UNCHANGED <<feedback, principles>> /\ step[s] = "rules"
    BY <1>3 DEF ListFeedback, Only, ruleVars, At
  <2>2. CASE Go(s, "none")
    <3>1. GoesTo(s, {"none"})
      BY <1>1, <2>2 DEF Go, GoesTo
    <3> QED BY <1>1, <1>2, <2>1, <3>1, RuleFrame
  <2>3. CASE Becomes(s, "write", [loc[s] EXCEPT !.ids = {r \in Rules : feedback[r] = "pending"}])
    <3>1. PICK l : l = [loc[s] EXCEPT !.ids = {r \in Rules : feedback[r] = "pending"}]
      OBVIOUS
    <3>2. Locals(l) /\ l.ids = {r \in Rules : feedback[r] = "pending"}
      BY <1>1, <3>1 DEF Locals
    <3>3. step'[s] = "write" /\ loc'[s] = l /\ \A q \in Programs \ {s} : step'[q] = step[q] /\ loc'[q] = loc[q]
      BY <1>1, <2>3, <3>1, <3>2, Becoming
    <3>4. \A q \in Sessions : step'[q] = "mark" <=> step[q] = "mark"
      BY <2>1, <3>3 DEF Programs
    <3>5. \A q \in Sessions : step[q] = "mark" => loc'[q] = loc[q]
      BY <2>1, <3>3 DEF Programs
    <3>6. CASE "mark" \in cut \/ "pipelines" \in overlap
      BY <1>2, <2>1, <3>4, <3>5, <3>6 DEF RuleInv, Forgets
    <3>7. CASE ~("mark" \in cut \/ "pipelines" \in overlap)
      <4>1. \A q \in Sessions \ {s} : step[q] \notin {"write", "mark"}
        BY <1>2, <3>7, AloneInPipeline DEF Programs
      <4>2. \A q \in Sessions \ {s} : step'[q] \notin {"write", "mark"}
        BY <3>3, <4>1 DEF Programs
      <4>3. \A r \in Rules : feedback[r] = "pending" => principles[r] = 0
        BY <2>1, <3>7, <4>1 DEF RuleInv
      <4> QED BY <1>2, <2>1, <3>2, <3>3, <3>4, <3>5, <4>2, <4>3 DEF RuleInv, Forgets
    <3> QED BY <3>6, <3>7
  <2> QED BY <1>3, <2>2, <2>3 DEF ListFeedback
<1>4. CASE WritePrinciple(s)
  <2>1. PICK r \in loc[s].ids :
          /\ Becomes(s, "mark", [loc[s] EXCEPT !.ids = loc[s].ids \ {r}, !.db = {r}])
          /\ \/ principles' = [principles EXCEPT ![r] = principles[r] + 1] /\ Fine
             \/ Refused(s) /\ UNCHANGED principles
    BY <1>4 DEF WritePrinciple
  <2>2. step[s] = "write" /\ UNCHANGED feedback
    BY <1>4 DEF WritePrinciple, At
  <2>3. PICK l : l = [loc[s] EXCEPT !.ids = loc[s].ids \ {r}, !.db = {r}]
    OBVIOUS
  <2>4. Locals(l) /\ l.ids = loc[s].ids \ {r} /\ l.db = {r}
    BY <1>1, <2>3 DEF Locals
  <2>5. step'[s] = "mark" /\ loc'[s] = l /\ \A q \in Programs \ {s} : step'[q] = step[q] /\ loc'[q] = loc[q]
    BY <1>1, <2>1, <2>3, <2>4, Becoming
  <2>6. /\ principles' \in [Rules -> Nat] /\ \A q \in Rules : principles'[q] >= principles[q]
        /\ \A q \in Rules \ {r} : principles'[q] = principles[q]
        /\ r \in Rules => principles'[r] > 0 \/ "write" \in cut'
        /\ r \in Rules => principles'[r] <= principles[r] + 1
    BY <2>1, <2>2 DEF RuleInv, Refused
  <2>7. /\ \A q \in Rules : feedback'[q] = "processed" => principles'[q] > 0 \/ "write" \in cut'
        /\ \A t \in Sessions : step'[t] = "mark" => \A q \in Rules \cap loc'[t].db : principles'[q] > 0 \/ "write" \in cut'
    <3>1. \A q \in Rules : principles[q] \in Nat /\ principles'[q] \in Nat
      BY <2>6 DEF RuleInv
    <3>2. \A q \in Rules : feedback'[q] = "processed" => principles'[q] > 0 \/ "write" \in cut'
      BY <1>2, <2>2, <2>6, <3>1 DEF RuleInv, Forgets
    <3>3. ASSUME NEW t \in Sessions \ {s}, step'[t] = "mark", NEW q \in Rules \cap loc'[t].db
          PROVE  principles'[q] > 0 \/ "write" \in cut'
      BY <1>2, <2>5, <2>6, <3>1, <3>3 DEF RuleInv, Forgets, Programs
    <3> QED BY <2>4, <2>5, <2>6, <3>2, <3>3
  <2>8. CASE "mark" \in cut \/ "pipelines" \in overlap
    BY <1>2, <2>2, <2>6, <2>7, <2>8 DEF RuleInv, Forgets
  <2>9. CASE ~("mark" \in cut \/ "pipelines" \in overlap)
    <3>1. \A q \in Sessions \ {s} : step[q] \notin {"write", "mark"} /\ step'[q] \notin {"write", "mark"}
      BY <1>2, <2>5, <2>9, AloneInPipeline DEF Programs
    <3>2. r \in Rules /\ principles[r] = 0 /\ loc[s].ids \subseteq Rules
      BY <2>2, <2>9 DEF RuleInv
    <3>3. \A q \in Rules : principles'[q] <= 1
      BY <2>6, <2>9, <3>2 DEF RuleInv
    <3>4. \A q \in Rules : principles'[q] > 0 =>
            feedback'[q] = "processed" \/ \E t \in Sessions : step'[t] = "mark" /\ q \in loc'[t].db
      BY <2>2, <2>4, <2>5, <2>6, <2>9, <3>1, <3>2 DEF RuleInv
    <3>5. \A t \in Sessions : step'[t] \in {"write", "mark"} =>
            /\ loc'[t].ids \subseteq Rules /\ \A q \in loc'[t].ids : feedback'[q] = "pending" /\ principles'[q] = 0
            /\ step'[t] = "mark" => loc'[t].ids \cap loc'[t].db = {}
      BY <2>2, <2>4, <2>5, <2>6, <2>9, <3>1, <3>2 DEF RuleInv
    <3> QED BY <2>2, <2>6, <2>7, <3>3, <3>4, <3>5 DEF RuleInv
  <2> QED BY <2>8, <2>9
<1>5. CASE MarkFeedback(s)
  <2>1. PICK x : x = IF loc[s].ids = {} THEN "none" ELSE "write"
    OBVIOUS
  <2>2. /\ step[s] = "mark" /\ UNCHANGED principles /\ Go(s, x)
        /\ \/ feedback' = [r \in Rules |-> IF r \in loc[s].db THEN "processed" ELSE feedback[r]]
           \/ Refused(s) /\ UNCHANGED feedback
    BY <1>5, <2>1 DEF MarkFeedback, At
  <2>3. /\ step'[s] = x /\ (x = "write" => loc'[s] = loc[s]) /\ x \in {"none", "write"}
        /\ \A q \in Programs \ {s} : step'[q] = step[q] /\ loc'[q] = loc[q]
    BY <1>1, <2>1, <2>2, Becoming DEF Go
  <2>4. DOMAIN feedback' = Rules /\ \A r \in Rules : feedback'[r] \in {feedback[r], "processed"}
    BY <2>2 DEF RuleInv
  <2>5. \A r \in Rules : feedback'[r] = "processed" => principles'[r] > 0 \/ "write" \in cut'
    BY <1>2, <2>2 DEF RuleInv, Forgets
  <2>6. \A t \in Sessions : step'[t] = "mark" => \A q \in Rules \cap loc'[t].db : principles'[q] > 0 \/ "write" \in cut'
    BY <1>2, <2>2, <2>3 DEF RuleInv, Forgets, Programs
  <2>7. CASE Refused(s) \/ "mark" \in cut \/ "pipelines" \in overlap
    BY <1>2, <2>2, <2>4, <2>5, <2>6, <2>7 DEF RuleInv, Forgets, Refused
  <2>8. CASE ~(Refused(s) \/ "mark" \in cut \/ "pipelines" \in overlap)
    <3>1. \A q \in Sessions \ {s} : step[q] \notin {"write", "mark"} /\ step'[q] \notin {"write", "mark"}
      BY <1>2, <2>3, <2>8, AloneInPipeline DEF Programs
    <3>2. feedback' = [r \in Rules |-> IF r \in loc[s].db THEN "processed" ELSE feedback[r]]
      BY <2>2, <2>8
    <3>3. \A q \in Rules : principles'[q] <= 1 /\ (principles'[q] > 0 => feedback'[q] = "processed")
      BY <2>2, <2>8, <3>1, <3>2 DEF RuleInv
    <3>4. \A q \in loc[s].ids : q \in Rules /\ principles[q] = 0 /\ feedback[q] = "pending"
      BY <2>2, <2>8 DEF RuleInv
    <3>5. \A q \in loc[s].ids : feedback'[q] = "pending"
      <4>1. loc[s].ids \cap loc[s].db = {}
        BY <2>2, <2>8 DEF RuleInv
      <4> QED BY <3>2, <3>4, <4>1
    <3> QED BY <2>2, <2>3, <2>4, <2>5, <2>6, <3>1, <3>3, <3>4, <3>5 DEF RuleInv
  <2> QED BY <2>7, <2>8
<1> QED BY <1>3, <1>4, <1>5 DEF Digests

LEMMA NoteKeeps ==
    ASSUME ProgramsInv, RuleInv, NEW s \in Sessions, NoteFeedback(s)
    PROVE  RuleInv'
<1>1. s \in Programs /\ Locals(loc[s])
  BY DEF Programs, ProgramsInv
<1>2. ~Forgets /\ step[s] = "note" /\ Go(s, "log") /\ UNCHANGED principles
  BY TurnTable DEF NoteFeedback, At
<1>3. GoesTo(s, {"log"})
  BY <1>1, <1>2 DEF Go, GoesTo
<1>4. CASE UNCHANGED feedback
  BY <1>1, <1>2, <1>3, <1>4, RuleFrame
<1>5. ASSUME NEW r \in Rules, feedback[r] = "none", feedback' = [feedback EXCEPT ![r] = "pending"]
      PROVE  RuleInv'
  <2>1. step'[s] = "log" /\ \A q \in Programs \ {s} : step'[q] = step[q] /\ loc'[q] = loc[q]
    BY <1>1, <1>2, Becoming DEF Go
  <2>2. \A q \in Sessions : step'[q] \in {"write", "mark"} => step[q] = step'[q] /\ loc'[q] = loc[q]
    BY <2>1 DEF Programs
  <2>3. \A q \in Sessions : step[q] = "mark" => step'[q] = "mark" /\ loc'[q] = loc[q]
    BY <1>2, <2>1 DEF Programs
  <2>4. /\ DOMAIN feedback' = Rules /\ feedback'[r] = "pending"
        /\ \A q \in Rules \ {r} : feedback'[q] = feedback[q]
    BY <1>5 DEF RuleInv
  <2>5. \A q \in Rules : feedback'[q] = "processed" <=> feedback[q] = "processed"
    BY <1>5, <2>4
  <2>6. \A q \in Rules : feedback[q] = "pending" => feedback'[q] = "pending"
    BY <1>5, <2>4
  <2>7. \A q \in Sessions : step'[q] = "mark" => step[q] = "mark" /\ loc'[q] = loc[q]
    BY <2>2
  <2>8. CASE "mark" \in cut \/ "pipelines" \in overlap
    BY <1>2, <2>4, <2>5, <2>7, <2>8 DEF RuleInv, Forgets
  <2>9. CASE ~("mark" \in cut \/ "pipelines" \in overlap)
    <3>1. \A q \in Rules : principles[q] > 0 =>
            feedback'[q] = "processed" \/ \E t \in Sessions : step'[t] = "mark" /\ q \in loc'[t].db
      BY <2>3, <2>5, <2>9 DEF RuleInv
    <3>2. \A t \in Sessions : step'[t] \in {"write", "mark"} =>
            /\ loc'[t].ids \subseteq Rules /\ \A q \in loc'[t].ids : feedback'[q] = "pending" /\ principles[q] = 0
            /\ step'[t] = "mark" => loc'[t].ids \cap loc'[t].db = {}
      BY <2>2, <2>6, <2>9 DEF RuleInv
    <3> QED BY <1>2, <2>4, <2>5, <2>7, <2>9, <3>1, <3>2 DEF RuleInv, Forgets
  <2> QED BY <2>8, <2>9
<1> QED BY <1>4, <1>5 DEF NoteFeedback

LEMMA RuleKeeps == ProgramsInv /\ RuleInv /\ [SessionNext]_sessionVars => RuleInv'
<1> SUFFICES ASSUME ProgramsInv, RuleInv, [SessionNext]_sessionVars PROVE RuleInv'
  OBVIOUS
<1> USE DEF ruleVars
<1>1. ASSUME NEW s \in Sessions, HookStep(s) PROVE RuleInv'
  <2>1. CASE NoteFeedback(s)
    BY <2>1, NoteKeeps
  <2>2. CASE ~NoteFeedback(s)
    <3>1. step[s] # "mark" /\ s \in Programs
      BY <1>1, Stands DEF Programs
    <3> QED BY <1>1, <2>2, <3>1, StartsTable, TurnTable, StopTable, RuleFrame DEF HookStep, Stops
  <2> QED BY <2>1, <2>2
<1>2. ASSUME NEW s \in Sessions, ShutdownStep(s) PROVE RuleInv'
  <2>1. s \in Programs
    BY DEF Programs
  <2>2. Composts(s) \/ Reviews(s) \/ Synthesizes(s) \/ Digests(s)
    BY <1>2 DEF ShutdownStep, Composts, Reviews, Synthesizes, Digests
  <2>3. CASE Composts(s)
    BY <2>1, <2>3, CompostTable, Stands, RuleFrame
  <2>4. CASE Reviews(s)
    BY <2>1, <2>4, ReviewTable, Stands, RuleFrame
  <2>5. CASE Synthesizes(s)
    BY <2>1, <2>5, SynthTable, Stands, RuleFrame
  <2>6. CASE Digests(s)
    BY <2>6, DigestsKeep
  <2> QED BY <2>2, <2>3, <2>4, <2>5, <2>6
<1>3. CASE Commit
  <2>1. Git \in Programs
    BY DEF Programs
  <2>2. GoesTo(Git, {"check commit"}) /\ ~Forgets /\ UNCHANGED ruleVars
    BY <1>3, CommitTable
  <2>3. step[Git] = "none"
    BY <1>3 DEF Commit, Free, At
  <2> QED BY <2>1, <2>2, <2>3, RuleFrame
<1>4. ASSUME NEW p \in Programs, WriterStep(p) \/ EndProgram(p) PROVE RuleInv'
  <2>1. CASE WriterStep(p)
    <3>1. step[p] # "mark"
      BY <2>1 DEF WriterStep, CheckAtom, WriteAtom, Checks, Inserts, At
    <3> QED BY <2>1, <3>1, WriterTable, RuleFrame DEF WriterStep
  <2>2. CASE EndProgram(p)
    <3>1. step[p] = "mark" => "mark" \in cut'
      BY <2>2, EndTable
    <3> QED BY <2>2, <3>1, EndTable, RuleFrame
  <2> QED BY <1>4, <2>1, <2>2
<1>5. CASE UNCHANGED sessionVars
  BY <1>5 DEF sessionVars, faultVars, RuleInv
<1> QED BY <1>1, <1>2, <1>3, <1>4, <1>5 DEF SessionNext

(***************************************************************************)
(* For any sessions and records: a correction is written up a second time  *)
(* only if a mark was lost or two pipelines ran together, and it is marked *)
(* without being written up only if the write was refused                  *)
(* (run_feedback_pipeline of shutdown.py).                                 *)
(***************************************************************************)
THEOREM SpecFeedbackOnce == SessionSpec => []FeedbackOnce
<1>1. SessionInit => RuleInv
  BY DEF SessionInit, RuleInv, Programs
<1>2. RuleInv => FeedbackOnce
  BY DEF RuleInv, FeedbackOnce
<1> QED
  BY <1>1, <1>2, ProgramsStart, ProgramsKeep, RuleKeeps, PTL DEF SessionSpec

-----------------------------------------------------------------------------
(* Sessions: atoms of commits.                                             *)

AtomTypes == atoms \in [1 .. MaxCommits -> [Writers -> Nat]]

None(c, w) == c \in 1 .. MaxCommits /\ atoms[c][w] = 0

\* A program that is about to insert has seen that there is none.
AtomInv ==
    /\ commits \in 1 .. MaxCommits
    /\ AtomTypes
    /\ \/ "writers" \in overlap
       \/ /\ \A c \in 1 .. MaxCommits : atoms[c]["commit"] <= 1 /\ atoms[c]["merge"] <= 1
          /\ \A p \in Programs :
               /\ step[p] = "write commit" => None(loc[p].pick, "commit")
               /\ step[p] = "write merge"  => None(loc[p].pick, "merge")

\* One atom more.
OneMore(c, w) == [atoms EXCEPT ![c] = [atoms[c] EXCEPT ![w] = atoms[c][w] + 1]]

LEMMA AtomPlus ==
    ASSUME AtomTypes, NEW c, NEW w \in Writers
    PROVE  /\ OneMore(c, w) \in [1 .. MaxCommits -> [Writers -> Nat]]
           /\ \A d \in 1 .. MaxCommits, v \in Writers : (d # c \/ v # w) => OneMore(c, w)[d][v] = atoms[d][v]
           /\ c \in 1 .. MaxCommits => OneMore(c, w)[c][w] = atoms[c][w] + 1
<1>1. CASE c \notin 1 .. MaxCommits
  <2>1. OneMore(c, w) = atoms
    BY <1>1 DEF OneMore, AtomTypes
  <2> QED BY <1>1, <2>1 DEF AtomTypes
<1>2. CASE c \in 1 .. MaxCommits
  <2>1. atoms[c] \in [Writers -> Nat] /\ atoms[c][w] \in Nat
    BY <1>2 DEF AtomTypes
  <2>2. PICK f : f = [atoms[c] EXCEPT ![w] = atoms[c][w] + 1]
    OBVIOUS
  <2>3. f \in [Writers -> Nat] /\ f[w] = atoms[c][w] + 1 /\ \A v \in Writers \ {w} : f[v] = atoms[c][v]
    BY <2>1, <2>2
  <2>4. OneMore(c, w) = [atoms EXCEPT ![c] = f]
    BY <2>2 DEF OneMore
  <2>5. /\ OneMore(c, w) \in [1 .. MaxCommits -> [Writers -> Nat]] /\ OneMore(c, w)[c] = f
        /\ \A d \in (1 .. MaxCommits) \ {c} : OneMore(c, w)[d] = atoms[d]
    BY <1>2, <2>3, <2>4 DEF AtomTypes
  <2> QED BY <2>3, <2>5
<1> QED BY <1>1, <1>2

LEMMA CommitBounds == MaxCommits \in Nat /\ 1 \in 1 .. MaxCommits
BY SessionAssumption

LEMMA AtomFrame ==
    ASSUME ProgramsInv, AtomInv, NEW p \in Programs, NEW X, GoesTo(p, X),
           "write commit" \notin X, "write merge" \notin X, ~Forgets, atoms' = atoms, commits' \in 1 .. MaxCommits
    PROVE  AtomInv'
<1>1. \A q \in Programs : /\ step'[q] = "write commit" => step[q] = "write commit" /\ loc'[q] = loc[q]
                          /\ step'[q] = "write merge" => step[q] = "write merge" /\ loc'[q] = loc[q]
  <2>1. \A q \in Programs : step'[q] \notin X => step[q] = step'[q] /\ loc'[q] = loc[q]
    BY Staying
  <2> QED BY <2>1
<1>2. AtomTypes' <=> AtomTypes
  BY DEF AtomTypes
<1> QED BY <1>1, <1>2 DEF AtomInv, AtomTypes, None, Forgets

LEMMA AloneInWriting ==
    ASSUME ProgramsInv, NEW p \in Programs, "writers" \notin overlap,
           step[p] \in {"check commit", "check merge", "write commit", "write merge"}
    PROVE  \A q \in Programs \ {p} : step[q] \notin {"write commit", "write merge"}
BY DEF ProgramsInv, Kind, Kinds

LEMMA WriterKeeps ==
    ASSUME ProgramsInv, AtomInv, NEW p \in Programs, NEW w \in {"commit", "merge"},
           CheckAtom(p, w) \/ WriteAtom(p, w)
    PROVE  AtomInv'
<1>1. Locals(loc[p]) /\ w \in Writers /\ ~Forgets
  BY WriterTable DEF ProgramsInv, Writers
<1>2. Passes(p, w) \in {"none", "check merge", "rules"} /\ Inserts(w) \in {"write commit", "write merge"}
  BY DEF Passes, Inserts
<1>3. ASSUME Go(p, Passes(p, w)), UNCHANGED gitVars PROVE AtomInv'
  <2>1. GoesTo(p, {"none", "check merge", "rules"})
    BY <1>1, <1>2, <1>3 DEF Go, GoesTo
  <2> QED BY <1>1, <1>3, <2>1, AtomFrame DEF gitVars, AtomInv, AtomTypes
<1>4. CASE CheckAtom(p, w)
  <2>1. UNCHANGED gitVars /\ step[p] \in {"check commit", "check merge"}
    BY <1>4 DEF CheckAtom, Only, At, Checks
  <2>2. CASE atoms[commits][w] = 0 /\ Becomes(p, Inserts(w), [loc[p] EXCEPT !.pick = commits])
    <3>1. PICK l : l = [loc[p] EXCEPT !.pick = commits]
      OBVIOUS
    <3>2. Locals(l) /\ l.pick = commits
      BY <1>1, <3>1 DEF Locals
    <3>3. /\ step'[p] = Inserts(w) /\ loc'[p] = l
          /\ \A q \in Programs \ {p} : step'[q] = step[q] /\ loc'[q] = loc[q]
      <4>1. Inserts(w) # "none" /\ Becomes(p, Inserts(w), l)
        BY <1>2, <2>2, <3>1
      <4> QED BY <3>2, <4>1, Becoming
    <3>4. CASE "writers" \in overlap
      BY <1>1, <2>1, <3>4 DEF AtomInv, AtomTypes, gitVars, Forgets
    <3>5. CASE "writers" \notin overlap
      <4>1. \A q \in Programs \ {p} : step'[q] \notin {"write commit", "write merge"}
        BY <2>1, <3>3, <3>5, AloneInWriting
      <4>2. /\ step'[p] = "write commit" => None(loc'[p].pick, "commit")
            /\ step'[p] = "write merge"  => None(loc'[p].pick, "merge")
        BY <2>2, <3>2, <3>3 DEF Inserts, None, AtomInv
      <4>3. \A c, v : None(c, v)' <=> None(c, v)
        BY <2>1 DEF None, gitVars
      <4> QED BY <2>1, <3>5, <4>1, <4>2, <4>3 DEF AtomInv, AtomTypes, gitVars
    <3> QED BY <3>4, <3>5
  <2> QED BY <1>3, <1>4, <2>1, <2>2 DEF CheckAtom
<1>5. CASE WriteAtom(p, w)
  <2>1. step[p] = Inserts(w) /\ Go(p, Passes(p, w)) /\ UNCHANGED commits
    BY <1>5 DEF WriteAtom, At
  <2>2. CASE UNCHANGED atoms
    BY <1>3, <2>1, <2>2 DEF gitVars
  <2>3. CASE atoms' = [atoms EXCEPT ![loc[p].pick][w] = atoms[loc[p].pick][w] + 1]
    <3>1. PICK c : c = loc[p].pick
      OBVIOUS
    <3>2. atoms' = [atoms EXCEPT ![c] = [atoms[c] EXCEPT ![w] = atoms[c][w] + 1]]
      BY <2>3, <3>1
    <3>3. /\ atoms' \in [1 .. MaxCommits -> [Writers -> Nat]]
          /\ \A d \in 1 .. MaxCommits, v \in Writers : (d # c \/ v # w) => atoms'[d][v] = atoms[d][v]
          /\ c \in 1 .. MaxCommits => atoms'[c][w] = atoms[c][w] + 1
      <4>1. atoms' = OneMore(c, w)
        BY <3>2 DEF OneMore
      <4>2. AtomTypes
        BY DEF AtomInv
      <4> QED BY <1>1, <4>1, <4>2, AtomPlus
    <3>4. CASE "writers" \in overlap
      BY <1>1, <2>1, <3>3, <3>4 DEF AtomInv, AtomTypes, Forgets
    <3>5. CASE "writers" \notin overlap
      <4>1. step'[p] = Passes(p, w) /\ \A q \in Programs \ {p} : step'[q] = step[q] /\ loc'[q] = loc[q]
        BY <1>1, <2>1, Becoming DEF Go
      <4>2. \A q \in Programs : step'[q] \notin {"write commit", "write merge"}
        BY <1>2, <2>1, <3>5, <4>1, AloneInWriting
      <4>3. atoms[c][w] = 0
        BY <2>1, <3>1, <3>5 DEF AtomInv, None, Inserts
      <4>4. \A d \in 1 .. MaxCommits, v \in {"commit", "merge"} : atoms'[d][v] <= 1
        <5>1. \A d \in 1 .. MaxCommits, v \in {"commit", "merge"} : atoms[d][v] <= 1 /\ v \in Writers
          BY <3>5 DEF AtomInv, AtomTypes, Writers
        <5>2. atoms'[c][w] = 1 \/ c \notin 1 .. MaxCommits
          BY <3>3, <4>3
        <5> QED BY <3>3, <5>1, <5>2
      <4> QED BY <2>1, <3>3, <4>2, <4>4 DEF AtomInv, AtomTypes
    <3> QED BY <3>4, <3>5
  <2> QED BY <1>5, <2>2, <2>3 DEF WriteAtom
<1> QED BY <1>4, <1>5

LEMMA SynthKeeps ==
    ASSUME ProgramsInv, AtomInv, NEW s \in Sessions, Synthesizes(s)
    PROVE  AtomInv'
<1>1. s \in Programs /\ GoesTo(s, {"synth", "check commit", "rules"}) /\ ~Forgets
  BY SynthTable DEF Programs
<1>2. CASE UNCHANGED gitVars
  BY <1>1, <1>2, AtomFrame DEF gitVars, AtomInv, AtomTypes
<1>3. ASSUME NEW c, atoms' = [atoms EXCEPT ![c] = [atoms[c] EXCEPT !.synth = atoms[c].synth + 1]], UNCHANGED commits
      PROVE  AtomInv'
  <2>0. "synth" \in Writers /\ "commit" \in Writers /\ "merge" \in Writers
    BY DEF Writers
  <2>1. /\ atoms' \in [1 .. MaxCommits -> [Writers -> Nat]]
        /\ \A d \in 1 .. MaxCommits : /\ atoms'[d]["commit"] = atoms[d]["commit"]
                                      /\ atoms'[d]["merge"] = atoms[d]["merge"]
    <3>1. AtomTypes
      BY DEF AtomInv
    <3>2. atoms' = OneMore(c, "synth")
      BY <1>3 DEF OneMore
    <3>3. /\ OneMore(c, "synth") \in [1 .. MaxCommits -> [Writers -> Nat]]
          /\ \A d \in 1 .. MaxCommits, v \in Writers : v # "synth" => OneMore(c, "synth")[d][v] = atoms[d][v]
      BY <2>0, <3>1, AtomPlus
    <3> QED BY <2>0, <3>2, <3>3
  <2>2. \A q \in Programs : /\ step'[q] = "write commit" => step[q] = "write commit" /\ loc'[q] = loc[q]
                            /\ step'[q] = "write merge" => step[q] = "write merge" /\ loc'[q] = loc[q]
    <3>1. \A q \in Programs : step'[q] \notin {"synth", "check commit", "rules"} =>
            step[q] = step'[q] /\ loc'[q] = loc[q]
      BY <1>1, Staying
    <3> QED BY <3>1
  <2>3. CASE "writers" \in overlap
    BY <1>1, <1>3, <2>1, <2>3 DEF AtomInv, AtomTypes, Forgets
  <2>4. CASE "writers" \notin overlap
    <3>1. AtomTypes' /\ commits' \in 1 .. MaxCommits
      BY <1>3, <2>1 DEF AtomInv, AtomTypes
    <3>2. \A d \in 1 .. MaxCommits : atoms'[d]["commit"] <= 1 /\ atoms'[d]["merge"] <= 1
      BY <2>1, <2>4 DEF AtomInv
    <3>3. ASSUME NEW q \in Programs, step'[q] = "write commit" PROVE None(loc[q].pick, "commit")'
      <4>1. loc'[q] = loc[q] /\ None(loc[q].pick, "commit")
        BY <2>2, <2>4, <3>3 DEF AtomInv
      <4> QED BY <2>1, <4>1 DEF None
    <3>4. ASSUME NEW q \in Programs, step'[q] = "write merge" PROVE None(loc[q].pick, "merge")'
      <4>1. loc'[q] = loc[q] /\ None(loc[q].pick, "merge")
        BY <2>2, <2>4, <3>4 DEF AtomInv
      <4> QED BY <2>1, <4>1 DEF None
    <3> QED BY <3>1, <3>2, <3>3, <3>4 DEF AtomInv
  <2> QED BY <2>3, <2>4
<1> QED BY <1>2, <1>3 DEF Synthesizes, ListCommits, SynthAtom, EndSynth, Only, gitVars

LEMMA AtomKeeps == ProgramsInv /\ AtomInv /\ [SessionNext]_sessionVars => AtomInv'
<1> SUFFICES ASSUME ProgramsInv, AtomInv, [SessionNext]_sessionVars PROVE AtomInv'
  OBVIOUS
<1>0. commits \in 1 .. MaxCommits
  BY DEF AtomInv, AtomTypes
<1> USE DEF gitVars
<1>1. ASSUME NEW s \in Sessions, HookStep(s) PROVE AtomInv'
  BY <1>0, <1>1, StartsTable, TurnTable, StopTable, AtomFrame DEF HookStep, Stops, Programs
<1>2. ASSUME NEW s \in Sessions, ShutdownStep(s) PROVE AtomInv'
  <2>1. s \in Programs
    BY DEF Programs
  <2>2. Composts(s) \/ Reviews(s) \/ Synthesizes(s) \/ Digests(s)
    BY <1>2 DEF ShutdownStep, Composts, Reviews, Synthesizes, Digests
  <2>3. CASE Composts(s)
    BY <1>0, <2>1, <2>3, CompostTable, AtomFrame
  <2>4. CASE Reviews(s)
    BY <1>0, <2>1, <2>4, ReviewTable, AtomFrame
  <2>5. CASE Digests(s)
    BY <1>0, <2>1, <2>5, DigestTable, AtomFrame
  <2> QED BY <2>2, <2>3, <2>4, <2>5, SynthKeeps
<1>3. CASE Commit
  <2>1. GoesTo(Git, {"check commit"}) /\ ~Forgets /\ atoms' = atoms /\ Git \in Programs
    BY <1>3, CommitTable DEF Programs
  <2>2. commits' \in 1 .. MaxCommits
    <3>1. commits < MaxCommits /\ commits' = commits + 1
      BY <1>3 DEF Commit
    <3> QED BY <1>0, <3>1, CommitBounds
  <2> QED BY <2>1, <2>2, AtomFrame
<1>4. ASSUME NEW p \in Programs, WriterStep(p) \/ EndProgram(p) PROVE AtomInv'
  <2>1. CASE WriterStep(p)
    BY <2>1, WriterKeeps DEF WriterStep
  <2>2. CASE EndProgram(p)
    BY <1>0, <2>2, EndTable, AtomFrame
  <2> QED BY <1>4, <2>1, <2>2
<1>5. CASE UNCHANGED sessionVars
  BY <1>5 DEF sessionVars, AtomInv, AtomTypes, None
<1> QED BY <1>1, <1>2, <1>3, <1>4, <1>5 DEF SessionNext

(***************************************************************************)
(* For any number of sessions: git's hook and the pipelines of shutdowns   *)
(* write one atom of each kind for a commit, unless two of them look at    *)
(* once (write_atom_to_kb of kb_writer.py).                                *)
(***************************************************************************)
THEOREM SpecHookAtomOnce == SessionSpec => []HookAtomOnce
<1>1. SessionInit => AtomInv
  <2> SUFFICES ASSUME SessionInit PROVE AtomInv
    OBVIOUS
  <2>1. /\ commits = 1 /\ atoms = [c \in 1 .. MaxCommits |-> [w \in Writers |-> 0]]
        /\ \A p \in Programs : step[p] = "none"
    BY DEF SessionInit
  <2>2. \A c \in 1 .. MaxCommits, w \in Writers : atoms[c][w] = 0
    BY <2>1
  <2>3. AtomTypes
    BY <2>1 DEF AtomTypes
  <2>4. \A c \in 1 .. MaxCommits : atoms[c]["commit"] <= 1 /\ atoms[c]["merge"] <= 1
    BY <2>2 DEF Writers
  <2>5. commits \in 1 .. MaxCommits
    BY <2>1, CommitBounds
  <2> QED BY <2>1, <2>3, <2>4, <2>5 DEF AtomInv
<1>2. AtomInv => HookAtomOnce
  <2> SUFFICES ASSUME AtomInv, "writers" \notin overlap, NEW c \in 1 .. commits
               PROVE  atoms[c].commit <= 1 /\ atoms[c].merge <= 1
    BY DEF HookAtomOnce
  <2>1. c \in 1 .. MaxCommits
    <3>1. commits \in 1 .. MaxCommits
      BY DEF AtomInv
    <3> QED BY <3>1, CommitBounds
  <2> QED BY <2>1 DEF AtomInv, AtomTypes
<1> QED
  BY <1>1, <1>2, ProgramsStart, ProgramsKeep, AtomKeeps, PTL DEF SessionSpec

-----------------------------------------------------------------------------
(* Sessions: agents.                                                       *)

\* One launch, or one end of a turn, at a time counts from the depth it has read.
AgentInv ==
    /\ depth \in Nat /\ launched \in Nat /\ ended \in Nat /\ depth <= MaxDepth
    /\ \A s \in Sessions : /\ step[s] = "launch" => loc[s].upto \in Nat /\ loc[s].upto < MaxDepth
                           /\ step[s] = "stop" => loc[s].upto \in Nat /\ loc[s].upto <= MaxDepth
    /\ \/ "depths" \in overlap \/ cut \cap {"launch", "stop"} # {}
       \/ /\ launched <= ended + depth
          /\ \A s \in Sessions : /\ step[s] = "launch" => launched <= ended + loc[s].upto
                                 /\ step[s] = "stop" => launched + 1 <= ended + depth /\ loc[s].upto = depth

LEMMA AgentFrame ==
    ASSUME ProgramsInv, AgentInv, NEW p \in Programs, NEW X, GoesTo(p, X), "launch" \notin X, "stop" \notin X,
           ~Forgets, UNCHANGED agentVars
    PROVE  AgentInv'
<1>1. \A q \in Sessions : step'[q] \in {"launch", "stop"} => step[q] = step'[q] /\ loc'[q] = loc[q]
  <2>1. \A q \in Programs : step'[q] \notin X => step[q] = step'[q] /\ loc'[q] = loc[q]
    BY Staying
  <2> QED BY <2>1 DEF Programs
<1> QED BY <1>1 DEF AgentInv, agentVars, Forgets

\* Nobody else is about to write the depth.
LEMMA AloneAtDepth ==
    ASSUME ProgramsInv, NEW s \in Programs, step[s] \in {"launch", "stop"}, "depths" \notin overlap
    PROVE  \A q \in Programs \ {s} : step[q] \notin {"launch", "stop"}
BY DEF ProgramsInv, Kind, Kinds

LEMMA LaunchKeeps ==
    ASSUME ProgramsInv, AgentInv, NEW s \in Sessions, CheckDepth(s) \/ LaunchAgent(s)
    PROVE  AgentInv'
<1>1. s \in Programs /\ Locals(loc[s]) /\ ~Forgets /\ MaxDepth \in Nat
  BY TurnTable, SessionAssumption DEF ProgramsInv, Programs
<1>2. depth \in Nat /\ launched \in Nat /\ ended \in Nat
  BY DEF AgentInv
<1>3. CASE CheckDepth(s)
  <2>1. UNCHANGED <<depth, launched, ended>> /\ depth < MaxDepth /\ Becomes(s, "launch", [Nothing EXCEPT !.upto = depth])
    BY <1>3 DEF CheckDepth, Only, agentVars
  <2>2. PICK l : l = [Nothing EXCEPT !.upto = depth]
    OBVIOUS
  <2>3. Locals(l) /\ l.upto = depth
    BY <2>2 DEF Locals, Nothing
  <2>4. step'[s] = "launch" /\ loc'[s] = l /\ \A q \in Programs \ {s} : step'[q] = step[q] /\ loc'[q] = loc[q]
    BY <1>1, <2>1, <2>2, <2>3, Becoming
  <2>5. \A q \in Sessions : q = s \/ (step'[q] = step[q] /\ loc'[q] = loc[q])
    BY <2>4 DEF Programs
  <2> QED BY <1>1, <1>2, <2>1, <2>3, <2>4, <2>5 DEF AgentInv, Forgets
<1>4. CASE LaunchAgent(s)
  <2>1. /\ step[s] = "launch" /\ depth' = loc[s].upto + 1 /\ launched' = launched + 1 /\ ended' = ended
        /\ Becomes(s, "none", loc[s])
    BY <1>4 DEF LaunchAgent, At, Go
  <2>2. step'[s] = "none" /\ \A q \in Programs \ {s} : step'[q] = step[q] /\ loc'[q] = loc[q]
    BY <1>1, <2>1, Becoming
  <2>3. \A q \in Sessions : step'[q] \in {"launch", "stop"} => step[q] = step'[q] /\ loc'[q] = loc[q]
    BY <2>2 DEF Programs
  <2>4. loc[s].upto \in Nat /\ loc[s].upto < MaxDepth
    BY <2>1 DEF AgentInv
  <2>5. depth' \in Nat /\ launched' \in Nat /\ ended' \in Nat /\ depth' <= MaxDepth
    BY <1>1, <1>2, <2>1, <2>4
  <2>6. CASE "depths" \in overlap \/ cut \cap {"launch", "stop"} # {}
    BY <1>1, <2>3, <2>5, <2>6 DEF AgentInv, Forgets
  <2>7. CASE ~("depths" \in overlap \/ cut \cap {"launch", "stop"} # {})
    <3>1. \A q \in Sessions : step'[q] \notin {"launch", "stop"}
      BY <1>1, <2>1, <2>2, <2>7, AloneAtDepth DEF Programs
    <3>2. launched <= ended + loc[s].upto
      BY <2>1, <2>7 DEF AgentInv
    <3>3. launched' <= ended' + depth'
      BY <1>2, <2>1, <2>4, <3>2
    <3> QED BY <2>5, <3>1, <3>3 DEF AgentInv
  <2> QED BY <2>6, <2>7
<1> QED BY <1>3, <1>4

LEMMA StopsKeep ==
    ASSUME ProgramsInv, AgentInv, NEW s \in Sessions, Stops(s)
    PROVE  AgentInv'
<1>1. s \in Programs /\ Locals(loc[s]) /\ ~Forgets /\ MaxDepth \in Nat
  BY StopTable, SessionAssumption DEF ProgramsInv, Programs
<1>2. depth \in Nat /\ launched \in Nat /\ ended \in Nat /\ depth <= MaxDepth
  BY DEF AgentInv
<1>3. CASE StopTurn(s)
  <2>1. UNCHANGED <<depth, launched>> /\ ended' = ended + 1 /\ Becomes(s, "stop", [Nothing EXCEPT !.upto = depth])
    BY <1>3 DEF StopTurn
  <2>2. PICK l : l = [Nothing EXCEPT !.upto = depth]
    OBVIOUS
  <2>3. Locals(l) /\ l.upto = depth
    BY <2>2 DEF Locals, Nothing
  <2>4. step'[s] = "stop" /\ loc'[s] = l /\ \A q \in Programs \ {s} : step'[q] = step[q] /\ loc'[q] = loc[q]
    BY <1>1, <2>1, <2>2, <2>3, Becoming
  <2>5. \A q \in Sessions : q = s \/ (step'[q] = step[q] /\ loc'[q] = loc[q])
    BY <2>4 DEF Programs
  <2>6. /\ depth' \in Nat /\ launched' \in Nat /\ ended' \in Nat /\ depth' <= MaxDepth
        /\ \A q \in Sessions : /\ step'[q] = "launch" => loc'[q].upto \in Nat /\ loc'[q].upto < MaxDepth
                               /\ step'[q] = "stop" => loc'[q].upto \in Nat /\ loc'[q].upto <= MaxDepth
    BY <1>1, <1>2, <2>1, <2>3, <2>4, <2>5 DEF AgentInv
  <2>7. CASE "depths" \in overlap \/ cut \cap {"launch", "stop"} # {}
    BY <1>1, <2>6, <2>7 DEF AgentInv, Forgets
  <2>8. CASE ~("depths" \in overlap \/ cut \cap {"launch", "stop"} # {})
    <3>1. launched' <= ended' + depth' /\ launched' + 1 <= ended' + depth'
      BY <1>2, <2>1, <2>8 DEF AgentInv
    <3>2. ASSUME NEW q \in Sessions
          PROVE  /\ step'[q] = "launch" => launched' <= ended' + loc'[q].upto
                 /\ step'[q] = "stop" => launched' + 1 <= ended' + depth' /\ loc'[q].upto = depth'
      <4>1. CASE q = s
        BY <2>1, <2>3, <2>4, <3>1, <4>1
      <4>2. CASE q # s
        <5>1. step'[q] = step[q] /\ loc'[q] = loc[q]
          BY <2>5, <4>2
        <5>2. step[q] = "launch" => launched <= ended + loc[q].upto /\ loc[q].upto \in Nat
          BY <2>8 DEF AgentInv
        <5>3. step[q] = "stop" => launched + 1 <= ended + depth /\ loc[q].upto = depth
          BY <2>8 DEF AgentInv
        <5> QED BY <1>2, <2>1, <3>1, <5>1, <5>2, <5>3
      <4> QED BY <4>1, <4>2
    <3> QED BY <2>6, <3>1, <3>2 DEF AgentInv
  <2> QED BY <2>7, <2>8
<1>4. CASE LowerDepth(s)
  <2>1. /\ step[s] = "stop" /\ depth' = (IF loc[s].upto > 1 THEN loc[s].upto - 1 ELSE 0)
        /\ launched' = launched /\ ended' = ended
        /\ \E x \in {"signal", "none"} : Becomes(s, x, loc[s])
    BY <1>4 DEF LowerDepth, At, Go
  <2>2. PICK x \in {"signal", "none"} : Becomes(s, x, loc[s])
    BY <2>1
  <2>3. step'[s] = x /\ \A q \in Programs \ {s} : step'[q] = step[q] /\ loc'[q] = loc[q]
    BY <1>1, <2>2, Becoming
  <2>4. \A q \in Sessions : step'[q] \in {"launch", "stop"} => step[q] = step'[q] /\ loc'[q] = loc[q]
    BY <2>3 DEF Programs
  <2>5. loc[s].upto \in Nat /\ loc[s].upto <= MaxDepth
    BY <2>1 DEF AgentInv
  <2>6. depth' \in Nat /\ launched' \in Nat /\ ended' \in Nat /\ depth' <= MaxDepth
    BY <1>1, <1>2, <2>1, <2>5
  <2>7. CASE "depths" \in overlap \/ cut \cap {"launch", "stop"} # {}
    BY <1>1, <2>4, <2>6, <2>7 DEF AgentInv, Forgets
  <2>8. CASE ~("depths" \in overlap \/ cut \cap {"launch", "stop"} # {})
    <3>1. \A q \in Sessions : step'[q] \notin {"launch", "stop"}
      BY <1>1, <2>1, <2>3, <2>8, AloneAtDepth DEF Programs
    <3>2. launched + 1 <= ended + loc[s].upto
      BY <2>1, <2>8 DEF AgentInv
    <3>3. launched' <= ended' + depth'
      BY <1>2, <2>1, <2>5, <3>2
    <3> QED BY <2>6, <3>1, <3>3 DEF AgentInv
  <2> QED BY <2>7, <2>8
<1>5. CASE StageExcerpt(s)
  BY <1>1, <1>5, StopTable, AgentFrame
<1> QED BY <1>3, <1>4, <1>5 DEF Stops

LEMMA AgentKeeps == ProgramsInv /\ AgentInv /\ [SessionNext]_sessionVars => AgentInv'
<1> SUFFICES ASSUME ProgramsInv, AgentInv, [SessionNext]_sessionVars PROVE AgentInv'
  OBVIOUS
<1>1. ASSUME NEW s \in Sessions, HookStep(s) PROVE AgentInv'
  <2>1. CASE Stops(s)
    BY <2>1, StopsKeep
  <2>2. CASE CheckDepth(s) \/ LaunchAgent(s)
    BY <2>2, LaunchKeeps
  <2>3. CASE StartSession(s) \/ CloseStale(s) \/ InsertRun(s)
    BY <2>3, StartsTable, AgentFrame DEF Programs
  <2>4. CASE Prompt(s) \/ NoteFeedback(s) \/ StampTurn(s) \/ AppendTurn(s) \/ Shutdown(s)
    <3>1. UNCHANGED agentVars /\ s \in Programs
      BY <2>4 DEF Prompt, NoteFeedback, StampTurn, AppendTurn, Shutdown, Only, Programs
    <3>2. GoesTo(s, {"log", "append", "note", "none", "tail"})
      <4>1. /\ Locals(loc[s]) /\ Locals(Nothing) /\ Locals([Nothing EXCEPT !.upto = turns + 1])
        BY Holding DEF ProgramsInv, Programs
      <4> QED BY <2>4, <4>1 DEF Prompt, NoteFeedback, StampTurn, AppendTurn, Shutdown, Go, GoesTo
    <3> QED BY <2>4, <3>1, <3>2, TurnTable, AgentFrame
  <2> QED BY <1>1, <2>1, <2>2, <2>3, <2>4 DEF HookStep, Stops
<1>2. ASSUME NEW s \in Sessions, ShutdownStep(s) PROVE AgentInv'
  BY <1>2, CompostTable, ReviewTable, SynthTable, DigestTable, AgentFrame
     DEF ShutdownStep, Composts, Reviews, Synthesizes, Digests, Programs
<1>3. CASE Commit
  BY <1>3, CommitTable, AgentFrame DEF Programs
<1>4. ASSUME NEW p \in Programs, WriterStep(p) PROVE AgentInv'
  BY <1>4, WriterTable, AgentFrame DEF WriterStep
<1>5. ASSUME NEW p \in Programs, EndProgram(p) PROVE AgentInv'
  <2>1. /\ GoesTo(p, {"none"}) /\ ~Forgets /\ UNCHANGED <<launched, ended>> /\ cut' = cut \cup {step[p]}
        /\ depth' = depth \/ (depth' = 0 /\ step[p] \in {"launch", "stop"})
    BY <1>5, EndTable
  <2>2. CASE depth' = depth
    BY <2>1, <2>2, AgentFrame DEF agentVars
  <2>3. CASE depth' = 0 /\ step[p] \in {"launch", "stop"}
    <3>1. \A q \in Programs : step'[q] \in {"launch", "stop"} => step[q] = step'[q] /\ loc'[q] = loc[q]
      <4>1. \A q \in Programs : step'[q] # "none" => step[q] = step'[q] /\ loc'[q] = loc[q]
        BY <2>1, Staying
      <4> QED BY <4>1
    <3>2. depth' \in Nat /\ depth' <= MaxDepth
      BY <2>3, SessionAssumption
    <3> QED BY <2>1, <2>3, <3>1, <3>2 DEF AgentInv, Programs
  <2> QED BY <2>1, <2>2, <2>3
<1>6. CASE UNCHANGED sessionVars
  BY <1>6 DEF sessionVars, faultVars, agentVars, AgentInv
<1> QED BY <1>1, <1>2, <1>3, <1>4, <1>5, <1>6 DEF SessionNext

(***************************************************************************)
(* For any depth allowed and any number of sessions: no more than MaxDepth *)
(* agents are launched beyond the turns that have ended, unless a launch   *)
(* overlaps another launch or the end of a turn, or one of them is cut     *)
(* short (main of pre_tool.py and of stop.py).                             *)
(***************************************************************************)
THEOREM SpecAgentsBounded == SessionSpec => []AgentsBounded
<1>1. SessionInit => AgentInv
  BY SessionAssumption DEF SessionInit, AgentInv, Programs
<1>2. AgentInv => AgentsBounded
  BY SessionAssumption DEF AgentInv, AgentsBounded
<1> QED
  BY <1>1, <1>2, ProgramsStart, ProgramsKeep, AgentKeeps, PTL DEF SessionSpec

-----------------------------------------------------------------------------
(* Sessions: runs.                                                         *)

\* A start that has closed what was stale finds nothing running.
RunInv ==
    /\ runs \in Seq({"running", "abandoned"})
    /\ \/ "starts" \in overlap \/ cut \cap {"stale", "insert"} # {}
       \/ /\ \A i \in 1 .. Len(runs) : runs[i] = "running" => i = Len(runs)
          /\ \A s \in Sessions : step[s] = "insert" => \A i \in 1 .. Len(runs) : runs[i] # "running"

RunFree == "starts" \notin overlap /\ cut \cap {"stale", "insert"} = {}

LEMMA RunFrame ==
    ASSUME ProgramsInv, RunInv, NEW p \in Programs, NEW X, GoesTo(p, X), "insert" \notin X,
           ~Forgets, UNCHANGED runs
    PROVE  RunInv'
<1>1. \A q \in Sessions : step'[q] = "insert" => step[q] = "insert"
  <2>1. \A q \in Programs : step'[q] \notin X => step[q] = step'[q]
    BY Staying
  <2> QED BY <2>1 DEF Programs
<1> QED BY <1>1 DEF RunInv, Forgets

LEMMA StartsKeep ==
    ASSUME ProgramsInv, RunInv, NEW s \in Sessions, CloseStale(s) \/ InsertRun(s)
    PROVE  RunInv'
<1>1. s \in Programs /\ Locals(loc[s]) /\ ~Forgets /\ step[s] \in {"stale", "insert"}
  BY StartsTable DEF ProgramsInv, Programs, CloseStale, InsertRun, At
<1>2. runs \in Seq({"running", "abandoned"})
  BY DEF RunInv
<1>3. ASSUME Refused(s), UNCHANGED runs PROVE RunInv'
  BY <1>1, <1>2, <1>3 DEF Refused, RunInv
<1>4. ASSUME ~RunFree, runs' \in Seq({"running", "abandoned"}) PROVE RunInv'
  BY <1>1, <1>4 DEF RunFree, RunInv, Forgets
<1>5. RunFree => /\ \A q \in Programs \ {s} : step[q] # "insert"
                 /\ step[s] = "insert" => \A i \in 1 .. Len(runs) : runs[i] # "running"
  BY <1>1 DEF RunFree, RunInv, ProgramsInv, Kind, Kinds
<1>6. ASSUME CloseStale(s), Go(s, "insert"),
             runs' = [i \in DOMAIN runs |-> IF runs[i] = "running" THEN "abandoned" ELSE runs[i]]
      PROVE  RunInv'
  <2>1. DOMAIN runs = 1 .. Len(runs) /\ Len(runs) \in Nat /\ \A i \in 1 .. Len(runs) : runs[i] \in {"running", "abandoned"}
    BY <1>2
  <2>2. runs' \in [1 .. Len(runs) -> {"running", "abandoned"}] /\ \A i \in 1 .. Len(runs) : runs'[i] # "running"
    BY <1>6, <2>1
  <2>3. runs' \in Seq({"running", "abandoned"}) /\ Len(runs') = Len(runs)
    BY <2>1, <2>2
  <2> QED BY <2>2, <2>3 DEF RunInv
<1>7. ASSUME InsertRun(s), runs' = Append(runs, "running") PROVE RunInv'
  <2>1. /\ runs' \in Seq({"running", "abandoned"}) /\ Len(runs') = Len(runs) + 1 /\ Len(runs) \in Nat
        /\ \A i \in 1 .. Len(runs) : runs'[i] = runs[i]
    BY <1>2, <1>7
  <2>2. CASE ~RunFree
    BY <1>4, <2>1, <2>2
  <2>3. CASE RunFree
    <3>1. step[s] = "insert" /\ Becomes(s, "none", loc[s])
      BY <1>7 DEF InsertRun, At, Go
    <3>2. step'[s] = "none" /\ \A q \in Programs \ {s} : step'[q] = step[q]
      BY <1>1, <3>1, Becoming
    <3>3. \A q \in Sessions : step'[q] # "insert"
      BY <1>5, <2>3, <3>2 DEF Programs
    <3>4. \A i \in 1 .. Len(runs') : runs'[i] = "running" => i = Len(runs')
      BY <1>5, <2>1, <2>3, <3>1
    <3> QED BY <2>1, <3>3, <3>4 DEF RunInv
  <2> QED BY <2>2, <2>3
<1> QED BY <1>3, <1>6, <1>7 DEF CloseStale, InsertRun

LEMMA RunKeeps == ProgramsInv /\ RunInv /\ [SessionNext]_sessionVars => RunInv'
<1> SUFFICES ASSUME ProgramsInv, RunInv, [SessionNext]_sessionVars PROVE RunInv'
  OBVIOUS
<1>1. ASSUME NEW s \in Sessions, HookStep(s) PROVE RunInv'
  <2>1. CASE Stops(s)
    BY <2>1, StopTable, RunFrame DEF Programs
  <2>2. CASE CloseStale(s) \/ InsertRun(s)
    BY <2>2, StartsKeep
  <2>3. CASE StartSession(s)
    <3>1. Locals(Nothing) /\ s \in Programs
      BY Holding DEF ProgramsInv, Programs
    <3>2. GoesTo(s, {"stale"}) /\ UNCHANGED runs
      BY <2>3, <3>1 DEF StartSession, GoesTo, Only
    <3> QED BY <2>3, <3>1, <3>2, StartsTable, RunFrame
  <2>4. CASE \/ Prompt(s) \/ NoteFeedback(s) \/ StampTurn(s) \/ AppendTurn(s)
             \/ CheckDepth(s) \/ LaunchAgent(s) \/ Shutdown(s)
    BY <2>4, TurnTable, RunFrame DEF Programs
  <2> QED BY <1>1, <2>1, <2>2, <2>3, <2>4 DEF HookStep, Stops
<1>2. ASSUME NEW s \in Sessions, ShutdownStep(s) PROVE RunInv'
  BY <1>2, CompostTable, ReviewTable, SynthTable, DigestTable, RunFrame
     DEF ShutdownStep, Composts, Reviews, Synthesizes, Digests, Programs
<1>3. CASE Commit
  BY <1>3, CommitTable, RunFrame DEF Programs
<1>4. ASSUME NEW p \in Programs, WriterStep(p) \/ EndProgram(p) PROVE RunInv'
  BY <1>4, WriterTable, EndTable, RunFrame DEF WriterStep
<1>5. CASE UNCHANGED sessionVars
  BY <1>5 DEF sessionVars, faultVars, RunInv
<1> QED BY <1>1, <1>2, <1>3, <1>4, <1>5 DEF SessionNext

(***************************************************************************)
(* For any number of sessions: of one agent's runs the newest alone is     *)
(* running, unless two sessions start at once or a start fails (_open_run  *)
(* of session_start.py).                                                   *)
(***************************************************************************)
THEOREM SpecOneRun == SessionSpec => []OneRun
<1>1. SessionInit => RunInv
  <2> SUFFICES ASSUME SessionInit PROVE RunInv
    OBVIOUS
  <2>1. runs = <<>> /\ \A s \in Sessions : step[s] = "none"
    BY DEF SessionInit, Programs
  <2> QED BY <2>1 DEF RunInv
<1>2. RunInv => OneRun
  BY DEF RunInv, OneRun
<1> QED
  BY <1>1, <1>2, ProgramsStart, ProgramsKeep, RunKeeps, PTL DEF SessionSpec

-----------------------------------------------------------------------------
(* Forks.                                                                  *)

\* The second half of a merge or a delete runs on a fork its first half has
\* closed: what makes FateFollowsFork inductive.
Committed ==
    \A c \in Clients :
        /\ Doing(c, "promote") => status[call[c].fork] = "merged"
        /\ Doing(c, "archive") => status[call[c].fork] = "deleted"

\* The history variable agrees with the column.
Sourced == \A a \in Atoms : tag[a] # NoFork => source[a] = tag[a]

FateInv == TypeOK /\ Committed /\ Sourced /\ FateFollowsFork

USE DEF AllForks, Statuses, forkTable, knowledge, record

-----------------------------------------------------------------------------
\* What the guards of the second steps say about the pending call.
LEMMA PendingCall ==
    ASSUME TypeOK, NEW c \in Clients, call[c] # Idle
    PROVE  /\ call[c] \in Calls
           /\ call[c].fork \in AllForks
           /\ call[c].op \in {"snapshot", "promote", "archive"} => call[c].fork \in ForkIds
           /\ call[c].op = "join" => /\ call[c].who \in Components
                                     /\ call[c].seen \subseteq Components
           /\ call[c].op = "log"  => /\ call[c].who \in Components
                                     /\ call[c].seen \in Seq(Components)
BY DEF TypeOK, Calls

LEMMA TypeStep == TypeOK /\ [Next]_vars => TypeOK'
<1> SUFFICES ASSUME TypeOK, [Next]_vars PROVE TypeOK'
  OBVIOUS
<1>1. ASSUME NEW c \in Clients, NEW f \in ForkIds, NEW who \in Components, Create(c, f, who)
      PROVE  TypeOK'
  BY <1>1 DEF TypeOK, Create, Begin, Calls, knowledge
<1>2. ASSUME NEW c \in Clients, NEW f \in AllForks, NEW who \in Components, JoinSelect(c, f, who)
      PROVE  TypeOK'
  BY <1>2 DEF TypeOK, JoinSelect, Begin, Calls, knowledge, forkTable
<1>3. ASSUME NEW c \in Clients, NEW f \in AllForks, NEW who \in Components, LogSelect(c, f, who)
      PROVE  TypeOK'
  BY <1>3 DEF TypeOK, LogSelect, Begin, Calls, knowledge, forkTable
<1>4. ASSUME NEW c \in Clients, NEW f \in ForkIds, MergeFork(c, f)
      PROVE  TypeOK'
  BY <1>4 DEF TypeOK, MergeFork, Begin, Calls, knowledge
<1>5. ASSUME NEW c \in Clients, NEW f \in ForkIds, DeleteFork(c, f)
      PROVE  TypeOK'
  BY <1>5 DEF TypeOK, DeleteFork, Begin, Calls, knowledge
<1>6. ASSUME NEW c \in Clients, Snapshot(c)
      PROVE  TypeOK'
  <2>1. call[c].fork \in ForkIds
    BY <1>6, PendingCall DEF Snapshot, Doing
  <2> QED
    BY <1>6, <2>1 DEF TypeOK, Snapshot, Return, knowledge, forkTable
<1>7. ASSUME NEW c \in Clients, JoinUpdate(c)
      PROVE  TypeOK'
  <2>1. /\ call[c].who \in Components
        /\ call[c].seen \subseteq Components
    BY <1>7, PendingCall DEF JoinUpdate, Doing
  <2>2. Joined(call[c].seen, call[c].who) \in SUBSET Components
    BY <2>1 DEF Joined
  <2> QED
    BY <1>7, <2>2 DEF TypeOK, JoinUpdate, Return, knowledge
<1>8. ASSUME NEW c \in Clients, LogUpdate(c)
      PROVE  TypeOK'
  <2>1. /\ call[c].fork \in AllForks
        /\ call[c].who \in Components
        /\ call[c].seen \in Seq(Components)
    BY <1>8, PendingCall DEF LogUpdate, Doing
  <2>2. WithEntry(call[c].seen, call[c].who) \in Seq(Components)
    BY <2>1 DEF WithEntry
  <2>3. Append(logged[call[c].fork], call[c].who) \in Seq(Components)
    BY <2>1 DEF TypeOK
  <2> QED
    BY <1>8, <2>2, <2>3 DEF TypeOK, LogUpdate, Return, knowledge
<1>9. ASSUME NEW c \in Clients, Promote(c)
      PROVE  TypeOK'
  BY <1>9 DEF TypeOK, Promote, Return, forkTable
<1>10. ASSUME NEW c \in Clients, Archive(c)
       PROVE  TypeOK'
  BY <1>10 DEF TypeOK, Archive, Return, forkTable
<1>11. ASSUME NEW c \in Clients, Die(c)
       PROVE  TypeOK'
  <2>1. call[c].op \in {"promote", "archive"} => call[c].fork \in ForkIds
    BY <1>11, PendingCall DEF Die
  <2> QED
    BY <1>11, <2>1 DEF TypeOK, Die, Return
<1>12. ASSUME NEW a \in Atoms, NEW f \in ForkIds, Tag(a, f)
       PROVE  TypeOK'
  BY <1>12 DEF TypeOK, Tag, forkTable
<1>13. ASSUME NEW who \in Components, Migrate(who)
       PROVE  TypeOK'
  <2>1. <<who>> \in Seq(Components)
    OBVIOUS
  <2> QED
    BY <1>13, <2>1 DEF TypeOK, Migrate
<1>14. ASSUME UNCHANGED vars
       PROVE  TypeOK'
  BY <1>14 DEF TypeOK, vars
<1> QED
  BY <1>1, <1>2, <1>3, <1>4, <1>5, <1>6, <1>7, <1>8, <1>9, <1>10, <1>11, <1>12, <1>13, <1>14
     DEF Next, ClientStep

LEMMA TypeInit == Init => TypeOK
<1>1. <<>> \in Seq(Components)
  OBVIOUS
<1> QED
  BY <1>1 DEF Init, TypeOK

\* Every state variable stays in its type, for any clients, forks, components
\* and atoms.
THEOREM ForksTypeOK == Spec => []TypeOK
BY TypeInit, TypeStep, PTL DEF Spec
-----------------------------------------------------------------------------
\* A closed fork keeps its status: every write of status is guarded by
\* "absent" or by "open".
LEMMA ClosedStep ==
    TypeOK /\ [Next]_vars => \A f \in AllForks : status[f] \in Closed => status'[f] = status[f]
<1> SUFFICES ASSUME TypeOK, [Next]_vars, NEW f \in AllForks, status[f] \in Closed
             PROVE  status'[f] = status[f]
  OBVIOUS
<1>1. ASSUME NEW c \in Clients, ClientStep(c)
      PROVE  status'[f] = status[f]
  BY <1>1 DEF TypeOK, Closed, ClientStep, Create, Snapshot, JoinSelect, JoinUpdate, LogSelect,
              LogUpdate, MergeFork, Promote, DeleteFork, Archive, Die, Exists, Closable,
              forkTable
<1>2. ASSUME NEW a \in Atoms, NEW g \in ForkIds, Tag(a, g)
      PROVE  status'[f] = status[f]
  BY <1>2 DEF Tag, forkTable
<1>3. ASSUME NEW who \in Components, Migrate(who)
      PROVE  status'[f] = status[f]
  BY <1>3 DEF TypeOK, Closed, Migrate, Exists
<1> QED
  BY <1>1, <1>2, <1>3 DEF Next, vars

\* No call reopens a closed fork or turns a merge into a deletion
\* (the WHERE status='open' of fork_merge and fork_delete).
THEOREM ForksClosedStays == Spec => ClosedStays
<1>1. TypeOK /\ [Next]_vars => [\A f \in AllForks : status[f] \in Closed => status'[f] = status[f]]_vars
  BY ClosedStep
<1> QED
  BY <1>1, TypeInit, TypeStep, PTL DEF Spec, ClosedStays

-----------------------------------------------------------------------------
LEMMA CommittedStep ==
    TypeOK /\ Committed /\ [Next]_vars => Committed'
<1> SUFFICES ASSUME TypeOK, Committed, [Next]_vars, NEW d \in Clients
             PROVE  /\ Doing(d, "promote")' => (status[call[d].fork] = "merged")'
                    /\ Doing(d, "archive")' => (status[call[d].fork] = "deleted")'
  BY DEF Committed
<1>1. CASE call'[d] = call[d]
  <2>1. Doing(d, "promote")' => Doing(d, "promote")
    BY <1>1 DEF Doing
  <2>2. Doing(d, "archive")' => Doing(d, "archive")
    BY <1>1 DEF Doing
  <2>3. call[d] # Idle => call[d].fork \in AllForks
    BY PendingCall
  <2> QED
    BY <1>1, <2>1, <2>2, <2>3, ClosedStep DEF Committed, Doing, Closed
<1>2. CASE call'[d] # call[d]
  <2>2. ASSUME NEW f \in ForkIds, MergeFork(d, f)
        PROVE  /\ call'[d] = [op |-> "promote", fork |-> f]
               /\ status'[f] = "merged"
    BY <2>2 DEF MergeFork, Begin, TypeOK
  <2>3. ASSUME NEW f \in ForkIds, DeleteFork(d, f)
        PROVE  /\ call'[d] = [op |-> "archive", fork |-> f]
               /\ status'[f] = "deleted"
    BY <2>3 DEF DeleteFork, Begin, TypeOK
  <2>4. ASSUME NEW f \in AllForks, NEW who \in Components, JoinSelect(d, f, who) \/ LogSelect(d, f, who)
        PROVE  call'[d].op \in {"join", "log"}
    BY <2>4 DEF JoinSelect, LogSelect, Begin, TypeOK
  <2>5. ASSUME NEW f \in ForkIds, NEW who \in Components, Create(d, f, who)
        PROVE  call'[d].op = "snapshot"
    BY <2>5 DEF Create, Begin, TypeOK
  <2>6. ASSUME Snapshot(d) \/ JoinUpdate(d) \/ LogUpdate(d) \/ Promote(d) \/ Archive(d) \/ Die(d)
        PROVE  call'[d] = Idle
    BY <2>6 DEF Snapshot, JoinUpdate, LogUpdate, Promote, Archive, Die, Return, TypeOK
  <2>7. ClientStep(d)
    <3>1. ASSUME NEW c \in Clients, ClientStep(c), c # d
          PROVE  call'[d] = call[d]
      BY <3>1 DEF TypeOK, ClientStep, Create, Snapshot, JoinSelect, JoinUpdate, LogSelect,
              LogUpdate, MergeFork, Promote, DeleteFork, Archive, Die, Begin, Return
    <3> QED
      BY <1>2, <3>1 DEF Next, Tag, Migrate, vars
  <2>8. CASE \E f \in ForkIds : MergeFork(d, f)
    <3>1. PICK f \in ForkIds : call'[d] = [op |-> "promote", fork |-> f] /\ status'[f] = "merged"
      BY <2>2, <2>8
    <3>2. call'[d].op = "promote" /\ call'[d].fork = f
      BY <3>1
    <3> QED
      BY <3>1, <3>2 DEF Doing
  <2>9. CASE \E f \in ForkIds : DeleteFork(d, f)
    <3>1. PICK f \in ForkIds : call'[d] = [op |-> "archive", fork |-> f] /\ status'[f] = "deleted"
      BY <2>3, <2>9
    <3>2. call'[d].op = "archive" /\ call'[d].fork = f
      BY <3>1
    <3> QED
      BY <3>1, <3>2 DEF Doing
  <2>10. ASSUME ~ \E f \in ForkIds : MergeFork(d, f),
                ~ \E f \in ForkIds : DeleteFork(d, f)
         PROVE  ~ Doing(d, "promote")' /\ ~ Doing(d, "archive")'
    <3>1. call'[d] = Idle \/ call'[d].op \in {"snapshot", "join", "log"}
      BY <2>4, <2>5, <2>6, <2>7, <2>10 DEF ClientStep
    <3> QED
      BY <3>1 DEF Doing
  <2> QED
    BY <2>8, <2>9, <2>10
<1> QED
  BY <1>1, <1>2

LEMMA SourcedStep == TypeOK /\ Sourced /\ [Next]_vars => Sourced'
<1> SUFFICES ASSUME TypeOK, Sourced, [Next]_vars, NEW a \in Atoms, tag'[a] # NoFork
             PROVE  source'[a] = tag'[a]
  BY DEF Sourced
<1>1. CASE UNCHANGED <<tag, source>>
  BY <1>1 DEF Sourced
<1>2. ASSUME NEW c \in Clients, Promote(c)
      PROVE  source'[a] = tag'[a]
  BY <1>2 DEF Promote, Sourced
<1>3. ASSUME NEW b \in Atoms, NEW f \in ForkIds, Tag(b, f)
      PROVE  source'[a] = tag'[a]
  BY <1>3 DEF Tag, Sourced, TypeOK
<1>4. ASSUME NEW who \in Components, Migrate(who)
      PROVE  source'[a] = tag'[a]
  BY <1>4 DEF Migrate, Sourced
<1> QED
  BY <1>1, <1>2, <1>3, <1>4 DEF Next, ClientStep, Create, Snapshot, JoinSelect, JoinUpdate,
     LogSelect, LogUpdate, MergeFork, DeleteFork, Archive, Die, vars, knowledge

LEMMA FateStep == FateInv /\ [Next]_vars => FateFollowsFork'
<1> SUFFICES ASSUME TypeOK, Committed, Sourced, FateFollowsFork, [Next]_vars, NEW a \in Atoms
             PROVE  /\ a \notin valid' => tag'[a] # NoFork /\ status'[tag'[a]] = "deleted"
                    /\ tag'[a] = NoFork /\ source'[a] # NoFork => status'[source'[a]] = "merged"
  BY DEF FateInv, FateFollowsFork
<1>1. /\ a \notin valid => tag[a] # NoFork /\ status[tag[a]] = "deleted"
      /\ tag[a] = NoFork /\ source[a] # NoFork => status[source[a]] = "merged"
      /\ tag[a] \in AllForks \cup {NoFork}
      /\ source[a] \in AllForks \cup {NoFork}
      /\ tag[a] # NoFork => source[a] = tag[a]
  BY DEF FateFollowsFork, Sourced, TypeOK
<1>2. \A f \in AllForks : status[f] \in Closed => status'[f] = status[f]
  BY ClosedStep
<1>3. CASE UNCHANGED knowledge
  BY <1>1, <1>2, <1>3 DEF knowledge, Closed
<1>4. ASSUME NEW c \in Clients, Promote(c)
      PROVE  /\ a \notin valid' => tag'[a] # NoFork /\ status'[tag'[a]] = "deleted"
             /\ tag'[a] = NoFork /\ source'[a] # NoFork => status'[source'[a]] = "merged"
  <2>1. status[call[c].fork] = "merged"
    BY <1>4 DEF Promote, Committed
  <2>2. /\ status' = status
        /\ valid' = valid
        /\ source' = source
        /\ tag'[a] = IF tag[a] = call[c].fork THEN NoFork ELSE tag[a]
    BY <1>4 DEF Promote, forkTable
  <2>3. CASE tag[a] = call[c].fork
    BY <1>1, <2>1, <2>2, <2>3
  <2>4. CASE tag[a] # call[c].fork
    BY <1>1, <2>2, <2>4
  <2> QED
    BY <2>3, <2>4
<1>5. ASSUME NEW c \in Clients, Archive(c)
      PROVE  /\ a \notin valid' => tag'[a] # NoFork /\ status'[tag'[a]] = "deleted"
             /\ tag'[a] = NoFork /\ source'[a] # NoFork => status'[source'[a]] = "merged"
  <2>1. /\ status[call[c].fork] = "deleted"
        /\ call[c].fork # NoFork
    BY <1>5, PendingCall, ForksAssumption DEF Archive, Committed, Doing
  <2>2. /\ status' = status
        /\ tag' = tag
        /\ source' = source
        /\ a \notin valid' => a \notin valid \/ tag[a] = call[c].fork
    BY <1>5 DEF Archive, Archived, TaggedWith, forkTable
  <2> QED
    BY <1>1, <2>1, <2>2
<1>6. ASSUME NEW b \in Atoms, NEW f \in ForkIds, Tag(b, f)
      PROVE  /\ a \notin valid' => tag'[a] # NoFork /\ status'[tag'[a]] = "deleted"
             /\ tag'[a] = NoFork /\ source'[a] # NoFork => status'[source'[a]] = "merged"
  BY <1>1, <1>6, ForksAssumption DEF Tag, TypeOK, forkTable
<1>7. ASSUME NEW who \in Components, Migrate(who)
      PROVE  /\ a \notin valid' => tag'[a] # NoFork /\ status'[tag'[a]] = "deleted"
             /\ tag'[a] = NoFork /\ source'[a] # NoFork => status'[source'[a]] = "merged"
  BY <1>1, <1>2, <1>7, ForksAssumption DEF Migrate, Closed
<1> QED
  BY <1>3, <1>4, <1>5, <1>6, <1>7 DEF Next, ClientStep, Create, Snapshot, JoinSelect, JoinUpdate,
     LogSelect, LogUpdate, MergeFork, DeleteFork, Die, vars, knowledge

LEMMA FateInit == Init => FateInv
BY TypeInit DEF Init, FateInv, Committed, Sourced, FateFollowsFork, Doing

\* An atom is invalidated only by the deletion of its fork and promoted only
\* by the merge of its fork, for any number of clients, calls that die
\* between their two transactions included.
THEOREM ForksFate == Spec => []FateFollowsFork
<1>1. FateInv /\ [Next]_vars => FateInv'
  BY TypeStep, CommittedStep, SourcedStep, FateStep DEF FateInv
<1>2. FateInv => FateFollowsFork
  BY DEF FateInv
<1> QED
  BY FateInit, <1>1, <1>2, PTL DEF Spec

-----------------------------------------------------------------------------
LEMMA StrandedStep == TypeOK /\ Committed /\ NoneStranded /\ [Next]_vars => NoneStranded'
<1> SUFFICES ASSUME TypeOK, Committed, NoneStranded, [Next]_vars,
                    NEW f \in ForkIds, f \notin died', NEW a \in Atoms, tag'[a] = f
             PROVE  /\ status'[f] = "merged" =>
                         \E c \in Clients : call'[c] = [op |-> "promote", fork |-> f]
                    /\ status'[f] = "deleted" /\ a \in valid' =>
                         \E c \in Clients : call'[c] = [op |-> "archive", fork |-> f]
  BY DEF NoneStranded, Settling, TaggedWith
<1>a. f \notin died
  <2>1. died \subseteq died'
    BY DEF Next, ClientStep, Create, Snapshot, JoinSelect, JoinUpdate, LogSelect, LogUpdate,
       MergeFork, Promote, DeleteFork, Archive, Die, Tag, Migrate, vars
  <2> QED
    BY <2>1
<1>1. tag[a] = f =>
        /\ status[f] = "merged" =>
               \E c \in Clients : call[c] = [op |-> "promote", fork |-> f]
        /\ status[f] = "deleted" /\ a \in valid =>
               \E c \in Clients : call[c] = [op |-> "archive", fork |-> f]
  BY <1>a DEF NoneStranded, Settling, TaggedWith
<1>2. call \in [Clients -> Calls \cup {Idle}]
  BY DEF TypeOK
<1>3. [op |-> "promote", fork |-> f] \in Calls /\ [op |-> "archive", fork |-> f] \in Calls
  BY DEF Calls
<1>4. \A c \in Clients : call[c] \in {[op |-> "promote", fork |-> f], [op |-> "archive", fork |-> f]}
           => call[c] # Idle
  BY <1>3, IdleAssumption
<1>5. CASE UNCHANGED vars
  BY <1>1, <1>5 DEF vars
<1>6. ASSUME NEW b \in Atoms, NEW g \in ForkIds, Tag(b, g)
      PROVE  status'[f] \in Closed => tag[a] = f /\ UNCHANGED <<status, call, valid>>
  BY <1>6 DEF Tag, TypeOK, forkTable, Closed
<1>7. ASSUME NEW who \in Components, Migrate(who)
      PROVE  tag[a] = f /\ status'[f] = status[f] /\ UNCHANGED <<call, valid>>
  BY <1>7, ForksAssumption DEF Migrate, TypeOK
<1>8. ASSUME NEW c \in Clients, Promote(c)
      PROVE  /\ tag[a] = f
             /\ UNCHANGED <<status, valid>>
             /\ \A d \in Clients : call[d] \in {[op |-> "promote", fork |-> f], [op |-> "archive", fork |-> f]}
                                     => call'[d] = call[d]
  BY <1>8, ForksAssumption DEF Promote, Return, Doing, forkTable, TypeOK
<1>9. ASSUME NEW c \in Clients, Archive(c)
      PROVE  /\ tag[a] = f
             /\ UNCHANGED status
             /\ status[f] = "merged" \/ a \in valid' =>
                  \A d \in Clients : call[d] \in {[op |-> "promote", fork |-> f], [op |-> "archive", fork |-> f]}
                                     => call'[d] = call[d]
             /\ valid' \subseteq valid
  <2>1. call[c].op = "archive"
    BY <1>9 DEF Archive, Doing
  <2>2. status[call[c].fork] = "deleted"
    BY <1>9 DEF Archive, Committed
  <2>3. a \in valid' => call[c].fork # f
    BY <1>9 DEF Archive, Archived, TaggedWith
  <2>4. \A d \in Clients : d # c => call'[d] = call[d]
    BY <1>9 DEF Archive, Return, TypeOK
  <2>5. status[f] = "merged" \/ a \in valid' =>
          call[c] \notin {[op |-> "promote", fork |-> f], [op |-> "archive", fork |-> f]}
    BY <2>1, <2>2, <2>3
  <2> QED
    BY <1>9, <2>4, <2>5 DEF Archive, forkTable
<1>10. ASSUME NEW c \in Clients, NEW g \in ForkIds, MergeFork(c, g) \/ DeleteFork(c, g)
       PROVE  /\ status'[f] = "merged" =>
                         \E d \in Clients : call'[d] = [op |-> "promote", fork |-> f]
              /\ status'[f] = "deleted" /\ a \in valid' =>
                         \E d \in Clients : call'[d] = [op |-> "archive", fork |-> f]
  <2>1. tag[a] = f /\ UNCHANGED valid /\ call[c] = Idle
    BY <1>10 DEF MergeFork, DeleteFork, Begin, knowledge
  <2>2. \A d \in Clients : d # c => call'[d] = call[d]
    BY <1>10 DEF MergeFork, DeleteFork, Begin, TypeOK
  <2>3. CASE g = f
    BY <1>10, <2>3 DEF MergeFork, DeleteFork, Begin, TypeOK
  <2>4. CASE g # f
    <3>1. status'[f] = status[f]
      BY <1>10, <2>4 DEF MergeFork, DeleteFork, TypeOK
    <3>2. \A d \in Clients : call[d] \in {[op |-> "promote", fork |-> f], [op |-> "archive", fork |-> f]}
                  => call'[d] = call[d]
      BY <1>4, <2>1, <2>2
    <3> QED
      BY <1>1, <2>1, <3>1, <3>2
  <2> QED
    BY <2>3, <2>4
<1>11. ASSUME NEW c \in Clients,
              \/ Snapshot(c) \/ JoinUpdate(c) \/ LogUpdate(c)
              \/ \E g \in AllForks, who \in Components : JoinSelect(c, g, who) \/ LogSelect(c, g, who)
              \/ \E g \in ForkIds, who \in Components : Create(c, g, who)
       PROVE  /\ tag[a] = f
              /\ UNCHANGED valid
              /\ status'[f] \in Closed => status'[f] = status[f]
              /\ \A d \in Clients : call[d] \in {[op |-> "promote", fork |-> f], [op |-> "archive", fork |-> f]}
                                     => call'[d] = call[d]
  BY <1>4, <1>11 DEF Snapshot, JoinUpdate, LogUpdate, JoinSelect, LogSelect, Create, Begin, Return,
        Doing, knowledge, forkTable, TypeOK, Closed
<1>12. ASSUME NEW c \in Clients, Die(c)
       PROVE  /\ tag[a] = f
              /\ UNCHANGED <<status, valid>>
              /\ \A d \in Clients : call[d] \in {[op |-> "promote", fork |-> f], [op |-> "archive", fork |-> f]}
                                     => call'[d] = call[d]
  <2>1. \A d \in Clients : d # c => call'[d] = call[d]
    BY <1>12 DEF Die, Return, TypeOK
  <2>2. call[c].op \in {"promote", "archive"} => call[c].fork # f
    BY <1>12 DEF Die
  <2>3. call[c] \notin {[op |-> "promote", fork |-> f], [op |-> "archive", fork |-> f]}
    BY <2>2
  <2> QED
    BY <1>12, <2>1, <2>3 DEF Die
<1> QED
  BY <1>1, <1>5, <1>6, <1>7, <1>8, <1>9, <1>10, <1>11, <1>12 DEF Next, ClientStep, Closed

\* Unless the call that closed its fork died half-way, an atom of a closed fork
\* has a call under way that will settle it.
THEOREM ForksNoneStranded == Spec => []NoneStranded
<1>1. Init => TypeOK /\ Committed /\ NoneStranded
  BY TypeInit DEF Init, Committed, NoneStranded, Settling, TaggedWith, Doing
<1>2. TypeOK /\ Committed /\ NoneStranded /\ [Next]_vars => TypeOK' /\ Committed' /\ NoneStranded'
  BY TypeStep, CommittedStep, StrandedStep
<1> QED
  BY <1>1, <1>2, PTL DEF Spec

-----------------------------------------------------------------------------
\* What the SELECT of a fork_log has read is still there when it writes, and no
\* other call is logging to the fork, unless two of them once overlapped.
Fresh ==
    \A c \in Clients, f \in AllForks \ contended : Logging(c, f) =>
        /\ Exists(f)
        /\ call[c].seen = changes[f]
        /\ \A d \in Clients \ {c} : ~ Logging(d, f)

KeptInv == TypeOK /\ Fresh /\ EntriesKept

\* A call that does not log, and no change of the lists.
LEMMA KeptOther ==
    ASSUME Fresh, EntriesKept, UNCHANGED <<changes, logged, contended>>,
           \A f \in AllForks : Exists(f) => Exists(f)',
           \A d \in Clients : Doing(d, "log")' => Doing(d, "log") /\ call'[d] = call[d]
    PROVE  Fresh' /\ EntriesKept'
BY DEF Fresh, EntriesKept, Logging, Doing

LEMMA KeptStep == KeptInv /\ [Next]_vars => Fresh' /\ EntriesKept'
<1> SUFFICES ASSUME TypeOK, Fresh, EntriesKept, [Next]_vars
             PROVE  Fresh' /\ EntriesKept'
  BY DEF KeptInv
<1>1. CASE UNCHANGED vars
  BY <1>1, KeptOther DEF vars, Exists, Doing
<1>2. ASSUME NEW c \in Clients, LogUpdate(c)
      PROVE  Fresh' /\ EntriesKept'
  <2> DEFINE f == call[c].fork
  <2>1. f \in AllForks /\ Logging(c, f)
    BY <1>2, PendingCall DEF LogUpdate, Doing, Logging
  <2>2. /\ changes' = [changes EXCEPT ![f] = Append(call[c].seen, call[c].who)]
        /\ logged' = [logged EXCEPT ![f] = Append(logged[f], call[c].who)]
        /\ contended' = contended /\ status' = status
    BY <1>2 DEF LogUpdate, WithEntry
  <2>3. call'[c] = Idle /\ \A d \in Clients \ {c} : call'[d] = call[d]
    BY <1>2 DEF LogUpdate, Return, TypeOK
  <2> HIDE DEF f
  <2>4. f \notin contended =>
          changes[f] = logged[f] /\ call[c].seen = changes[f]
          /\ \A d \in Clients \ {c} : ~ Logging(d, f)
    BY <2>1 DEF Fresh, EntriesKept
  <2>5. \A g \in AllForks \ {f} : changes'[g] = changes[g] /\ logged'[g] = logged[g]
    BY <2>2 DEF TypeOK
  <2>6. f \notin contended => changes'[f] = logged'[f]
    BY <2>1, <2>2, <2>4 DEF TypeOK
  <2>7. EntriesKept'
    BY <2>1, <2>2, <2>5, <2>6 DEF EntriesKept
  <2>8. ASSUME NEW d \in Clients, NEW g \in AllForks \ contended', Logging(d, g)'
        PROVE  /\ Exists(g)' /\ call'[d].seen = changes'[g]
               /\ \A e \in Clients \ {d} : ~ Logging(e, g)'
    <3>1. d # c /\ Logging(d, g) /\ call'[d] = call[d]
      BY <2>3, <2>8 DEF Logging, Doing
    <3>2. g # f
      BY <2>2, <2>4, <2>8, <3>1
    <3> QED
      BY <2>2, <2>3, <2>5, <2>8, <3>1, <3>2 DEF Fresh, Logging, Doing, Exists
  <2> QED
    BY <2>7, <2>8 DEF Fresh
<1>3. ASSUME NEW c \in Clients, NEW f \in AllForks, NEW who \in Components, LogSelect(c, f, who)
      PROVE  Fresh' /\ EntriesKept'
  <2> DEFINE job == [op |-> "log", fork |-> f, who |-> who, seen |-> changes[f]]
  <2>1. call[c] = Idle /\ call'[c] = job /\ \A d \in Clients \ {c} : call'[d] = call[d]
    BY <1>3 DEF LogSelect, Begin, TypeOK
  <2>2. job.op = "log" /\ job.fork = f /\ job.seen = changes[f]
    OBVIOUS
  <2> HIDE DEF job
  <2>3. /\ UNCHANGED <<status, changes, logged>> /\ Exists(f)
        /\ contended \subseteq contended'
        /\ f \notin contended' => \A d \in Clients : ~ Logging(d, f)
    BY <1>3 DEF LogSelect
  <2>4. EntriesKept'
    BY <2>3 DEF EntriesKept
  <2>5. ASSUME NEW d \in Clients, NEW g \in AllForks \ contended', Logging(d, g)'
        PROVE  /\ Exists(g)' /\ call'[d].seen = changes'[g]
               /\ \A e \in Clients \ {d} : ~ Logging(e, g)'
    <3>1. CASE d = c
      <4>1. g = f
        BY <2>1, <2>2, <2>5, <3>1 DEF Logging
      <4> QED
        BY <2>1, <2>2, <2>3, <2>5, <3>1, <4>1 DEF Logging, Doing, Exists
    <3>2. CASE d # c
      <4>1. Logging(d, g) /\ call'[d] = call[d]
        BY <2>1, <2>5, <3>2 DEF Logging, Doing
      <4>2. g # f
        BY <2>3, <2>5, <4>1
      <4> QED
        BY <2>1, <2>2, <2>3, <2>5, <4>1, <4>2 DEF Fresh, Logging, Doing, Exists
    <3> QED
      BY <3>1, <3>2
  <2> QED
    BY <2>4, <2>5 DEF Fresh
<1>4. ASSUME NEW who \in Components, Migrate(who)
      PROVE  Fresh' /\ EntriesKept'
  <2>1. /\ UNCHANGED <<call, contended>> /\ ~ Exists(Origin)
        /\ \A f \in AllForks \ {Origin} :
              changes'[f] = changes[f] /\ logged'[f] = logged[f] /\ status'[f] = status[f]
        /\ changes'[Origin] = logged'[Origin]
    BY <1>4 DEF Migrate, TypeOK
  <2>2. EntriesKept'
    BY <2>1 DEF EntriesKept
  <2>3. ASSUME NEW d \in Clients, NEW g \in AllForks \ contended', Logging(d, g)'
        PROVE  /\ Exists(g)' /\ call'[d].seen = changes'[g]
               /\ \A e \in Clients \ {d} : ~ Logging(e, g)'
    <3>1. Logging(d, g) /\ g \notin contended
      BY <2>1, <2>3 DEF Logging, Doing
    <3>2. Exists(g)
      BY <3>1 DEF Fresh
    <3> QED
      BY <2>1, <3>1, <3>2 DEF Fresh, Logging, Doing, Exists
  <2> QED
    BY <2>2, <2>3 DEF Fresh
<1>5. ASSUME NEW c \in Clients, NEW f \in AllForks,
             \/ (f \in ForkIds /\ \E who \in Components : Create(c, f, who))
             \/ (f \in ForkIds /\ (MergeFork(c, f) \/ DeleteFork(c, f)))
             \/ \E who \in Components : JoinSelect(c, f, who)
      PROVE  Fresh' /\ EntriesKept'
  <2>1. call'[c].op # "log" /\ \A d \in Clients \ {c} : call'[d] = call[d]
    BY <1>5 DEF Create, MergeFork, DeleteFork, JoinSelect, Begin, TypeOK
  <2>2. /\ UNCHANGED <<changes, logged, contended>>
        /\ \A g \in AllForks : Exists(g) => Exists(g)'
    BY <1>5 DEF Create, MergeFork, DeleteFork, JoinSelect, Exists, TypeOK
  <2> QED
    BY <2>1, <2>2, KeptOther DEF Doing
<1>6. ASSUME NEW c \in Clients,
             Snapshot(c) \/ JoinUpdate(c) \/ Promote(c) \/ Archive(c) \/ Die(c)
      PROVE  Fresh' /\ EntriesKept'
  <2>1. call'[c] = Idle /\ \A d \in Clients \ {c} : call'[d] = call[d]
    BY <1>6 DEF Snapshot, JoinUpdate, Promote, Archive, Die, Return, TypeOK
  <2>2. UNCHANGED <<changes, logged, contended, status>>
    BY <1>6 DEF Snapshot, JoinUpdate, Promote, Archive, Die
  <2> QED
    BY <2>1, <2>2, KeptOther DEF Doing, Exists
<1>7. ASSUME NEW a \in Atoms, NEW f \in ForkIds, Tag(a, f)
      PROVE  Fresh' /\ EntriesKept'
  BY <1>7, KeptOther DEF Tag, Doing, Exists
<1> QED
  BY <1>1, <1>2, <1>3, <1>4, <1>5, <1>6, <1>7 DEF Next, ClientStep

\* The change list of a fork holds exactly the entries fork_log acknowledged, for
\* any number of clients, as long as no two calls of fork_log on it overlapped.
THEOREM ForksEntriesKept == Spec => []EntriesKept
<1>1. Init => KeptInv
  BY TypeInit DEF Init, KeptInv, Fresh, EntriesKept, Doing, Logging
<1>2. KeptInv /\ [Next]_vars => KeptInv'
  BY TypeStep, KeptStep DEF KeptInv
<1>3. KeptInv => EntriesKept
  BY DEF KeptInv
<1> QED
  BY <1>1, <1>2, <1>3, PTL DEF Spec
=============================================================================
