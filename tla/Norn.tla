-------------------------------- MODULE Norn --------------------------------
(***************************************************************************)
(* The insight pass of the Norns (core/intelligence.py) and the Stop hook  *)
(* that feeds it (willow/fylgja/events/stop.py).  Each turn of a session   *)
(* that ran into friction replaces the session's reflection in SOIL.  A    *)
(* pass lists the reflections that are open, asks a model whether they are *)
(* a pattern, and either writes an insight and marks them as superseded by *)
(* it, or sets them aside.  Every mark writes back the whole record as it  *)
(* was listed.  Reflections of the hook name no target, so all of them are *)
(* one cluster.                                                            *)
(*                                                                         *)
(* The store is called through willow/fylgja/_mcp.py, whose call() gives   *)
(* back an error where it would have raised one: the pass never sees that  *)
(* a put or an update failed.                                              *)
(***************************************************************************)
EXTENDS Naturals, Sequences, FiniteSets

CONSTANTS Norns,       \* passes: at the start of the service, or by hand
          Reflectors,  \* sessions
          Pattern,     \* the reflections that make a cluster worth a question
          MaxTexts, MaxNornFaults  \* bounds: reflections written, faults

ASSUME NornAssumption == Pattern \in Nat \ {0} /\ MaxTexts \in Nat /\ MaxNornFaults \in Nat

VARIABLES refl,        \* each session's reflection: its text, the insight that supersedes
                       \* it, and whether it has been set aside
          insights,    \* by the ids a pass has drawn: which text of which session the
                       \* insight there cites; one that was not written cites none
          norn,        \* each pass: its step, its list, and what it has yet to mark
          nornFaults,  \* bounded counter
          newest,      \* history: how many texts a session wrote, the name of the last
          overtaken,   \* history: sessions whose last text came while a pass held one
          amiss,       \* history: texts that two passes held, or one could not mark
          lost         \* history: ids of insights whose put failed

nornVars == <<refl, insights, norn, nornFaults, newest, overtaken, amiss, lost>>

NoText   == 0   \* also: no insight
Text(t)  == [text |-> t, by |-> 0, aside |-> FALSE]
Nothing  == [s \in Reflectors |-> Text(NoText)]
OffDuty  == [todo |-> "list", seen |-> Nothing, members |-> {}, cited |-> NoText]

NornInit ==
    /\ refl = Nothing /\ insights = <<>>
    /\ norn = [n \in Norns |-> OffDuty] /\ nornFaults = 0
    /\ newest = [s \in Reflectors |-> 0] /\ overtaken = {} /\ amiss = {} /\ lost = {}

Duty(n, x) == norn[n].todo = x
TurnsTo(n, x) == norn' = [norn EXCEPT ![n].todo = x]
Holders(s) == {n \in Norns : s \in norn[n].members}
Held(n, S) == {<<s, norn[n].seen[s].text>> : s \in S}
NornFault  == nornFaults < MaxNornFaults /\ nornFaults' = nornFaults + 1

\* A turn of a session with friction, for which the model has a sentence: the record is new.
WriteReflection(s) ==
    /\ Cardinality({w \in Reflectors \X (1..MaxTexts) : w[2] <= newest[w[1]]}) < MaxTexts
    /\ newest' = [newest EXCEPT ![s] = @ + 1]
    /\ refl' = [refl EXCEPT ![s] = Text(newest'[s])]
    /\ overtaken' = IF Holders(s) = {} THEN overtaken \ {s} ELSE overtaken \cup {s}
    /\ UNCHANGED <<insights, norn, nornFaults, amiss, lost>>

\* Faulty: superseded reflections are not left out.
OpenAgain == {s \in Reflectors : refl[s].text # NoText /\ ~refl[s].aside}
\* The reflections a pass looks at.
Open == {s \in Reflectors : refl[s].text # NoText /\ ~refl[s].aside /\ refl[s].by = 0}
InsightPass(n) ==
    /\ Duty(n, "list") /\ Cardinality(Open) >= Pattern
    /\ norn' = [norn EXCEPT ![n] =
           [todo |-> "ask", members |-> Open, cited |-> NoText,
            seen |-> [s \in Reflectors |-> IF s \in Open THEN refl[s] ELSE Text(NoText)]]]
    /\ amiss' = amiss \cup (UNION {Held(m, Open \cap norn[m].members) : m \in Norns})
                      \cup {<<s, refl[s].text>> : s \in {r \in Open : Holders(r) # {}}}
    /\ UNCHANGED <<refl, insights, nornFaults, newest, overtaken, lost>>

\* A pattern, or a coincidence; to have no answer is to have a coincidence.
AskStructured(n) ==
    /\ Duty(n, "ask") /\ \E x \in {"put", "aside"} : TurnsTo(n, x)
    /\ UNCHANGED <<refl, insights, nornFaults, newest, overtaken, amiss, lost>>

\* The pass draws an id for the insight and goes on with it.
Draws(n, evidence) ==
    /\ Duty(n, "put")
    /\ insights' = Append(insights, evidence)
    /\ norn' = [norn EXCEPT ![n].todo = "supersede", ![n].cited = Len(insights')]
    /\ UNCHANGED <<refl, newest, overtaken, amiss>>
PutInsight(n) ==
    /\ Draws(n, [s \in Reflectors |->
           IF s \in norn[n].members THEN norn[n].seen[s].text ELSE NoText])
    /\ UNCHANGED <<nornFaults, lost>>
\* The error goes unseen: the reflections are superseded by an insight that is not there.
PutFails(n) ==
    /\ Draws(n, [s \in Reflectors |-> NoText]) /\ NornFault
    /\ lost' = lost \cup {Len(insights')}

\* Faulty: the mark says nothing.
MarkWithout(n, s) == norn[n].seen[s]
\* The record as it was listed, with the mark.  The store merges it into what it has
\* (willow_store.py, update): the record listed says nothing of having been set aside, and so
\* does not undo it.
Mark(n, s) ==
    IF Duty(n, "aside") THEN [norn[n].seen[s] EXCEPT !.aside = TRUE]
    ELSE [norn[n].seen[s] EXCEPT !.by = norn[n].cited, !.aside = refl[s].aside]
Marking(n) == Duty(n, "supersede") \/ Duty(n, "aside")
Finished(n, s) ==
    LET rest == norn[n].members \ {s}
    IN norn' = [norn EXCEPT ![n] = IF rest = {} THEN OffDuty ELSE [@ EXCEPT !.members = rest]]
UpdateReflection(n, s) ==
    /\ Marking(n) /\ s \in norn[n].members /\ Finished(n, s)
    /\ refl' = [refl EXCEPT ![s] = Mark(n, s)]
    /\ UNCHANGED <<insights, nornFaults, newest, overtaken, amiss, lost>>
\* An update that fails is passed over.
UpdateFails(n, s) ==
    /\ Marking(n) /\ s \in norn[n].members /\ Finished(n, s) /\ NornFault
    /\ amiss' = amiss \cup Held(n, {s})
    /\ UNCHANGED <<refl, insights, newest, overtaken, lost>>

NornDies(n) ==
    /\ ~Duty(n, "list") /\ NornFault
    /\ norn' = [norn EXCEPT ![n] = OffDuty]
    /\ amiss' = IF Marking(n) THEN amiss \cup Held(n, norn[n].members) ELSE amiss
    /\ UNCHANGED <<refl, insights, newest, overtaken, lost>>

Weaves(n) ==
    InsightPass(n) \/ AskStructured(n) \/ PutInsight(n)
    \/ \E s \in Reflectors : UpdateReflection(n, s)
NornNext ==
    \/ \E s \in Reflectors : WriteReflection(s)
    \/ \E n \in Norns : Weaves(n) \/ PutFails(n) \/ NornDies(n) \/ \E s \in Reflectors : UpdateFails(n, s)
\* The service runs a pass whenever it starts; a question has a time-out.
NornFairness == \A n \in Norns : WF_nornVars(Weaves(n))
NornSpec == NornInit /\ [][NornNext]_nornVars /\ NornFairness

(* PROPERTIES *)

\* A reflection that is superseded holds the very text that its insight was drawn from, or
\* the put of that insight failed; one session's text is the evidence of one insight, unless
\* two passes held it at a time or a mark failed; and a newer text gives way to an older one
\* only if it was written while a pass held that one.
EvidenceTells ==
    /\ \A s \in Reflectors : refl[s].by # 0 =>
        refl[s].by \in lost \/ insights[refl[s].by][s] = refl[s].text
    /\ \A i, j \in 1..Len(insights), s \in Reflectors :
        (i # j /\ insights[i][s] = insights[j][s]) =>
            insights[i][s] = NoText \/ <<s, insights[i][s]>> \in amiss
    /\ \A s \in Reflectors : refl[s].text = newest[s] \/ s \in overtaken

\* A text is off the list: a coincidence, the evidence of its insight, or gone with one whose
\* put failed.
Digest(s) ==
    \/ refl[s].aside
    \/ refl[s].by # 0 /\ (refl[s].by \in lost \/ insights[refl[s].by][s] = refl[s].text)

\* "Processes all existing reflections" (line 375): while passes are run, fewer texts stay
\* undigested than are worth a question, whatever fails on the way.  A pass that dies or an
\* update that fails leaves its texts to the next one; a put that fails takes its texts with
\* it, and no pass comes back to them.
Digested == <>[](Cardinality({s \in Reflectors : refl[s].text # NoText /\ ~Digest(s)}) < Pattern)
=============================================================================
