------------------------------ MODULE ToolGate ------------------------------
(***************************************************************************)
(* The pipeline every tool call of the MCP server goes through             *)
(* (sap/middleware.py, sap_gate), with the cached policy rules, the rate   *)
(* limiter and the receipts the limit rules count; and the tools that      *)
(* change the rules (sap_mcp.py, policy_put and policy_delete).            *)
(*                                                                         *)
(* The calls are coroutines of one event loop that give way at each step   *)
(* sent to the executor's threads, so their steps interleave.  One clock   *)
(* stands for the three the code reads: monotonic() for the cache, time()  *)
(* for the limiter, the database's now() for receipts.                     *)
(***************************************************************************)
EXTENDS Limits, Sequences, FiniteSets

CONSTANTS Apps, Tools,
          Owner,             \* the application that may change the rules
          PutRule, DropRule, \* the tools policy_put and policy_delete
          Names,             \* names of rules
          Rules,             \* rules: [name, target, type, action, threshold]
          AnyTool,           \* the target "*"
          Slots,             \* calls in progress at a time
          CacheTTL,          \* _POLICY_CACHE_TTL
          LimitWindow,       \* window_sec of the limit rules
          Boot,              \* monotonic() when the server starts
          DbFails,           \* whether statements may fail
          MaxQuery,          \* bound: how long the query for the rules takes
          MaxPolicies, MaxReceipts \* bounds

AllTools == Tools \cup {PutRule, DropRule}
Times    == 0..MaxTime
Policies == SUBSET Rules
Change   == [rules : Policies, at : Times, clean : 1..MaxPolicies]
Receipt  == [app : Apps, tool : AllTools, at : Times]
NoCall   == [at |-> "idle"]
Versions == 0..MaxPolicies
Call     == [at : {"policy", "query", "store", "judge", "rate", "auth", "run", "drop"},
             app : Apps, tool : AllTools,
             version : Versions, known : Versions, read : Times]

VARIABLES now, log, calls, \* the limiter's
          history,  \* the rules in force, each since its time: the last are now;
                    \* and the newest that were clean then, see Commit
          cache,    \* _policy_cache_rules, as a place in history, and _policy_cache_ts
          receipts, \* willow.mcp_receipts
          pending,  \* receipts handed to the executor and not yet written
          call      \* the call in each slot

limiter == <<now, log, calls>>
ledger  == <<receipts, pending>>
vars    == <<now, log, calls, history, cache, receipts, pending, call>>

Limiter == INSTANCE Gleipnir

ASSUME GateAssumption ==
    /\ PutRule \notin Tools /\ DropRule \notin Tools
    /\ PutRule # DropRule
    /\ AnyTool \notin AllTools
    /\ DbFails \in BOOLEAN
    /\ \A r \in Rules :
        /\ r.name \in Names
        /\ r.target \in AllTools \cup {AnyTool}
        /\ r.type \in {"block", "warn", "limit"}
        /\ r.action \in {"block", "warn"}
        /\ r.threshold \in Nat
    /\ CacheTTL \in Nat \ {0}
    /\ LimitWindow \in Nat \ {0}
    /\ MaxQuery \in Nat
    /\ Boot \in Times
    /\ MaxPolicies \in Nat \ {0}
    /\ MaxReceipts \in Nat

TypeOK ==
    /\ Limiter!TypeOK
    /\ history  \in Seq(Change)
    /\ Len(history) \in 1..MaxPolicies
    /\ cache    \in [version : Versions, ts : Times]
    /\ receipts \in Seq(Receipt)
    /\ pending  \in [Apps \X AllTools -> Nat]
    /\ call     \in [Slots -> Call \cup {NoCall}]

\* The database has its rules before the server starts, with an empty cache of
\* time 0.0: version 0, no rules.
Init ==
    /\ now = Boot
    /\ log   = [a \in Apps |-> <<>>]
    /\ calls = [a \in Apps |-> <<>>]
    /\ \E p \in Policies :
        /\ \A r, s \in p : r.name = s.name => r = s
        /\ history = <<[rules |-> p, at |-> 0, clean |-> 1]>>
    /\ cache = [version |-> 0, ts |-> 0]
    /\ receipts = <<>>
    /\ pending = [x \in Apps \X AllTools |-> 0]
    /\ call = [s \in Slots |-> NoCall]

RulesAt(v) == IF v = 0 THEN {} ELSE history[v].rules
Newest == Len(history)
Clean  == history[Newest].clean

Move(s, place) == call' = [call EXCEPT ![s].at = place]
\* Judged: what it was judged by no longer matters.
Pass(s) == call' = [call EXCEPT ![s].at = "rate", ![s].version = 0, ![s].known = 0, ![s].read = 0]
Leave(s)       == call' = [call EXCEPT ![s] = NoCall]

-----------------------------------------------------------------------------
\* known: the newest clean rules, once every change of rules has been answered.
Begin(s, a, t) ==
    /\ call[s] = NoCall
    /\ call' = [call EXCEPT ![s] =
         [at |-> "policy", app |-> a, tool |-> t, version |-> 0, read |-> 0,
          known |-> IF \E u \in Slots : call[u].at = "drop" THEN 0 ELSE Clean]]
    /\ UNCHANGED <<limiter, history, cache, ledger>>

Fresh == now - cache.ts < CacheTTL

ReadCache(s) ==
    /\ call[s].at = "policy"
    /\ call' = [call EXCEPT
         ![s].at = IF Fresh THEN "judge" ELSE "query",
         ![s].version = IF Fresh THEN cache.version ELSE 0,
         ![s].read = IF Fresh THEN now ELSE 0]
    /\ UNCHANGED <<limiter, history, cache, ledger>>

Query(s) ==
    /\ call[s].at = "query"
    /\ call' = [call EXCEPT ![s].at = "store", ![s].version = Newest, ![s].read = now]
    /\ UNCHANGED <<limiter, history, cache, ledger>>

\* Faulty: a query that fails falls back on what the cache has, whatever its age.
QueryFailsStale(s) ==
    /\ DbFails
    /\ call[s].at = "query"
    /\ call' = [call EXCEPT ![s].at = "judge", ![s].version = cache.version, ![s].read = now]
    /\ UNCHANGED <<limiter, history, cache, ledger>>

\* Any exception: no rules, and the check is "ok".
QueryFails(s) ==
    /\ DbFails
    /\ call[s].at = "query"
    /\ Pass(s)
    /\ UNCHANGED <<limiter, history, cache, ledger>>

StoreCache(s) ==
    /\ call[s].at = "store"
    /\ cache' = [version |-> call[s].version, ts |-> now]
    /\ Move(s, "judge")
    /\ UNCHANGED <<limiter, history, ledger>>

\* _count_receipts
Count(a, t) ==
    Cardinality({i \in 1..Len(receipts) :
        /\ receipts[i].app = a /\ receipts[i].tool = t
        /\ now - receipts[i].at < LimitWindow})

\* `threshold or 100`: a threshold of nought is none at all here.
Threshold(r) == IF r.threshold = 0 THEN MaxCalls + 1 ELSE r.threshold

Fires(r, a, t) ==
    /\ r.target \in {AnyTool, t}
    /\ r.type = "limit" => Count(a, t) >= Threshold(r)

Outcome(r) == IF r.type = "warn" THEN "warn" ELSE r.action

\* The first rule that fires decides; the query gives the rules in any order.  A
\* count that fails is nought, and the rules it fails for do not fire.
Outcomes(s, failed) ==
    LET firing == {r \in RulesAt(call[s].version) \ failed :
                      Fires(r, call[s].app, call[s].tool)}
    IN  IF firing = {} THEN {"ok"} ELSE {Outcome(r) : r \in firing}

Judge(s) ==
    /\ call[s].at = "judge"
    /\ \E failed \in SUBSET {r \in Rules : DbFails /\ r.type = "limit"} :
        \E outcome \in Outcomes(s, failed) :
            IF outcome = "block" THEN Leave(s) ELSE Pass(s)
    /\ UNCHANGED <<limiter, history, cache, ledger>>

Rate(s) ==
    /\ call[s].at = "rate"
    /\ \E v \in Limiter!Verdicts :
        /\ Limiter!Check(call[s].app, v)
        /\ IF v = "deny" THEN Leave(s) ELSE Move(s, "auth")
    /\ UNCHANGED <<history, cache, ledger>>

\* The PGP check, the tool's ACL and the scan of what is written: each answers
\* from the application's manifest or the arguments, which are not modelled.
Admit(s) ==
    /\ call[s].at = "auth"
    /\ Move(s, "run")
    /\ UNCHANGED <<limiter, history, cache, ledger>>

Refuse(s) ==
    /\ call[s].at = "auth"
    /\ Leave(s)
    /\ UNCHANGED <<limiter, history, cache, ledger>>

\* What the tool does is over; its receipt is on its way.
Ends(s) ==
    /\ pending' = [pending EXCEPT ![<<call[s].app, call[s].tool>>] = @ + 1]
    /\ Leave(s)

\* Any other application's policy_put or policy_delete answers an error.
MayChange(s) == call[s].app = Owner /\ call[s].tool \notin Tools

Run(s) ==
    /\ call[s].at = "run" /\ ~MayChange(s)
    /\ Ends(s)
    /\ UNCHANGED <<limiter, history, cache, receipts>>

\* An exception of the tool leaves the pipeline, receipt and all.
Raise(s) ==
    /\ call[s].at = "run"
    /\ Leave(s)
    /\ UNCHANGED <<limiter, history, cache, ledger>>

\* policy_put and policy_delete up to the commit.  The new rules are clean when
\* no call has read older ones that it has still to put into the cache.
Commit(s, rules) ==
    /\ Len(history) < MaxPolicies
    /\ history' = Append(history, [rules |-> rules, at |-> now,
          clean |-> IF \E u \in Slots : call[u].at = "store" THEN Clean ELSE Newest + 1])
    /\ Move(s, "drop")
    /\ UNCHANGED <<limiter, cache, ledger>>

Others(name) == {q \in RulesAt(Newest) : q.name # name}

PolicyPut(s) ==
    /\ call[s].at = "run" /\ MayChange(s) /\ call[s].tool = PutRule
    /\ \E r \in Rules : Commit(s, Others(r.name) \cup {r})

PolicyDelete(s) ==
    /\ call[s].at = "run" /\ MayChange(s) /\ call[s].tool = DropRule
    /\ \E n \in Names : Commit(s, Others(n))

\* Faulty: the cache is left to its age.
DropCacheNot(s) ==
    /\ call[s].at = "drop"
    /\ Ends(s)
    /\ UNCHANGED <<limiter, history, cache, receipts>>

\* _policy_cache_ts = 0.0: the rules stay, their time goes.
DropCache(s) ==
    /\ call[s].at = "drop"
    /\ cache' = [cache EXCEPT !.ts = 0]
    /\ Ends(s)
    /\ UNCHANGED <<limiter, history, receipts>>

WriteReceipt(a, t) ==
    /\ Len(receipts) < MaxReceipts
    /\ pending[<<a, t>>] > 0
    /\ pending' = [pending EXCEPT ![<<a, t>>] = @ - 1]
    /\ receipts' = Append(receipts, [app |-> a, tool |-> t, at |-> now])
    /\ UNCHANGED <<limiter, history, cache, call>>

\* Any exception drops the receipt.
LoseReceipt(a, t) ==
    /\ DbFails
    /\ pending[<<a, t>>] > 0
    /\ pending' = [pending EXCEPT ![<<a, t>>] = @ - 1]
    /\ UNCHANGED <<limiter, history, cache, receipts, call>>

\* MaxQuery: time waits for the rules that were read to be stored.
Tick ==
    /\ now < MaxTime
    /\ \A s \in Slots : call[s].at = "store" => now - call[s].read < MaxQuery
    /\ now' = now + 1
    /\ UNCHANGED <<log, calls, history, cache, ledger, call>>

Next ==
    \/ \E s \in Slots, a \in Apps, t \in AllTools : Begin(s, a, t)
    \/ \E s \in Slots :
        \/ ReadCache(s) \/ Query(s) \/ QueryFails(s) \/ StoreCache(s) \/ Judge(s)
        \/ Rate(s) \/ Admit(s) \/ Refuse(s)
        \/ Run(s) \/ Raise(s) \/ PolicyPut(s) \/ PolicyDelete(s) \/ DropCache(s)
    \/ \E a \in Apps, t \in AllTools : WriteReceipt(a, t) \/ LoseReceipt(a, t)
    \/ Tick

Spec == Init /\ [][Next]_vars

-----------------------------------------------------------------------------
(***************************************************************************)
(* Whatever the interleaving of the queries, of the changes and of the     *)
(* invalidations, a call is judged by rules that were in force less than   *)
(* CacheTTL and the time of one query ago (middleware.py:                  *)
(* _get_cached_policy_rules).  An exception, which judges by no rules at   *)
(* all, is the one exception.                                              *)
(***************************************************************************)
InForce ==
    \A s \in Slots : call[s].at = "judge" /\ call[s].version < Newest =>
        call[s].read - history[call[s].version + 1].at < CacheTTL + MaxQuery

(***************************************************************************)
(* "Invalidate middleware TTL cache so new rule takes effect immediately"  *)
(* (sap_mcp.py:2301): a call that begins when every policy_put and         *)
(* policy_delete has answered is judged by what they left, except by rules *)
(* whose commit came while older ones were on their way to the cache, and  *)
(* except while the clock has not come past CacheTTL, when the time 0.0    *)
(* does not look old.                                                      *)
(***************************************************************************)
Immediate ==
    \A s \in Slots : call[s].at = "judge" /\ call[s].read >= CacheTTL =>
        call[s].version >= call[s].known

(***************************************************************************)
(* Denied calls are listed like the others, and still the list decides as  *)
(* it should for the calls behind the gate, whatever they do meanwhile: an *)
(* application is denied exactly when HardLimit calls of its own, denied   *)
(* ones among them, came before inside the window.  No more than HardLimit *)
(* of its calls go on to authorisation in a window, and one that keeps its *)
(* calls under the limit is never denied (middleware.py: step 2;           *)
(* gleipnir.py: check).                                                    *)
(***************************************************************************)
Throttled == Limiter!Sliding
=============================================================================
