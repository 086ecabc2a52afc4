--------------------------- MODULE ToolGateProofs ---------------------------
(***************************************************************************)
(* Proofs about ToolGate, for any rules, tools, slots and times.  The gate *)
(* implements the limiter, whose theorems therefore hold in it.  The rules *)
(* a call is judged by follow from an invariant of the cache: its version  *)
(* was still in force one query before its time.  That a change of rules   *)
(* takes effect follows from another: rules older than the clean ones are  *)
(* in the cache only with the time 0.0, or until a change drops them.      *)
(***************************************************************************)
EXTENDS ToolGate, TLAPS

Proved == INSTANCE GleipnirProofs

-----------------------------------------------------------------------------
\* TypeOK, without the limiter's part.
OwnTypes ==
    /\ now      \in Times
    /\ history  \in Seq(Change)
    /\ Len(history) \in 1..MaxPolicies
    /\ cache    \in [version : Versions, ts : Times]
    /\ receipts \in Seq(Receipt)
    /\ pending  \in [Apps \X AllTools -> Nat]
    /\ call     \in [Slots -> Call \cup {NoCall}]

Places == {"policy", "query", "store", "judge", "rate", "auth", "run", "drop"}

LEMMA CallTyped ==
    ASSUME OwnTypes, NEW s \in Slots, call[s].at # "idle"
    PROVE  /\ call[s] \in Call
           /\ call[s].at \in Places
           /\ call[s].app \in Apps
           /\ call[s].tool \in AllTools
           /\ call[s].version \in Versions
           /\ call[s].known \in Versions
           /\ call[s].read \in Times
<1>1. call[s] \in Call \cup {NoCall} /\ call[s] # NoCall
  BY DEF OwnTypes, NoCall
<1> QED
  BY <1>1 DEF Call, Places

LEMMA MoveTyped ==
    ASSUME OwnTypes, NEW s \in Slots, call[s].at # "idle", NEW place \in Places, Move(s, place)
    PROVE  call' \in [Slots -> Call \cup {NoCall}]
<1>1. [call[s] EXCEPT !.at = place] \in Call
  BY CallTyped DEF Call, Places
<1>2. call' = [call EXCEPT ![s] = [call[s] EXCEPT !.at = place]]
  BY DEF Move
<1> QED
  BY <1>1, <1>2 DEF OwnTypes

LEMMA PassTyped ==
    ASSUME OwnTypes, NEW s \in Slots, call[s].at # "idle", Pass(s)
    PROVE  call' \in [Slots -> Call \cup {NoCall}]
<1> DEFINE c == [call[s] EXCEPT !.at = "rate", !.version = 0, !.known = 0, !.read = 0]
<1>1. 0 \in Times /\ 0 \in Versions
  BY GateAssumption, GleipnirAssumption DEF Times, Versions
<1>2. c \in Call
  BY <1>1, CallTyped DEF Call
<1>3. call' = [call EXCEPT ![s] = c]
  BY DEF Pass
<1> HIDE DEF c
<1> QED
  BY <1>2, <1>3 DEF OwnTypes

LEMMA LeaveTyped ==
    ASSUME OwnTypes, NEW s \in Slots, Leave(s)
    PROVE  call' \in [Slots -> Call \cup {NoCall}]
BY DEF OwnTypes, Leave

LEMMA EndsTyped ==
    ASSUME OwnTypes, NEW s \in Slots, call[s].at # "idle", Ends(s)
    PROVE  /\ call'    \in [Slots -> Call \cup {NoCall}]
           /\ pending' \in [Apps \X AllTools -> Nat]
<1>1. <<call[s].app, call[s].tool>> \in Apps \X AllTools
  BY CallTyped
<1>2. call' \in [Slots -> Call \cup {NoCall}]
  BY LeaveTyped DEF Ends
<1> DEFINE x == <<call[s].app, call[s].tool>>
<1>3. pending' = [pending EXCEPT ![x] = @ + 1]
  BY DEF Ends
<1> HIDE DEF x
<1> QED
  BY <1>1, <1>2, <1>3 DEF OwnTypes, x

LEMMA RulesTyped ==
    ASSUME OwnTypes
    PROVE  RulesAt(Newest) \subseteq Rules
<1> DEFINE e == history[Len(history)]
<1>1. history \in Seq(Change) /\ Len(history) \in 1..Len(history)
  BY DEF OwnTypes
<1>2. e \in Change
  BY <1>1
<1> HIDE DEF e
<1>3. e.rules \subseteq Rules
  BY <1>2 DEF Change, Policies
<1> QED
  BY <1>3 DEF RulesAt, Newest, e

LEMMA CleanTyped ==
    ASSUME OwnTypes
    PROVE  Clean \in 1..MaxPolicies /\ Clean \in Nat
<1> DEFINE e == history[Len(history)]
<1>1. history \in Seq(Change) /\ Len(history) \in 1..Len(history)
  BY DEF OwnTypes
<1>2. e \in Change
  BY <1>1
<1> HIDE DEF e
<1>3. e.clean \in 1..MaxPolicies
  BY <1>2 DEF Change
<1>4. Clean = e.clean
  BY DEF Clean, Newest, e
<1> QED
  BY <1>3, <1>4

\* Rules put in force get the next version.
LEMMA CommitTyped ==
    ASSUME OwnTypes, NEW s \in Slots, call[s].at = "run", NEW rules \in Policies,
           Commit(s, rules)
    PROVE  /\ OwnTypes'
           /\ Len(history') = Len(history) + 1
           /\ \A v \in 1..Len(history) : history'[v] = history[v]
           /\ history'[Len(history) + 1].at = now
           /\ history'[Len(history) + 1].clean =
                 IF \E u \in Slots : call[u].at = "store" THEN Clean ELSE Newest + 1
<1> DEFINE k == IF \E u \in Slots : call[u].at = "store" THEN Clean ELSE Newest + 1
           e == [rules |-> rules, at |-> now, clean |-> k]
<1>1. history \in Seq(Change) /\ Len(history) < MaxPolicies
  BY DEF OwnTypes, Commit
<1>2. history' = Append(history, e)
  BY DEF Commit
<1>3. k \in 1..MaxPolicies
  BY <1>1, CleanTyped, GateAssumption DEF OwnTypes, Newest
<1> HIDE DEF k
<1>4. e \in Change /\ e.at = now /\ e.clean = k
  BY <1>3 DEF OwnTypes, Change
<1> HIDE DEF e
<1>5. history' \in Seq(Change) /\ Len(history') = Len(history) + 1
  BY <1>1, <1>2, <1>4
<1>6. Len(history') \in 1..MaxPolicies
  BY <1>1, <1>5, GateAssumption DEF OwnTypes
<1>7. call' \in [Slots -> Call \cup {NoCall}]
  BY MoveTyped DEF Commit, Places
<1>8. OwnTypes'
  BY <1>5, <1>6, <1>7 DEF OwnTypes, Commit, limiter, ledger
<1>9. /\ \A v \in 1..Len(history) : history'[v] = history[v]
      /\ history'[Len(history) + 1] = e
  BY <1>1, <1>2, <1>4
<1> QED
  BY <1>4, <1>5, <1>8, <1>9 DEF k

(* Type correctness of the gate's own state (middleware.py: sap_gate). *)
THEOREM GateTypes == Spec => []OwnTypes
<1>1. Init => OwnTypes
  <2> SUFFICES ASSUME Init
               PROVE  OwnTypes
    OBVIOUS
  <2>1. PICK p \in Policies : history = <<[rules |-> p, at |-> 0, clean |-> 1]>>
    BY DEF Init
  <2>2. 0 \in Times /\ Boot \in Times /\ 0 \in Versions /\ 1 \in 1..MaxPolicies
    BY GateAssumption, GleipnirAssumption DEF Times, Versions
  <2>3. [rules |-> p, at |-> 0, clean |-> 1] \in Change
    BY <2>2 DEF Change
  <2>4. history \in Seq(Change) /\ Len(history) = 1
    BY <2>1, <2>3
  <2> QED
    BY <2>2, <2>4 DEF Init, OwnTypes
<1>2. OwnTypes /\ [Next]_vars => OwnTypes'
  <2> SUFFICES ASSUME OwnTypes, [Next]_vars
               PROVE  OwnTypes'
    OBVIOUS
  <2> USE DEF OwnTypes, limiter, ledger
  <2>1. ASSUME NEW s \in Slots, NEW a \in Apps, NEW t \in AllTools, Begin(s, a, t)
        PROVE  OwnTypes'
    <3> DEFINE k == IF \E u \in Slots : call[u].at = "drop" THEN 0 ELSE Clean
               c == [at |-> "policy", app |-> a, tool |-> t, version |-> 0, read |-> 0,
                     known |-> k]
    <3>1. k \in Versions /\ 0 \in Versions /\ 0 \in Times
      BY CleanTyped, GateAssumption, GleipnirAssumption DEF Versions, Times
    <3> HIDE DEF k
    <3>2. c \in Call
      BY <3>1 DEF Call
    <3>3. call' = [call EXCEPT ![s] = c]
      BY <2>1 DEF Begin, k
    <3>4. UNCHANGED <<now, history, cache, receipts, pending>>
      BY <2>1 DEF Begin
    <3> HIDE DEF c
    <3> QED
      BY <3>2, <3>3, <3>4
  <2>2. ASSUME NEW s \in Slots, ReadCache(s)
        PROVE  OwnTypes'
    <3> DEFINE p == IF Fresh THEN "judge" ELSE "query"
               v == IF Fresh THEN cache.version ELSE 0
               r == IF Fresh THEN now ELSE 0
               c == [call[s] EXCEPT !.at = p, !.version = v, !.read = r]
    <3>1. call' = [call EXCEPT ![s] = c]
      BY <2>2 DEF ReadCache
    <3>2. p \in Places /\ v \in Versions /\ r \in Times
      BY GateAssumption, GleipnirAssumption DEF Places, Versions, Times
    <3> HIDE DEF p, v, r
    <3>3. c \in Call
      BY <2>2, <3>2, CallTyped DEF ReadCache, Call, Places
    <3>4. UNCHANGED <<now, history, cache, receipts, pending>>
      BY <2>2 DEF ReadCache
    <3> HIDE DEF c
    <3> QED
      BY <3>1, <3>3, <3>4
  <2>3. ASSUME NEW s \in Slots, Query(s)
        PROVE  OwnTypes'
    <3> DEFINE c == [call[s] EXCEPT !.at = "store", !.version = Newest, !.read = now]
    <3>1. call' = [call EXCEPT ![s] = c]
      BY <2>3 DEF Query
    <3>2. Newest \in Versions
      BY GateAssumption DEF Newest, Versions
    <3>3. c \in Call
      BY <2>3, <3>2, CallTyped DEF Query, Call
    <3>4. UNCHANGED <<now, history, cache, receipts, pending>>
      BY <2>3 DEF Query
    <3> HIDE DEF c
    <3> QED
      BY <3>1, <3>3, <3>4
  <2>4. ASSUME NEW s \in Slots, QueryFails(s)
        PROVE  OwnTypes'
    BY <2>4, PassTyped DEF QueryFails
  <2>5. ASSUME NEW s \in Slots, StoreCache(s)
        PROVE  OwnTypes'
    <3>1. call' \in [Slots -> Call \cup {NoCall}]
      BY <2>5, MoveTyped DEF StoreCache, Places
    <3>2. call[s].version \in Versions
      BY <2>5, CallTyped DEF StoreCache
    <3> QED
      BY <2>5, <3>1, <3>2 DEF StoreCache
  <2>6. ASSUME NEW s \in Slots, Judge(s)
        PROVE  OwnTypes'
    <3>1. Leave(s) \/ Pass(s)
      BY <2>6 DEF Judge
    <3>2. call' \in [Slots -> Call \cup {NoCall}]
      BY <2>6, <3>1, PassTyped, LeaveTyped DEF Judge
    <3> QED
      BY <2>6, <3>2 DEF Judge
  <2>7. ASSUME NEW s \in Slots, Rate(s)
        PROVE  OwnTypes'
    <3>1. Leave(s) \/ Move(s, "auth")
      BY <2>7 DEF Rate
    <3>2. call' \in [Slots -> Call \cup {NoCall}]
      BY <2>7, <3>1, MoveTyped, LeaveTyped DEF Rate, Places
    <3>3. now' = now
      BY <2>7 DEF Rate, Limiter!Check
    <3> QED
      BY <2>7, <3>2, <3>3 DEF Rate
  <2>8. ASSUME NEW s \in Slots, Admit(s) \/ Refuse(s) \/ Raise(s)
        PROVE  OwnTypes'
    <3>1. call' \in [Slots -> Call \cup {NoCall}]
      BY <2>8, MoveTyped, LeaveTyped DEF Admit, Refuse, Raise, Places
    <3> QED
      BY <2>8, <3>1 DEF Admit, Refuse, Raise
  <2>9. ASSUME NEW s \in Slots, Run(s)
        PROVE  OwnTypes'
    BY <2>9, EndsTyped DEF Run
  <2>10. ASSUME NEW s \in Slots, PolicyPut(s)
         PROVE  OwnTypes'
    <3>1. PICK r \in Rules : Commit(s, Others(r.name) \cup {r})
      BY <2>10 DEF PolicyPut
    <3>2. Others(r.name) \cup {r} \in Policies
      BY RulesTyped DEF Others, Policies
    <3> QED
      BY <2>10, <3>1, <3>2, CommitTyped DEF PolicyPut
  <2>11. ASSUME NEW s \in Slots, PolicyDelete(s)
         PROVE  OwnTypes'
    <3>1. PICK n \in Names : Commit(s, Others(n))
      BY <2>11 DEF PolicyDelete
    <3>2. Others(n) \in Policies
      BY RulesTyped DEF Others, Policies
    <3> QED
      BY <2>11, <3>1, <3>2, CommitTyped DEF PolicyDelete
  <2>12. ASSUME NEW s \in Slots, DropCache(s)
         PROVE  OwnTypes'
    <3>1. 0 \in Times
      BY GateAssumption, GleipnirAssumption DEF Times
    <3>2. cache' \in [version : Versions, ts : Times]
      BY <2>12, <3>1 DEF DropCache
    <3> QED
      BY <2>12, <3>2, EndsTyped DEF DropCache
  <2>13. ASSUME NEW a \in Apps, NEW t \in AllTools, WriteReceipt(a, t) \/ LoseReceipt(a, t)
         PROVE  OwnTypes'
    <3> DEFINE x == <<a, t>>
               e == [app |-> a, tool |-> t, at |-> now]
    <3>1. x \in Apps \X AllTools /\ e \in Receipt
      BY DEF Receipt
    <3>2. /\ pending[x] > 0
          /\ pending' = [pending EXCEPT ![x] = @ - 1]
          /\ receipts' = receipts \/ receipts' = Append(receipts, e)
          /\ UNCHANGED <<now, history, cache, call>>
      BY <2>13 DEF WriteReceipt, LoseReceipt
    <3> HIDE DEF x, e
    <3>3. pending' \in [Apps \X AllTools -> Nat]
      BY <3>1, <3>2
    <3>4. receipts' \in Seq(Receipt)
      <4>1. receipts \in Seq(Receipt)
        OBVIOUS
      <4>2. Append(receipts, e) \in Seq(Receipt)
        BY <3>1, <4>1
      <4> QED
        BY <3>2, <4>1, <4>2
    <3> QED
      BY <3>2, <3>3, <3>4
  <2>14. CASE Tick
    BY <2>14, GateAssumption, GleipnirAssumption DEF Tick, Times
  <2>15. CASE UNCHANGED vars
    BY <2>15 DEF vars
  <2> QED
    BY <2>1, <2>2, <2>3, <2>4, <2>5, <2>6, <2>7, <2>8, <2>9, <2>10, <2>11, <2>12, <2>13,
       <2>14, <2>15 DEF Next
<1> QED
  BY <1>1, <1>2, PTL DEF Spec

-----------------------------------------------------------------------------
\* The steps of the gate are the limiter's or leave it alone, so that what is
\* proved of the limiter holds in the gate.
LEMMA GateDrivesLimiter == Spec => Limiter!Spec
<1>1. Init => Limiter!Init
  BY GateAssumption DEF Init, Limiter!Init, Limiter!Times, Times
<1>2. OwnTypes /\ [Next]_vars => [Limiter!Next]_(Limiter!vars)
  <2> SUFFICES ASSUME OwnTypes, [Next]_vars
               PROVE  Limiter!Next \/ UNCHANGED <<now, log, calls>>
    BY DEF Limiter!vars
  <2>1. CASE UNCHANGED vars
    BY <2>1 DEF vars
  <2>2. ASSUME NEW s \in Slots, Rate(s)
        PROVE  Limiter!Next
    <3>1. PICK v \in Limiter!Verdicts : Limiter!Check(call[s].app, v)
      BY <2>2 DEF Rate
    <3>2. call[s].app \in Apps
      BY <2>2, CallTyped DEF Rate
    <3> QED
      BY <3>1, <3>2 DEF Limiter!Next
  <2>3. CASE Tick
    <3>1. now' \in {t \in Times : t > now} /\ log' = log /\ calls' = calls
      BY <2>3, GateAssumption, GleipnirAssumption DEF Tick, OwnTypes, Times
    <3> QED
      BY <3>1 DEF Limiter!Next, Limiter!Tick, Limiter!Times, Times
  <2> QED
    BY <2>1, <2>2, <2>3
       DEF Next, limiter, Begin, ReadCache, Query, QueryFails, StoreCache, Judge, Admit,
           Refuse, Run, Raise, PolicyPut, PolicyDelete, Commit, DropCache, WriteReceipt, LoseReceipt
<1> QED
  BY <1>1, <1>2, GateTypes, PTL DEF Spec, Limiter!Spec

(* Behind the gate a call is denied exactly when HardLimit calls of its
   application came before it inside the window. *)
THEOREM GateThrottled == Spec => []Throttled
<1>1. Limiter!GleipnirAssumption
  BY GleipnirAssumption DEF Limiter!GleipnirAssumption
<1>2. Proved!Spec => []Proved!Sliding
  BY Proved!GleipnirSliding, <1>1
<1>3. Limiter!Init => Proved!Init
  BY DEF Limiter!Init, Proved!Init, Limiter!Times, Proved!Times
<1>4. [Limiter!Next]_(Limiter!vars) => [Proved!Next]_(Proved!vars)
  BY DEF Limiter!Next, Proved!Next, Limiter!vars, Proved!vars, Limiter!Check, Proved!Check,
     Limiter!Recent, Proved!Recent, Limiter!Verdict, Proved!Verdict, Limiter!Verdicts,
     Proved!Verdicts, Limiter!Stats, Proved!Stats, Limiter!Tick, Proved!Tick,
     Limiter!Times, Proved!Times
<1>5. Proved!Sliding => Throttled
  BY DEF Throttled, Limiter!Sliding, Proved!Sliding
<1> QED
  BY <1>2, <1>3, <1>4, <1>5, GateDrivesLimiter, PTL
     DEF Limiter!Spec, Proved!Spec

(* Type correctness of the gate and its limiter. *)
THEOREM GateTypeOK == Spec => []TypeOK
<1>1. Limiter!GleipnirAssumption
  BY GleipnirAssumption DEF Limiter!GleipnirAssumption
<1>2. Proved!Spec => []Proved!TypeOK
  BY Proved!GleipnirTypeOK, <1>1
<1>3. Limiter!Init => Proved!Init
  BY DEF Limiter!Init, Proved!Init, Limiter!Times, Proved!Times
<1>4. [Limiter!Next]_(Limiter!vars) => [Proved!Next]_(Proved!vars)
  BY DEF Limiter!Next, Proved!Next, Limiter!vars, Proved!vars, Limiter!Check, Proved!Check,
     Limiter!Recent, Proved!Recent, Limiter!Verdict, Proved!Verdict, Limiter!Verdicts,
     Proved!Verdicts, Limiter!Stats, Proved!Stats, Limiter!Tick, Proved!Tick,
     Limiter!Times, Proved!Times
<1>5. Proved!TypeOK => Limiter!TypeOK
  BY DEF Limiter!TypeOK, Proved!TypeOK, Limiter!Times, Proved!Times, Limiter!Verdicts,
     Proved!Verdicts
<1>6. OwnTypes /\ Limiter!TypeOK => TypeOK
  BY DEF OwnTypes, TypeOK
<1> QED
  BY <1>2, <1>3, <1>4, <1>5, <1>6, GateTypes, GateDrivesLimiter, PTL
     DEF Limiter!Spec, Proved!Spec

-----------------------------------------------------------------------------
\* When a version of the rules went out of force: at the next one's time.
Since(v) == history[v].at

Past ==
    /\ \A v \in 1..Newest : Since(v) <= now /\ Since(v) \in Nat
    /\ cache.ts <= now

\* Rules the cache has were in force one query before its time.
CacheRecent ==
    /\ cache.version <= Newest
    /\ cache.version < Newest => cache.ts - Since(cache.version + 1) <= MaxQuery

\* Rules a call has read from the table are still in force at the time it read
\* them; those it goes by are InForce.
Recent(s) ==
    /\ call[s].at \in {"store", "judge"} =>
        /\ call[s].version <= Newest
        /\ call[s].read <= now
    /\ call[s].at = "store" =>
        /\ now - call[s].read <= MaxQuery
        /\ call[s].version < Newest => call[s].read <= Since(call[s].version + 1)
    /\ call[s].at = "judge" /\ call[s].version < Newest =>
        call[s].read - Since(call[s].version + 1) < CacheTTL + MaxQuery

ForceInv == OwnTypes /\ Past /\ CacheRecent /\ \A s \in Slots : Recent(s)

\* A step that moves one call, and neither the rules, the cache nor the clock.
LEMMA OneCall ==
    ASSUME ForceInv, NEW s \in Slots, UNCHANGED <<now, history, cache>>,
           \A u \in Slots \ {s} : call'[u] = call[u], Recent(s)'
    PROVE  Past' /\ CacheRecent' /\ \A u \in Slots : Recent(u)'
<1>1. Past' /\ CacheRecent'
  BY DEF ForceInv, Past, CacheRecent, Since, Newest
<1>2. ASSUME NEW u \in Slots \ {s}
      PROVE  Recent(u)'
  BY <1>2 DEF ForceInv, Recent, Since, Newest
<1> QED
  BY <1>1, <1>2

\* Nothing is asked of a call that neither stores nor judges.
LEMMA Elsewhere ==
    ASSUME ForceInv, NEW s \in Slots, call[s].at # "idle",
           \/ \E p \in Places \ {"store", "judge"} : Move(s, p)
           \/ Leave(s)
           \/ Pass(s)
    PROVE  /\ \A u \in Slots \ {s} : call'[u] = call[u]
           /\ Recent(s)'
<1>1. call \in [Slots -> Call \cup {NoCall}]
  BY DEF ForceInv, OwnTypes
<1>2. CASE Leave(s)
  <2>1. call'[s] = NoCall
    BY <1>1, <1>2 DEF Leave
  <2>2. call'[s].at = "idle"
    BY <2>1 DEF NoCall
  <2> QED
    BY <1>1, <1>2, <2>2 DEF Recent, Leave, NoCall
<1>3. ASSUME NEW p \in Places \ {"store", "judge"}, Move(s, p)
      PROVE  (\A u \in Slots \ {s} : call'[u] = call[u]) /\ Recent(s)'
  <2>1. \A u \in Slots \ {s} : call'[u] = call[u]
    BY <1>1, <1>3 DEF Move
  <2>2. call[s] \in Call
    BY CallTyped DEF ForceInv
  <2>3. call'[s] = [call[s] EXCEPT !.at = p]
    BY <1>1, <1>3 DEF Move
  <2>4. call'[s].at = p
    BY <2>2, <2>3 DEF Call
  <2> QED
    BY <2>1, <2>4 DEF Recent
<1>4. CASE Pass(s)
  <2>1. call[s] \in Call
    BY CallTyped DEF ForceInv
  <2>2. call'[s].at = "rate" /\ \A u \in Slots \ {s} : call'[u] = call[u]
    BY <1>1, <1>4, <2>1 DEF Pass, Call
  <2> QED
    BY <2>2 DEF Recent
<1> QED
  BY <1>2, <1>3, <1>4

\* The cache is stored with rules that were in force when they were read.
LEMMA StoreRecent ==
    ASSUME ForceInv, NEW s \in Slots, StoreCache(s)
    PROVE  Past' /\ CacheRecent' /\ \A u \in Slots : Recent(u)'
<1> DEFINE v == call[s].version
           t == Since(v + 1)
<1>1. /\ cache' = [version |-> v, ts |-> now]
      /\ now' = now /\ history' = history
      /\ call[s].at = "store"
      /\ call' = [call EXCEPT ![s] = [call[s] EXCEPT !.at = "judge"]]
  BY DEF StoreCache, Move, limiter
<1>2. call[s] \in Call /\ v \in Nat /\ call[s].read \in Nat
  BY <1>1, CallTyped DEF ForceInv, Versions, Times
<1>3. call'[s].at = "judge" /\ call'[s].version = v /\ call'[s].read = call[s].read
  BY <1>1, <1>2 DEF ForceInv, OwnTypes, Call
<1>4. \A u \in Slots \ {s} : call'[u] = call[u]
  BY <1>1 DEF ForceInv, OwnTypes
<1>5. /\ v <= Newest /\ now - call[s].read <= MaxQuery /\ call[s].read <= now
      /\ v < Newest => call[s].read <= t
  BY <1>1 DEF ForceInv, Recent
<1>6. now \in Nat /\ Newest \in Nat /\ MaxQuery \in Nat /\ CacheTTL \in Nat \ {0}
  BY GateAssumption DEF ForceInv, OwnTypes, Newest, Times
<1>7. v < Newest => t \in Nat
  BY <1>2, <1>6 DEF ForceInv, Past
<1>8. cache'.version = v /\ cache'.ts = now
  BY <1>1
<1>9. v < Newest => now - t <= MaxQuery /\ call[s].read - t < CacheTTL + MaxQuery
  <2> DEFINE r == call[s].read
  <2> HIDE DEF t, r
  <2> QED
    BY <1>2, <1>5, <1>6, <1>7 DEF r
<1>10. Newest' = Newest /\ \A n : Since(n)' = Since(n)
  BY <1>1 DEF Newest, Since
<1>11. Past'
  BY <1>1, <1>6, <1>8, <1>10 DEF ForceInv, Past
<1>12. CacheRecent'
  BY <1>5, <1>8, <1>9, <1>10 DEF CacheRecent
<1>13. Recent(s)'
  BY <1>1, <1>3, <1>5, <1>9, <1>10 DEF Recent
<1>14. ASSUME NEW u \in Slots \ {s}
       PROVE  Recent(u)'
  BY <1>1, <1>4, <1>10 DEF ForceInv, Recent
<1> QED
  BY <1>11, <1>12, <1>13, <1>14

\* New rules go into force now, after everything that was read.
LEMMA CommitRecent ==
    ASSUME ForceInv, NEW s \in Slots, call[s].at = "run", NEW rules \in Policies,
           Commit(s, rules)
    PROVE  Past' /\ CacheRecent' /\ \A u \in Slots : Recent(u)'
<1>1. /\ Newest' = Newest + 1
      /\ \A v \in 1..Newest : history'[v].at = Since(v)
      /\ history'[Newest + 1].at = now
  <2>1. /\ Len(history') = Len(history) + 1
        /\ \A v \in 1..Len(history) : history'[v] = history[v]
        /\ history'[Len(history) + 1].at = now
    BY CommitTyped DEF ForceInv
  <2> QED
    BY <2>1 DEF Since, Newest
<1>2. now' = now /\ cache' = cache /\ Move(s, "drop")
  BY DEF Commit, limiter
<1>3. now \in Nat /\ Newest \in Nat /\ MaxQuery \in Nat /\ CacheTTL \in Nat \ {0}
  BY GateAssumption DEF ForceInv, OwnTypes, Newest, Times
<1>4. cache.version \in Nat /\ cache.ts \in Nat
  BY DEF ForceInv, OwnTypes, Versions, Times
<1> HIDE DEF Newest
<1>5. ASSUME NEW v \in Nat, v < Newest
      PROVE  v + 1 \in 1..Newest /\ history'[v + 1].at = Since(v + 1)
  BY <1>1, <1>3, <1>5
<1>6. Past'
  <2>1. ASSUME NEW v \in 1..(Newest + 1)
        PROVE  history'[v].at <= now /\ history'[v].at \in Nat
    <3>1. CASE v = Newest + 1
      BY <1>1, <1>3, <3>1
    <3>2. CASE v # Newest + 1
      <4>1. v \in 1..Newest
        BY <1>3, <3>2
      <4> QED
        BY <1>1, <4>1 DEF ForceInv, Past, Since
    <3> QED
      BY <3>1, <3>2
  <2> QED
    BY <1>1, <1>2, <2>1 DEF ForceInv, Past, Since
<1>7. CacheRecent'
  <2>1. CASE cache.version < Newest
    BY <1>1, <1>2, <1>3, <1>4, <1>5, <2>1 DEF ForceInv, CacheRecent, Since
  <2>2. CASE cache.version = Newest
    <3>1. cache.ts - now <= MaxQuery
      BY <1>3, <1>4 DEF ForceInv, Past
    <3> QED
      BY <1>1, <1>2, <1>3, <2>2, <3>1 DEF CacheRecent, Since
  <2> QED
    BY <1>3, <1>4, <2>1, <2>2 DEF ForceInv, CacheRecent
<1>8. (\A u \in Slots \ {s} : call'[u] = call[u]) /\ Recent(s)'
  BY <1>2, Elsewhere DEF Places
<1>9. ASSUME NEW u \in Slots \ {s}
      PROVE  Recent(u)'
  <2> DEFINE v == call[u].version
             r == call[u].read
  <2>1. call'[u] = call[u]
    BY <1>8
  <2>2. CASE call[u].at \in {"store", "judge"}
    <3>1. v \in Nat /\ r \in Nat
      BY <2>2, CallTyped DEF ForceInv, Versions, Times
    <3>2. v <= Newest /\ r <= now
      BY <2>2 DEF ForceInv, Recent
    <3>3. v < Newest => history'[v + 1].at = Since(v + 1)
      BY <1>5, <3>1
    <3>4. v = Newest => history'[v + 1].at = now
      BY <1>1
    <3>5. v < Newest \/ v = Newest
      BY <1>3, <3>1, <3>2
    <3>6. r - now < CacheTTL + MaxQuery
      <4> HIDE DEF r
      <4> QED
        BY <1>3, <3>1, <3>2
    <3>7. v <= Newest + 1
      BY <1>3, <3>1, <3>2
    <3> QED
      BY <1>1, <1>2, <2>1, <2>2, <3>2, <3>3, <3>4, <3>5, <3>6, <3>7 DEF ForceInv, Recent, Since
  <2>3. CASE call[u].at \notin {"store", "judge"}
    BY <2>1, <2>3 DEF Recent
  <2> QED
    BY <2>2, <2>3
<1> QED
  BY <1>6, <1>7, <1>8, <1>9

(* A call is judged by rules that were in force less than CacheTTL + MaxQuery
   ago (middleware.py: _get_cached_policy_rules). *)
THEOREM GateInForce == Spec => []InForce
<1>1. Init => Past /\ CacheRecent /\ \A s \in Slots : Recent(s)
  <2> SUFFICES ASSUME Init
               PROVE  Past /\ CacheRecent /\ \A s \in Slots : Recent(s)
    OBVIOUS
  <2>1. PICK p \in Policies : history = <<[rules |-> p, at |-> 0, clean |-> 1]>>
    BY DEF Init
  <2>2. Newest = 1 /\ Since(1) = 0
    BY <2>1 DEF Newest, Since
  <2>3. now \in Nat /\ MaxQuery \in Nat /\ cache.version = 0 /\ cache.ts = 0
    BY GateAssumption DEF Init, Times
  <2>4. \A s \in Slots : call[s].at = "idle"
    BY DEF Init, NoCall
  <2> HIDE DEF Newest, Since
  <2> QED
    BY <2>2, <2>3, <2>4 DEF Past, CacheRecent, Recent
<1>2. ForceInv /\ OwnTypes' /\ [Next]_vars => Past' /\ CacheRecent' /\ \A s \in Slots : Recent(s)'
  <2> SUFFICES ASSUME ForceInv, [Next]_vars
               PROVE  Past' /\ CacheRecent' /\ \A s \in Slots : Recent(s)'
    OBVIOUS
  <2> DEFINE Goal == Past' /\ CacheRecent' /\ \A u \in Slots : Recent(u)'
  <2>0. /\ now \in Nat /\ Newest \in Nat /\ MaxQuery \in Nat /\ CacheTTL \in Nat \ {0}
        /\ call \in [Slots -> Call \cup {NoCall}]
        /\ cache.version \in Nat /\ cache.ts \in Nat
    BY GateAssumption DEF ForceInv, OwnTypes, Newest, Times, Versions
  <2>1. ASSUME NEW s \in Slots, NEW a \in Apps, NEW t \in AllTools, Begin(s, a, t)
        PROVE  Goal
    <3>1. call'[s].at = "policy" /\ \A u \in Slots \ {s} : call'[u] = call[u]
      BY <2>0, <2>1 DEF Begin
    <3>2. Recent(s)'
      BY <3>1 DEF Recent
    <3> QED
      BY <2>1, <3>1, <3>2, OneCall DEF Begin, limiter
  <2>2. ASSUME NEW s \in Slots, ReadCache(s)
        PROVE  Goal
    <3>1. /\ call[s] \in Call
          /\ UNCHANGED <<now, history, cache>>
      BY <2>2, CallTyped DEF ForceInv, ReadCache, limiter
    <3>2. /\ call'[s].at = IF Fresh THEN "judge" ELSE "query"
          /\ call'[s].version = IF Fresh THEN cache.version ELSE 0
          /\ Fresh => call'[s].read = now
          /\ \A u \in Slots \ {s} : call'[u] = call[u]
      BY <2>0, <2>2, <3>1 DEF ReadCache, Call
    <3>3. CASE Fresh
      <4> DEFINE v == cache.version
                 t == Since(v + 1)
      <4>1. v <= Newest /\ (v < Newest => cache.ts - t <= MaxQuery /\ t \in Nat)
        BY <2>0 DEF ForceInv, CacheRecent, Past
      <4>2. now - cache.ts < CacheTTL
        BY <3>3 DEF Fresh
      <4>3. v < Newest => now - t < CacheTTL + MaxQuery
        <5> DEFINE c == cache.ts
        <5> HIDE DEF t, c
        <5> QED
          BY <2>0, <4>1, <4>2 DEF c
      <4>4. Recent(s)'
        BY <2>0, <3>1, <3>2, <3>3, <4>1, <4>3 DEF Recent, Since, Newest
      <4> QED
        BY <3>1, <3>2, <4>4, OneCall
    <3>4. CASE ~Fresh
      <4>1. Recent(s)'
        BY <3>2, <3>4 DEF Recent
      <4> QED
        BY <3>1, <3>2, <4>1, OneCall
    <3> QED
      BY <3>3, <3>4
  <2>3. ASSUME NEW s \in Slots, Query(s)
        PROVE  Goal
    <3>1. /\ call[s] \in Call
          /\ UNCHANGED <<now, history, cache>>
      BY <2>3, CallTyped DEF ForceInv, Query, limiter
    <3>2. /\ call'[s].at = "store" /\ call'[s].version = Newest /\ call'[s].read = now
          /\ \A u \in Slots \ {s} : call'[u] = call[u]
      BY <2>0, <2>3, <3>1 DEF Query, Call
    <3>3. Newest' = Newest
      BY <3>1 DEF Newest
    <3>4. Recent(s)'
      BY <2>0, <3>1, <3>2, <3>3 DEF Recent
    <3> QED
      BY <3>1, <3>2, <3>4, OneCall
  <2>4. ASSUME NEW s \in Slots, StoreCache(s)
        PROVE  Goal
    BY <2>4, StoreRecent
  <2>5. ASSUME NEW s \in Slots, \/ QueryFails(s) \/ Judge(s) \/ Admit(s)
                            \/ Refuse(s) \/ Run(s) \/ Raise(s)
        PROVE  Goal
    <3>1. /\ call[s].at # "idle"
          /\ Leave(s) \/ Pass(s) \/ Move(s, "run")
          /\ UNCHANGED <<now, history, cache>>
      BY <2>5 DEF QueryFails, Judge, Admit, Refuse, Run, Raise, Ends, limiter
    <3> QED
      BY <3>1, Elsewhere, OneCall DEF Places
  <2>6. ASSUME NEW s \in Slots, Rate(s)
        PROVE  Goal
    <3>1. /\ call[s].at # "idle"
          /\ Leave(s) \/ Move(s, "auth")
          /\ UNCHANGED <<now, history, cache>>
      BY <2>6 DEF Rate, Limiter!Check
    <3> QED
      BY <3>1, Elsewhere, OneCall DEF Places
  <2>7. ASSUME NEW s \in Slots, PolicyPut(s)
        PROVE  Goal
    <3>1. PICK r \in Rules : Commit(s, Others(r.name) \cup {r})
      BY <2>7 DEF PolicyPut
    <3>2. Others(r.name) \cup {r} \in Policies
      BY RulesTyped DEF Others, Policies, ForceInv
    <3> QED
      BY <2>7, <3>1, <3>2, CommitRecent DEF PolicyPut
  <2>8. ASSUME NEW s \in Slots, PolicyDelete(s)
        PROVE  Goal
    <3>1. PICK n \in Names : Commit(s, Others(n))
      BY <2>8 DEF PolicyDelete
    <3>2. Others(n) \in Policies
      BY RulesTyped DEF Others, Policies, ForceInv
    <3> QED
      BY <2>8, <3>1, <3>2, CommitRecent DEF PolicyDelete
  <2>9. ASSUME NEW s \in Slots, DropCache(s)
        PROVE  Goal
    <3>1. /\ call[s].at # "idle" /\ Leave(s)
          /\ now' = now /\ history' = history
          /\ cache'.version = cache.version /\ cache'.ts = 0
      BY <2>9 DEF DropCache, Ends, limiter, ForceInv, OwnTypes
    <3>2. Newest' = Newest /\ \A n : Since(n)' = Since(n)
      BY <3>1 DEF Newest, Since
    <3>3. Past'
      BY <2>0, <3>1, <3>2 DEF ForceInv, Past
    <3>4. CacheRecent'
      <4> DEFINE t == Since(cache.version + 1)
      <4>1. cache.version < Newest => t \in Nat
        BY <2>0 DEF ForceInv, Past
      <4>2. cache.version < Newest => 0 - t <= MaxQuery
        <5> HIDE DEF t
        <5> QED
          BY <2>0, <4>1
      <4> QED
        BY <2>0, <3>1, <3>2, <4>2 DEF ForceInv, CacheRecent
    <3>5. (\A u \in Slots \ {s} : call'[u] = call[u]) /\ Recent(s)'
      BY <3>1, Elsewhere
    <3>6. ASSUME NEW u \in Slots \ {s}
          PROVE  Recent(u)'
      BY <3>1, <3>2, <3>5 DEF ForceInv, Recent
    <3> QED
      BY <3>3, <3>4, <3>5, <3>6
  <2>10. ASSUME NEW a \in Apps, NEW t \in AllTools, WriteReceipt(a, t) \/ LoseReceipt(a, t)
         PROVE  Goal
    <3>1. UNCHANGED <<now, history, cache, call>>
      BY <2>10 DEF WriteReceipt, LoseReceipt, limiter
    <3> QED
      BY <3>1 DEF ForceInv, Past, CacheRecent, Recent, Since, Newest
  <2>11. CASE Tick
    <3>1. /\ now' = now + 1 /\ UNCHANGED <<history, cache, call>>
          /\ \A s \in Slots : call[s].at = "store" => now - call[s].read < MaxQuery
      BY <2>11 DEF Tick
    <3>2. Newest' = Newest /\ \A n : Since(n)' = Since(n)
      BY <3>1 DEF Newest, Since
    <3>3. Past' /\ CacheRecent'
      BY <2>0, <3>1, <3>2 DEF ForceInv, Past, CacheRecent
    <3>4. ASSUME NEW s \in Slots
          PROVE  Recent(s)'
      <4> DEFINE r == call[s].read
      <4>1. call[s].at \in {"store", "judge"} => r \in Nat
        BY CallTyped DEF ForceInv, Times
      <4>2. call[s].at = "store" => now' - r <= MaxQuery
        <5>1. call[s].at = "store" => now - r < MaxQuery
          BY <3>1
        <5> HIDE DEF r
        <5> QED
          BY <2>0, <3>1, <4>1, <5>1
      <4>3. call[s].at \in {"store", "judge"} => r <= now + 1
        <5>1. call[s].at \in {"store", "judge"} => r <= now
          BY DEF ForceInv, Recent
        <5> HIDE DEF r
        <5> QED
          BY <2>0, <4>1, <5>1
      <4>4. Recent(s)
        BY DEF ForceInv
      <4>5. call'[s] = call[s] /\ history' = history /\ now' = now + 1
        BY <3>1
      <4>6. (call[s].at \in {"store", "judge"} =>
                call[s].version <= Newest /\ call[s].read <= now)'
        BY <4>3, <4>4, <4>5 DEF Recent, Newest
      <4>7. (call[s].at = "store" => now - call[s].read <= MaxQuery)'
        BY <4>2, <4>5
      <4>9. (call[s].at = "store" =>
                (call[s].version < Newest => call[s].read <= Since(call[s].version + 1)))'
        BY <4>4, <4>5 DEF Recent, Newest, Since
      <4>8. (call[s].at = "judge" /\ call[s].version < Newest =>
                call[s].read - Since(call[s].version + 1) < CacheTTL + MaxQuery)'
        BY <4>4, <4>5 DEF Recent, Newest, Since
      <4> QED
        BY <4>6, <4>7, <4>8, <4>9 DEF Recent
    <3> QED
      BY <3>3, <3>4
  <2>12. CASE UNCHANGED vars
    BY <2>12 DEF vars, ForceInv, Past, CacheRecent, Recent, Since, Newest
  <2> QED
    BY <2>1, <2>2, <2>3, <2>4, <2>5, <2>6, <2>7, <2>8, <2>9, <2>10, <2>11, <2>12 DEF Next
<1>3. ForceInv => InForce
  BY DEF ForceInv, Recent, InForce, Since
<1> QED
  <2>1. Init /\ OwnTypes => ForceInv
    BY <1>1 DEF ForceInv
  <2>2. ForceInv /\ OwnTypes' /\ [Next]_vars => ForceInv'
    BY <1>2 DEF ForceInv
  <2> QED
    BY <1>3, <2>1, <2>2, GateTypes, PTL DEF Spec

-----------------------------------------------------------------------------
\* Rules that are being stored are no older than the clean ones, and rules in the
\* cache that are older than those a call knows look old when it reads them.
CacheClean ==
    /\ Clean <= Newest
    /\ \/ cache.version >= Clean
       \/ cache.ts = 0
       \/ \E s \in Slots : call[s].at = "drop"

CallClean(s) ==
    /\ call[s].at = "store" => call[s].version >= Clean
    /\ call[s].at \in {"policy", "query", "store"} => call[s].known <= Clean
    /\ call[s].at = "policy" => cache.ts = 0 \/ cache.version >= call[s].known
    /\ call[s].at = "judge" /\ call[s].read >= CacheTTL => call[s].version >= call[s].known

CleanInv == CacheClean /\ \A s \in Slots : CallClean(s)

\* The numbers these are about.
LEMMA CleanNumbers ==
    ASSUME OwnTypes
    PROVE  /\ now \in Nat /\ Newest \in Nat \ {0} /\ Clean \in Nat
           /\ cache.version \in Nat /\ cache.ts \in Nat /\ CacheTTL \in Nat
           /\ \A s \in Slots : call[s].at # "idle" =>
                 call[s].version \in Nat /\ call[s].known \in Nat /\ call[s].read \in Nat
BY GateAssumption, CallTyped, CleanTyped DEF OwnTypes, Newest, Times, Versions

\* A step that moves one call, no change of rules, and neither rules nor cache.
LEMMA OneCallClean ==
    ASSUME CleanInv, NEW s \in Slots, UNCHANGED <<history, cache>>, call[s].at # "drop",
           \A u \in Slots \ {s} : call'[u] = call[u], CallClean(s)'
    PROVE  CleanInv'
<1>1. Clean' = Clean /\ Newest' = Newest
  BY DEF Clean, Newest
<1>2. CacheClean'
  BY <1>1 DEF CleanInv, CacheClean
<1>3. ASSUME NEW u \in Slots \ {s} PROVE CallClean(u)'
  BY <1>1 DEF CleanInv, CallClean
<1> QED
  BY <1>2, <1>3 DEF CleanInv

\* Rules a call read from the table, newer than what it knows, go to the cache.
LEMMA StoreClean ==
    ASSUME OwnTypes, CleanInv, NEW s \in Slots, StoreCache(s)
    PROVE  CleanInv'
<1>1. /\ call[s].at = "store" /\ call[s] \in Call
      /\ Clean' = Clean /\ Newest' = Newest
      /\ cache'.version = call[s].version
      /\ \A u \in Slots \ {s} : call'[u] = call[u]
      /\ call' = [call EXCEPT ![s] = [call[s] EXCEPT !.at = "judge"]]
  BY CallTyped DEF StoreCache, Move, Clean, Newest, OwnTypes
<1>2. /\ call'[s].at = "judge" /\ call'[s].version = call[s].version
      /\ call'[s].known = call[s].known
  BY <1>1 DEF Call, OwnTypes
<1>3. call[s].version >= Clean /\ call[s].known <= Clean
  BY <1>1 DEF CleanInv, CallClean
<1>4. CallClean(s)'
  BY <1>1, <1>2, <1>3, CleanNumbers DEF CallClean
<1>5. CacheClean'
  BY <1>1, <1>3 DEF CleanInv, CacheClean
<1>6. ASSUME NEW u \in Slots \ {s} PROVE CallClean(u)'
  BY <1>1, <1>3, CleanNumbers DEF CleanInv, CallClean
<1> QED
  BY <1>4, <1>5, <1>6 DEF CleanInv

\* New rules: nothing older is on its way to the cache, or they are not clean.
LEMMA CommitClean ==
    ASSUME OwnTypes, CleanInv, NEW s \in Slots, call[s].at = "run", NEW rules \in Policies,
           Commit(s, rules)
    PROVE  CleanInv'
<1>1. /\ Newest' = Newest + 1
      /\ Clean' = IF \E u \in Slots : call[u].at = "store" THEN Clean ELSE Newest + 1
  BY CommitTyped DEF Newest, Clean
<1>2. cache' = cache /\ call' = [call EXCEPT ![s] = [call[s] EXCEPT !.at = "drop"]]
  BY DEF Commit, Move
<1>3. call'[s].at = "drop" /\ \A u \in Slots \ {s} : call'[u] = call[u]
  BY <1>2, CallTyped DEF OwnTypes, Call
<1>4. Clean' <= Newest' /\ Clean <= Clean'
  BY <1>1, CleanNumbers DEF CleanInv, CacheClean
<1>5. CacheClean'
  BY <1>3, <1>4 DEF CacheClean
<1>6. ASSUME NEW u \in Slots \ {s} PROVE CallClean(u)'
  <2>1. call[u].at = "store" => Clean' = Clean
    BY <1>1
  <2>2. call[u].at # "idle" => call[u].known \in Nat
    BY CleanNumbers
  <2>3. Clean \in Nat /\ Clean' \in Nat
    BY <1>1, CleanNumbers
  <2>4. CallClean(u)
    BY DEF CleanInv
  <2> QED
    BY <1>2, <1>3, <1>4, <2>1, <2>2, <2>3, <2>4 DEF CallClean
<1>7. CallClean(s)'
  BY <1>3 DEF CallClean
<1> QED
  BY <1>5, <1>6, <1>7 DEF CleanInv

(* New rules take effect immediately (sap_mcp.py:2301), for any number of calls
   in any order, when no older ones were on their way to the cache and the clock
   has come past CacheTTL. *)
THEOREM GateImmediate == Spec => []Immediate
<1>1. Init => CleanInv
  <2> SUFFICES ASSUME Init
               PROVE  CleanInv
    OBVIOUS
  <2>1. PICK p \in Policies : history = <<[rules |-> p, at |-> 0, clean |-> 1]>>
    BY DEF Init
  <2>2. Newest = 1 /\ Clean = 1
    BY <2>1 DEF Newest, Clean
  <2>3. cache.ts = 0 /\ \A s \in Slots : call[s].at = "idle"
    BY DEF Init, NoCall
  <2> QED
    BY <2>2, <2>3 DEF CleanInv, CacheClean, CallClean
<1>2. CleanInv /\ OwnTypes /\ OwnTypes' /\ [Next]_vars => CleanInv'
  <2> SUFFICES ASSUME CleanInv, OwnTypes, OwnTypes', [Next]_vars
               PROVE  CleanInv'
    OBVIOUS
  <2>0. /\ call \in [Slots -> Call \cup {NoCall}]
        /\ UNCHANGED history => Clean' = Clean /\ Newest' = Newest
    BY DEF OwnTypes, Clean, Newest
  <2>1. ASSUME NEW s \in Slots, NEW a \in Apps, NEW t \in AllTools, Begin(s, a, t)
        PROVE  CleanInv'
    <3>1. /\ call[s].at = "idle" /\ UNCHANGED <<history, cache>>
          /\ \A u \in Slots \ {s} : call'[u] = call[u]
      BY <2>0, <2>1 DEF Begin, NoCall
    <3>2. /\ call'[s].at = "policy"
          /\ call'[s].known = IF \E u \in Slots : call[u].at = "drop" THEN 0 ELSE Clean
      BY <2>0, <2>1 DEF Begin
    <3>3. CallClean(s)'
      BY <2>0, <3>1, <3>2, CleanNumbers DEF CallClean, CleanInv, CacheClean
    <3> QED
      BY <3>1, <3>3, OneCallClean
  <2>2. ASSUME NEW s \in Slots, ReadCache(s)
        PROVE  CleanInv'
    <3>1. /\ call[s].at = "policy" /\ call[s] \in Call /\ UNCHANGED <<now, history, cache>>
          /\ \A u \in Slots \ {s} : call'[u] = call[u]
      BY <2>0, <2>2, CallTyped DEF ReadCache, limiter
    <3>2. /\ call'[s].at = IF Fresh THEN "judge" ELSE "query"
          /\ call'[s].version = IF Fresh THEN cache.version ELSE 0
          /\ call'[s].known = call[s].known
          /\ Fresh => call'[s].read = now
      BY <2>0, <2>2, <3>1 DEF ReadCache, Call
    <3>3. Fresh /\ now >= CacheTTL => cache.ts # 0
      BY CleanNumbers DEF Fresh
    <3>4. CallClean(s)
      BY DEF CleanInv
    <3>5. CallClean(s)'
      BY <2>0, <3>1, <3>2, <3>3, <3>4 DEF CallClean
    <3> QED
      BY <3>1, <3>5, OneCallClean
  <2>3. ASSUME NEW s \in Slots, Query(s)
        PROVE  CleanInv'
    <3>1. /\ call[s].at = "query" /\ call[s] \in Call /\ UNCHANGED <<history, cache>>
          /\ \A u \in Slots \ {s} : call'[u] = call[u]
      BY <2>0, <2>3, CallTyped DEF Query, limiter
    <3>2. /\ call'[s].at = "store" /\ call'[s].version = Newest
          /\ call'[s].known = call[s].known
      BY <2>0, <2>3, <3>1 DEF Query, Call
    <3>3. CallClean(s)'
      BY <2>0, <3>1, <3>2, CleanNumbers DEF CleanInv, CacheClean, CallClean
    <3> QED
      BY <3>1, <3>3, OneCallClean
  <2>4. ASSUME NEW s \in Slots,
               \/ QueryFails(s) \/ Judge(s) \/ Admit(s) \/ Refuse(s)
               \/ Run(s) \/ Raise(s) \/ Rate(s)
        PROVE  CleanInv'
    <3>1. /\ call[s].at \notin {"idle", "drop"} /\ UNCHANGED <<history, cache>>
          /\ Leave(s) \/ Pass(s) \/ Move(s, "run") \/ Move(s, "auth")
      BY <2>4 DEF QueryFails, Judge, Admit, Refuse, Run, Raise, Ends, Rate, Limiter!Check
    <3>2. call[s] \in Call
      BY <3>1, CallTyped
    <3>3. /\ \A u \in Slots \ {s} : call'[u] = call[u]
          /\ call'[s].at \in {"idle", "rate", "run", "auth"}
      BY <2>0, <3>1, <3>2 DEF Leave, Pass, Move, NoCall, Call
    <3>4. CallClean(s)'
      BY <3>3 DEF CallClean
    <3> QED
      BY <3>1, <3>3, <3>4, OneCallClean
  <2>5. ASSUME NEW s \in Slots, PolicyPut(s) \/ PolicyDelete(s)
        PROVE  CleanInv'
    <3>1. \A name : Others(name) \in Policies
      BY RulesTyped DEF Others, Policies
    <3>2. CASE PolicyPut(s)
      <4>1. PICK q \in Rules : Commit(s, Others(q.name) \cup {q})
        BY <3>2 DEF PolicyPut
      <4>2. Others(q.name) \cup {q} \in Policies
        BY <3>1 DEF Policies
      <4> QED
        BY <3>2, <4>1, <4>2, CommitClean DEF PolicyPut
    <3>3. CASE PolicyDelete(s)
      <4>1. PICK n \in Names : Commit(s, Others(n))
        BY <3>3 DEF PolicyDelete
      <4> QED
        BY <3>1, <3>3, <4>1, CommitClean DEF PolicyDelete
    <3> QED
      BY <2>5, <3>2, <3>3
  <2>6. ASSUME NEW s \in Slots, DropCache(s)
        PROVE  CleanInv'
    <3>1. /\ cache'.ts = 0 /\ UNCHANGED history
          /\ call' = [call EXCEPT ![s] = NoCall]
      BY <2>6 DEF DropCache, Ends, Leave, OwnTypes
    <3>2. call'[s].at = "idle" /\ \A u \in Slots \ {s} : call'[u] = call[u]
      BY <2>0, <3>1 DEF NoCall
    <3> QED
      BY <2>0, <3>1, <3>2 DEF CleanInv, CacheClean, CallClean
  <2>7. ASSUME UNCHANGED <<history, cache, call>>
        PROVE  CleanInv'
    BY <2>0, <2>7 DEF CleanInv, CacheClean, CallClean
  <2> QED
    BY <2>1, <2>2, <2>3, <2>4, <2>5, <2>6, <2>7, StoreClean
       DEF Next, WriteReceipt, LoseReceipt, Tick, vars
<1>3. CleanInv => Immediate
  <2> SUFFICES ASSUME CleanInv, NEW s \in Slots, call[s].at = "judge", call[s].read >= CacheTTL
               PROVE  call[s].version >= call[s].known
    BY DEF Immediate
  <2>1. CallClean(s)
    BY DEF CleanInv
  <2> QED
    BY <2>1 DEF CallClean
<1> QED
  BY <1>1, <1>2, <1>3, GateTypes, PTL DEF Spec
=============================================================================
