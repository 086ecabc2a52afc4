------------------------ MODULE PgConnectionsProofs ------------------------
(***************************************************************************)
(* Proofs about PgConnections for any threads, sizes and times, as long as *)
(* there is an identity left for a new connection: the model takes a fresh *)
(* one with CHOOSE, and a process does not run out of them.                *)
(***************************************************************************)
EXTENDS PgConnections, DataLemmas

\* Each connection has one place: a hand, a boot, the pool.
OnePlace ==
    /\ \A t \in Threads : held[t] # NoConn => held[t] \notin idle
    /\ \A t \in Threads : boot[t] # NoConn => boot[t] \notin idle
    /\ \A t, u \in Threads : held[t] # NoConn => held[t] # boot[u] /\ (u # t => held[t] # held[u])
    /\ \A t, u \in Threads : boot[t] # NoConn /\ u # t => boot[t] # boot[u]
    /\ idle \cap used = {}

\* What a thread may hold where it is.
Hands ==
    /\ \A t \in Threads : pc[t] \in {"succeeded", "in"} => held[t] # NoConn
    /\ \A t \in Threads : pc[t] \in {"out", "direct", "failed"} => held[t] = NoConn
    /\ \A t \in Threads : pc[t] \in {"pool", "create", "schema", "put", "take"} =>
            (goal[t] = "get" <=> held[t] = NoConn)
    /\ \A t \in Threads : pc[t] \notin {"schema", "put"} => boot[t] = NoConn
    /\ \A t \in Threads : pc[t] \in {"schema", "put"} => boot[t] # NoConn

\* A thread that found no pool holds nothing of a pool another thread has
\* created since.
Outside ==
    /\ ~ pooled => used = {}
    /\ \A t \in Threads : pc[t] \in {"schema", "put", "take"} => pooled
    /\ \A t \in Threads : pc[t] \in {"create", "schema", "put"} => held[t] \notin used

Typed ==
    /\ idle \subseteq Conns /\ used \subseteq Conns /\ pooled \in BOOLEAN
    /\ held \in [Threads -> Conns \cup {NoConn}]
    /\ boot \in [Threads -> Conns \cup {NoConn}]
    /\ pc \in [Threads -> Places]
    /\ goal \in [Threads -> {"get", "release", "renew"}]

IInv == Typed /\ OnePlace /\ Hands /\ Outside /\ Accounted

\* An identity is left for a new connection, and then it is nobody's.
Spare == Fresh # {}

LEMMA NewIsFresh ==
    ASSUME Spare
    PROVE  /\ NewConn \in Conns /\ NewConn # NoConn
           /\ NewConn \notin idle /\ NewConn \notin used
           /\ \A u \in Threads : held[u] # NewConn /\ boot[u] # NewConn
<1>1. NewConn \in Fresh
  BY DEF Spare, NewConn
<1> QED
  BY <1>1, PgAssumption DEF Fresh, Alive

LEMMA InitIInv == Init => IInv
BY PgAssumption DEF Init, IInv, Typed, OnePlace, Hands, Outside, Accounted, Places

-----------------------------------------------------------------------------
(* Steps of a thread that move no connection.                              *)

LEMMA Still ==
    ASSUME IInv, NEW t \in Threads, Ask(t) \/ Close(t) \/ Pool(t) \/ Succeed(t) \/ Fail(t) \/ Ensure(t)
    PROVE  IInv'
<1>1. CASE Ask(t)
  BY <1>1 DEF Ask, Goto, poolVars, IInv, Typed, OnePlace, Hands, Outside, Accounted, Places
<1>2. CASE Close(t)
  BY <1>2 DEF Close, Goto, poolVars, IInv, Typed, OnePlace, Hands, Outside, Accounted, Places
<1>3. CASE Pool(t)
  BY <1>3 DEF Pool, Goto, poolVars, IInv, Typed, OnePlace, Hands, Outside, Accounted, Places
<1>4. CASE Succeed(t)
  BY <1>4 DEF Succeed, Goto, poolVars, IInv, Typed, OnePlace, Hands, Outside, Accounted, Places
<1>5. CASE Fail(t)
  BY <1>5 DEF Fail, Goto, poolVars, IInv, Typed, OnePlace, Hands, Outside, Accounted, Places
<1>6. CASE Ensure(t)
  BY <1>6 DEF Ensure, Goto, poolVars, IInv, Typed, OnePlace, Hands, Outside, Accounted, Places
<1> QED
  BY <1>1, <1>2, <1>3, <1>4, <1>5, <1>6

(* Steps of a thread that give or take a connection.                       *)

LEMMA CreateKeeps == ASSUME IInv, Spare, NEW t \in Threads, Create(t) PROVE IInv'
<1>1. Typed'
  BY NewIsFresh DEF Create, Fallback, Released, Hold, Goto, poolVars, IInv, Typed, Places
<1>2. OnePlace'
  BY NewIsFresh DEF Create, Fallback, Released, Hold, Goto, poolVars, IInv, Typed, OnePlace, Hands
<1>3. Hands'
  BY NewIsFresh DEF Create, Fallback, Released, Hold, Goto, poolVars, IInv, Typed, OnePlace, Hands, Places
<1>4. Outside'
  BY NewIsFresh DEF Create, Fallback, Released, Hold, Goto, poolVars, IInv, Typed, OnePlace, Hands, Outside, Places
<1>5. Accounted'
  <2> SUFFICES ASSUME NEW c \in used' \ leaked' PROVE \E u \in Threads : c \in {held'[u], boot'[u]}
    BY DEF Accounted
  <2>1. CASE c \in used \ leaked
    <3>1. PICK u \in Threads : c \in {held[u], boot[u]}
      BY <2>1 DEF IInv, Accounted
    <3>2. CASE u # t
      BY <3>1, <3>2 DEF Create, Fallback, Released, Hold, Goto, poolVars, IInv, Typed
    <3>3. CASE u = t
      BY <2>1, <3>1, <3>3 DEF Create, Fallback, Released, Hold, Goto, poolVars, IInv, Typed, OnePlace, Hands, Outside
    <3> QED
      BY <3>2, <3>3
  <2>2. CASE ~(c \in used \ leaked)
    BY NewIsFresh, <2>2 DEF Create, Fallback, Released, Hold, Goto, poolVars, IInv, Typed
  <2> QED
    BY <2>1, <2>2
<1> QED
  BY <1>1, <1>2, <1>3, <1>4, <1>5 DEF IInv

LEMMA SchemaKeeps == ASSUME IInv, NEW t \in Threads, Schema(t) PROVE IInv'
<1>1. Typed'
  BY DEF Schema, Fallback, Released, Hold, Goto, serverVars, breakerVars, IInv, Typed, Places
<1>2. OnePlace'
  BY DEF Schema, Fallback, Released, Hold, Goto, serverVars, breakerVars, IInv, Typed, OnePlace, Hands
<1>3. Hands'
  BY DEF Schema, Fallback, Released, Hold, Goto, serverVars, breakerVars, IInv, Typed, OnePlace, Hands, Places
<1>4. Outside'
  BY DEF Schema, Fallback, Released, Hold, Goto, serverVars, breakerVars, IInv, Typed, OnePlace, Hands, Outside, Places
<1>5. Accounted'
  <2> SUFFICES ASSUME NEW c \in used' \ leaked' PROVE \E u \in Threads : c \in {held'[u], boot'[u]}
    BY DEF Accounted
  <2>1. CASE c \in used \ leaked
    <3>1. PICK u \in Threads : c \in {held[u], boot[u]}
      BY <2>1 DEF IInv, Accounted
    <3>2. CASE u # t
      BY <3>1, <3>2 DEF Schema, Fallback, Released, Hold, Goto, serverVars, breakerVars, IInv, Typed
    <3>3. CASE u = t
      BY <2>1, <3>1, <3>3 DEF Schema, Fallback, Released, Hold, Goto, serverVars, breakerVars, IInv, Typed, OnePlace, Hands, Outside
    <3> QED
      BY <3>2, <3>3
  <2>2. CASE ~(c \in used \ leaked)
    BY <2>2 DEF Schema, Fallback, Released, Hold, Goto, serverVars, breakerVars, IInv, Typed
  <2> QED
    BY <2>1, <2>2
<1> QED
  BY <1>1, <1>2, <1>3, <1>4, <1>5 DEF IInv

LEMMA PutKeeps == ASSUME IInv, NEW t \in Threads, Put(t) PROVE IInv'
<1>1. Typed'
  BY DEF Put, PutBack, Fallback, Released, Hold, Goto, serverVars, breakerVars, IInv, Typed, Places
<1>2. OnePlace'
  BY DEF Put, PutBack, Fallback, Released, Hold, Goto, serverVars, breakerVars, IInv, Typed, OnePlace, Hands
<1>3. Hands'
  BY DEF Put, PutBack, Fallback, Released, Hold, Goto, serverVars, breakerVars, IInv, Typed, OnePlace, Hands, Places
<1>4. Outside'
  BY DEF Put, PutBack, Fallback, Released, Hold, Goto, serverVars, breakerVars, IInv, Typed, OnePlace, Hands, Outside, Places
<1>5. Accounted'
  <2> SUFFICES ASSUME NEW c \in used' \ leaked' PROVE \E u \in Threads : c \in {held'[u], boot'[u]}
    BY DEF Accounted
  <2>1. CASE c \in used \ leaked
    <3>1. PICK u \in Threads : c \in {held[u], boot[u]}
      BY <2>1 DEF IInv, Accounted
    <3>2. CASE u # t
      BY <3>1, <3>2 DEF Put, PutBack, Fallback, Released, Hold, Goto, serverVars, breakerVars, IInv, Typed
    <3>3. CASE u = t
      BY <2>1, <3>1, <3>3 DEF Put, PutBack, Fallback, Released, Hold, Goto, serverVars, breakerVars, IInv, Typed, OnePlace, Hands, Outside
    <3> QED
      BY <3>2, <3>3
  <2>2. CASE ~(c \in used \ leaked)
    BY <2>2 DEF Put, PutBack, Fallback, Released, Hold, Goto, serverVars, breakerVars, IInv, Typed
  <2> QED
    BY <2>1, <2>2
<1> QED
  BY <1>1, <1>2, <1>3, <1>4, <1>5 DEF IInv

LEMMA TakeKeeps == ASSUME IInv, Spare, NEW t \in Threads, Take(t) PROVE IInv'
<1>1. Typed'
  BY NewIsFresh DEF Take, Obtain, Hold, Goto, breakerVars, IInv, Typed, Places
<1>2. OnePlace'
  BY NewIsFresh DEF Take, Obtain, Hold, Goto, breakerVars, IInv, Typed, OnePlace, Hands
<1>3. Hands'
  <2>1. CASE \E c \in Conns : Obtain(c) /\ Hold(t, c) /\ Goto(t, "succeeded")
    BY <2>1, PgAssumption DEF Take, Hold, Goto, breakerVars, IInv, Typed, Hands, Places
  <2>2. CASE ~ \E c \in Conns : Obtain(c) /\ Hold(t, c) /\ Goto(t, "succeeded")
    BY <2>2 DEF Take, Goto, breakerVars, IInv, Typed, Hands, Places
  <2> QED
    BY <2>1, <2>2
<1>4. Outside'
  <2>1. pooled /\ pooled' = pooled
    BY DEF Take, IInv, Outside
  <2>2. \A u \in Threads : u # t => pc'[u] = pc[u] /\ held'[u] = held[u]
    BY DEF Take, Hold, Goto, IInv, Typed
  <2>3. pc'[t] \in {"succeeded", "direct"}
    BY DEF Take, Goto, IInv, Typed
  <2>4. \A u \in Threads : held[u] \notin used => held[u] = NoConn \/ held[u] \notin used'
    BY NewIsFresh DEF Take, Obtain, IInv, OnePlace
  <2>5. NoConn \notin used'
    BY <1>1, PgAssumption DEF Typed
  <2> QED
    BY <2>1, <2>2, <2>3, <2>4, <2>5 DEF IInv, Outside
<1>5. Accounted'
  <2> SUFFICES ASSUME NEW c \in used' \ leaked' PROVE \E u \in Threads : c \in {held'[u], boot'[u]}
    BY DEF Accounted
  <2>1. CASE c \in used \ leaked
    <3>1. PICK u \in Threads : c \in {held[u], boot[u]}
      BY <2>1 DEF IInv, Accounted
    <3>2. CASE u # t
      BY <3>1, <3>2 DEF Take, Obtain, Hold, Goto, breakerVars, IInv, Typed
    <3>3. CASE u = t
      BY <2>1, <3>1, <3>3 DEF Take, Obtain, Hold, Goto, breakerVars, IInv, Typed, OnePlace, Hands, Outside
    <3> QED
      BY <3>2, <3>3
  <2>2. CASE ~(c \in used \ leaked)
    BY NewIsFresh, <2>2 DEF Take, Obtain, Hold, Goto, breakerVars, IInv, Typed
  <2> QED
    BY <2>1, <2>2
<1> QED
  BY <1>1, <1>2, <1>3, <1>4, <1>5 DEF IInv

LEMMA GiveBackKeeps == ASSUME IInv, NEW t \in Threads, GiveBack(t) PROVE IInv'
<1>1. Typed'
  BY DEF GiveBack, Returned, PutBack, Released, Hold, Goto, serverVars, breakerVars, IInv, Typed, Places
<1>2. OnePlace'
  BY DEF GiveBack, Returned, PutBack, Released, Hold, Goto, serverVars, breakerVars, IInv, Typed, OnePlace, Hands
<1>3. Hands'
  BY DEF GiveBack, Returned, PutBack, Released, Hold, Goto, serverVars, breakerVars, IInv, Typed, OnePlace, Hands, Places
<1>4. Outside'
  BY DEF GiveBack, Returned, PutBack, Released, Hold, Goto, serverVars, breakerVars, IInv, Typed, OnePlace, Hands, Outside, Places
<1>5. Accounted'
  <2> SUFFICES ASSUME NEW c \in used' \ leaked' PROVE \E u \in Threads : c \in {held'[u], boot'[u]}
    BY DEF Accounted
  <2>1. CASE c \in used \ leaked
    <3>1. PICK u \in Threads : c \in {held[u], boot[u]}
      BY <2>1 DEF IInv, Accounted
    <3>2. CASE u # t
      BY <3>1, <3>2 DEF GiveBack, Returned, PutBack, Released, Hold, Goto, serverVars, breakerVars, IInv, Typed
    <3>3. CASE u = t
      BY <2>1, <3>1, <3>3 DEF GiveBack, Returned, PutBack, Released, Hold, Goto, serverVars, breakerVars, IInv, Typed, OnePlace, Hands, Outside
    <3> QED
      BY <3>2, <3>3
  <2>2. CASE ~(c \in used \ leaked)
    BY <2>2 DEF GiveBack, Returned, PutBack, Released, Hold, Goto, serverVars, breakerVars, IInv, Typed
  <2> QED
    BY <2>1, <2>2
<1> QED
  BY <1>1, <1>2, <1>3, <1>4, <1>5 DEF IInv

LEMMA DirectKeeps == ASSUME IInv, Spare, NEW t \in Threads, Direct(t) PROVE IInv'
BY NewIsFresh DEF Direct, Hold, Goto, poolVars, IInv, Typed, OnePlace, Hands, Outside, Accounted, Places

-----------------------------------------------------------------------------
LEMMA NextKeeps == IInv /\ Spare /\ [Next]_vars => IInv'
<1> SUFFICES ASSUME IInv, Spare, [Next]_vars PROVE IInv'
  OBVIOUS
<1>1. ASSUME NEW t \in Threads, Ask(t) \/ Close(t) \/ Ensure(t) \/ Proceed(t) PROVE IInv'
  BY <1>1, Still, CreateKeeps, SchemaKeeps, PutKeeps, TakeKeeps, GiveBackKeeps, DirectKeeps DEF Proceed
<1>2. CASE ServerDown \/ ServerUp \/ Tick \/ UNCHANGED vars
  BY <1>2 DEF ServerDown, ServerUp, Tick, vars, poolVars, IInv, Typed, OnePlace, Hands, Outside, Accounted
<1> QED
  BY <1>1, <1>2 DEF Next

(***************************************************************************)
(* No connection is in two hands, or at once in a hand and idle, for any   *)
(* number of threads that race to create the pool, replace broken          *)
(* connections and release to whatever pool there is (core/pg_bridge.py:   *)
(* get_connection, release_connection, _ensure_conn).                      *)
(***************************************************************************)
THEOREM SpecExclusive == Spec /\ []Spare => []Exclusive
<1>1. IInv => Exclusive
  BY DEF IInv, Typed, OnePlace, Exclusive
<1> QED
  BY <1>1, InitIInv, NextKeeps, PTL DEF Spec

(***************************************************************************)
(* What the pool counts as handed out is in a thread's hand, or was lost   *)
(* to an init_schema that failed, for any number of threads.               *)
(***************************************************************************)
THEOREM SpecAccounted == Spec /\ []Spare => []Accounted
<1>1. IInv => Accounted
  BY DEF IInv
<1> QED
  BY <1>1, InitIInv, NextKeeps, PTL DEF Spec

-----------------------------------------------------------------------------
(* The breaker.  Failures come in the order of time, so that what is within *)
(* a limit is the end of a list of ages.                                    *)

Falling(s) == s \in Seq(Nat) /\ \A i, j \in 1 .. Len(s) : i <= j => s[i] >= s[j]

\* s is cut after k where ages come within the limit.
CutAt(s, limit, k) ==
    /\ \A i \in 1 .. k : s[i] > limit
    /\ \A i \in k + 1 .. Len(s) : s[i] <= limit

EndOf(r, s, k) == Len(r) = Len(s) - k /\ \A j \in 1 .. Len(r) : r[j] = s[k + j]

LEMMA Cuts ==
    ASSUME NEW s, Falling(s), NEW limit \in Int
    PROVE  \E k \in 0 .. Len(s) : CutAt(s, limit, k)
<1> DEFINE n == Len(s)
           I == {i \in 1 .. n : s[i] <= limit}
<1>1. n \in Nat /\ \A i \in 1 .. n : s[i] \in Nat
  BY DEF Falling
<1>2. CASE I = {}
  <2>1. CutAt(s, limit, n)
    BY <1>1, <1>2 DEF CutAt
  <2> QED BY <1>1, <2>1
<1>3. CASE I # {}
  <2>0. I \in SUBSET Nat
    BY <1>1
  <2>1. PICK m \in I : \A i \in I : m <= i
    BY <1>3, <2>0, NatMin
  <2>2. CutAt(s, limit, m - 1)
    BY <1>1, <2>1 DEF CutAt, Falling
  <2> QED BY <1>1, <2>1, <2>2
<1> QED BY <1>2, <1>3

LEMMA WithinCuts ==
    ASSUME NEW s, Falling(s), NEW limit \in Int, NEW k \in 0 .. Len(s), CutAt(s, limit, k)
    PROVE  Within(s, limit) \in Seq(Nat) /\ EndOf(Within(s, limit), s, k)
<1> DEFINE n == Len(s)
           R(g) == [i \in 0 .. n |->
                      IF i = 0 THEN <<>> ELSE IF s[i] <= limit THEN Append(g[i - 1], s[i]) ELSE g[i - 1]]
           F == CHOOSE g : g = R(g)
           size(i) == IF i > k THEN i - k ELSE 0
           G == [i \in 0 .. n |-> [j \in 1 .. size(i) |-> s[k + j]]]
<1>1. n \in Nat /\ k \in 0 .. n /\ \A i \in 1 .. n : s[i] \in Nat
  BY DEF Falling
<1>2. \A i \in 0 .. n : /\ size(i) \in Nat /\ G[i] \in Seq(Nat) /\ Len(G[i]) = size(i)
                        /\ \A j \in 1 .. size(i) : G[i][j] = s[k + j]
  <2> SUFFICES ASSUME NEW i \in 0 .. n
               PROVE  /\ size(i) \in Nat /\ G[i] \in Seq(Nat) /\ Len(G[i]) = size(i)
                      /\ \A j \in 1 .. size(i) : G[i][j] = s[k + j]
    OBVIOUS
  <2>1. size(i) \in Nat /\ \A j \in 1 .. size(i) : k + j \in 1 .. n
    BY <1>1
  <2> QED BY <1>1, <2>1
<1> HIDE DEF G
<1>3. ASSUME NEW i \in 1 .. n
      PROVE  G[i] = IF s[i] <= limit THEN Append(G[i - 1], s[i]) ELSE G[i - 1]
  <2>1. i \in 0 .. n /\ i - 1 \in 0 .. n
    BY <1>1
  <2>2. CASE i > k
    <3>1. s[i] <= limit /\ size(i) = size(i - 1) + 1 /\ s[i] = s[k + size(i)]
      BY <1>1, <2>2 DEF CutAt
    <3> HIDE DEF size
    <3>2. G[i] = Append(G[i - 1], s[i])
      <4> DEFINE A == Append(G[i - 1], s[i])
      <4>1. /\ G[i - 1] \in Seq(Nat) /\ Len(G[i - 1]) = size(i - 1) /\ size(i - 1) \in Nat
            /\ \A j \in 1 .. size(i - 1) : G[i - 1][j] = s[k + j]
        BY <1>2, <2>1
      <4>2. /\ A \in Seq(Nat) /\ Len(A) = size(i)
            /\ \A j \in 1 .. size(i) : A[j] = s[k + j]
        <5>1. s[i] \in Nat
          BY <1>1
        <5>2. /\ A \in Seq(Nat) /\ Len(A) = size(i - 1) + 1 /\ A[size(i - 1) + 1] = s[i]
              /\ \A j \in 1 .. size(i - 1) : A[j] = G[i - 1][j]
          BY <4>1, <5>1, Appended
        <5> HIDE DEF A
        <5>3. \A j \in 1 .. size(i) : j = size(i) \/ j \in 1 .. size(i - 1)
          BY <3>1, <4>1
        <5> QED BY <3>1, <4>1, <5>2, <5>3
      <4> HIDE DEF A
      <4>3. /\ G[i] \in Seq(Nat) /\ Len(G[i]) = size(i) /\ \A j \in 1 .. size(i) : G[i][j] = s[k + j]
        BY <1>2, <2>1
      <4>4. Len(G[i]) = Len(A) /\ \A j \in 1 .. Len(G[i]) : G[i][j] = A[j]
        BY <4>2, <4>3
      <4>5. G[i] = A
        BY <4>2, <4>3, <4>4, SameSequence, Zenon
      <4> QED BY <4>5 DEF A
    <3> QED BY <3>1, <3>2
  <2>3. CASE ~(i > k)
    <3>1. ~(s[i] <= limit) /\ size(i) = 0 /\ size(i - 1) = 0
      BY <1>1, <2>3 DEF CutAt
    <3> HIDE DEF size
    <3> QED BY <1>2, <2>1, <3>1
  <2> QED BY <2>2, <2>3
<1>4. G[0] = <<>>
  <2>1. size(0) = 0 /\ 0 \in 0 .. n
    BY <1>1
  <2> HIDE DEF size
  <2> QED BY <1>2, <2>1
<1>5. G = R(G)
  <2>1. \A i \in 0 .. n : G[i] = R(G)[i]
    BY <1>1, <1>3, <1>4
  <2>2. G = [i \in 0 .. n |-> G[i]]
    BY DEF G
  <2> QED BY <2>1, <2>2
<1>6. F = R(F)
  BY <1>5, Zenon
<1> HIDE DEF F
<1>7. /\ F[0] = <<>>
      /\ \A i \in 1 .. n : F[i] = IF s[i] <= limit THEN Append(F[i - 1], s[i]) ELSE F[i - 1]
  <2>1. ASSUME NEW f, NEW g, f = R(g)
        PROVE  /\ f[0] = <<>>
               /\ \A i \in 1 .. n : f[i] = IF s[i] <= limit THEN Append(g[i - 1], s[i]) ELSE g[i - 1]
    <3>1. \A i \in 0 .. n : f[i] = IF i = 0 THEN <<>>
                              ELSE IF s[i] <= limit THEN Append(g[i - 1], s[i]) ELSE g[i - 1]
      BY <2>1, Zenon
    <3> QED BY <1>1, <3>1
  <2> HIDE DEF R
  <2> QED BY <1>6, <2>1, Zenon
<1> HIDE DEF R
<1>8. \A i \in 0 .. n : F[i] = G[i]
  <2> DEFINE D == {i \in 0 .. n : F[i] # G[i]}
  <2> SUFFICES ASSUME D # {} PROVE FALSE
    OBVIOUS
  <2>0. D \in SUBSET Nat
    BY <1>1
  <2>1. PICK m \in D : \A i \in D : m <= i
    BY <2>0, NatMin
  <2>2. m \in 1 .. n /\ m - 1 \in 0 .. n /\ m - 1 \notin D
    BY <1>1, <1>4, <1>7, <2>1
  <2> QED BY <1>3, <1>7, <2>1, <2>2
<1>9. Within(s, limit) = F[n]
  BY Zenon DEF Within, F, R, n
<1>10. Within(s, limit) = G[n] /\ n \in 0 .. n /\ size(n) = n - k
  BY <1>1, <1>8, <1>9
<1> HIDE DEF size
<1> QED BY <1>2, <1>10 DEF EndOf

-----------------------------------------------------------------------------
\* The failure k opens the breaker, and what it does still shows.
Opens(k) ==
    /\ k \in 1 .. Len(past) /\ k >= Threshold
    /\ past[k - Threshold + 1] < past[k] + Window
    /\ past[k] <= Reset

\* The breaker's list is the end of all failures, and what it dropped is out of the window.
Remembers ==
    \E d \in 0 .. Len(past) : EndOf(failures, past, d) /\ \A i \in 1 .. d : past[i] >= Window

\* The breaker is open for as long as the last failure that opened it says.
Exact ==
    /\ openFor \in Nat
    /\ openFor = 0 \/ \E k \in 1 .. Len(past) : Opens(k) /\ openFor = Reset - past[k]
    /\ \A k \in 1 .. Len(past) : Opens(k) => Reset - past[k] <= openFor

\* Failures are in order, and what is left of them tells the state of the breaker.
BreakerInv == Falling(past) /\ failures \in Seq(Nat) /\ Remembers /\ Exact

LEMMA BreakerStart == Init => BreakerInv
<1> SUFFICES ASSUME Init PROVE BreakerInv
  OBVIOUS
<1>1. past = <<>> /\ failures = <<>> /\ openFor = 0
  BY DEF Init
<1> QED BY <1>1 DEF BreakerInv, Falling, Remembers, EndOf, Exact

LEMMA SuccessKeeps == ASSUME BreakerInv, RecordSuccess PROVE BreakerInv'
<1>1. past' = <<>> /\ failures' = <<>> /\ openFor' = 0
  BY DEF RecordSuccess, AfterSuccess
<1> QED BY <1>1 DEF BreakerInv, Falling, Remembers, EndOf, Exact

LEMMA EndFalls ==
    ASSUME NEW s, Falling(s), NEW k \in 0 .. Len(s), NEW r \in Seq(Nat), EndOf(r, s, k)
    PROVE  Falling(r) /\ Len(r) = Len(s) - k
<1> DEFINE n == Len(s)
           m == Len(r)
<1>1. n \in Nat /\ m \in Nat /\ m = n - k /\ \A j \in 1 .. m : r[j] = s[k + j]
  BY DEF Falling, EndOf
<1>2. \A i, j \in 1 .. n : i <= j => s[i] >= s[j]
  BY DEF Falling
<1>3. ASSUME NEW i \in 1 .. m, NEW j \in 1 .. m, i <= j PROVE r[i] >= r[j]
  <2>1. k + i \in 1 .. n /\ k + j \in 1 .. n /\ k + i <= k + j
    BY <1>1, <1>3
  <2> HIDE DEF n, m
  <2> QED BY <1>1, <1>2, <2>1
<1> QED BY <1>1, <1>3 DEF Falling

LEMMA FailureKeeps == ASSUME BreakerInv, RecordFailure PROVE BreakerInv'
<1> DEFINE w == Within(failures, Window - 1)
<1>0. PICK n \in Nat : n = Len(past)
  BY DEF BreakerInv, Falling
<1>1. n = Len(past) /\ n \in Nat /\ past \in Seq(Nat) /\ \A i \in 1 .. n : past[i] \in Nat
  BY <1>0 DEF BreakerInv, Falling
<1>2. PICK d \in 0 .. n : EndOf(failures, past, d) /\ \A i \in 1 .. d : past[i] >= Window
  BY <1>0 DEF BreakerInv, Remembers
<1>3. failures \in Seq(Nat) /\ Falling(failures) /\ Len(failures) = n - d
  BY <1>0, <1>2, EndFalls DEF BreakerInv
<1>4. Window - 1 \in Int /\ Window \in Nat \ {0} /\ Threshold \in Nat \ {0} /\ Reset \in Nat \ {0}
  BY PgAssumption
<1>5. PICK k \in 0 .. n - d : CutAt(failures, Window - 1, k)
  BY <1>3, <1>4, Cuts
<1>6. w \in Seq(Nat) /\ EndOf(w, failures, k)
  BY <1>3, <1>4, <1>5, WithinCuts
<1> DEFINE c == d + k
<1>7. c \in 0 .. n /\ w \in Seq(Nat) /\ Len(w) = n - c /\ \A j \in 1 .. n - c : w[j] = past[c + j]
  <2>1. Len(w) = n - c /\ c \in 0 .. n /\ \A j \in 1 .. n - c : w[j] = failures[k + j]
    <3> HIDE DEF w
    <3>1. Len(w) = (n - d) - k /\ \A j \in 1 .. Len(w) : w[j] = failures[k + j]
      BY <1>3, <1>6 DEF EndOf
    <3>2. (n - d) - k = n - c /\ c \in 0 .. n
      BY <1>1, <1>2, <1>5
    <3> HIDE DEF c
    <3> QED BY <3>1, <3>2
  <2>2. \A j \in 1 .. n - c : k + j \in 1 .. n - d
    BY <1>1, <1>5
  <2>3. \A j \in 1 .. n - d : failures[j] = past[d + j]
    BY <1>2, <1>3 DEF EndOf
  <2>4. \A j \in 1 .. n - c : failures[k + j] = past[c + j]
    <3> TAKE j \in 1 .. n - c
    <3>1. failures[k + j] = past[d + (k + j)] /\ d + (k + j) = c + j
      BY <2>2, <2>3
    <3> QED BY <3>1
  <2> QED BY <1>6, <2>1, <2>4
<1>8. \A i \in 1 .. n : past[i] < Window <=> i > c
  <2> SUFFICES ASSUME NEW i \in 1 .. n PROVE past[i] < Window <=> i > c
    OBVIOUS
  <2>1. CASE i <= d
    BY <1>1, <1>2, <1>4, <1>5, <2>1
  <2>2. CASE i > d
    <3>1. i - d \in 1 .. n - d /\ past[i] = failures[i - d]
      BY <1>1, <1>2, <1>3, <2>2 DEF EndOf
    <3>2. CASE i <= c
      <4>1. i - d \in 1 .. k
        BY <1>1, <1>2, <1>5, <2>2, <3>2
      <4> QED BY <1>1, <1>4, <1>5, <3>1, <3>2, <4>1 DEF CutAt
    <3>3. CASE i > c
      <4>1. i - d \in k + 1 .. n - d
        BY <1>1, <1>2, <1>3, <1>5, <2>2, <3>3
      <4>2. \A x \in k + 1 .. n - d : failures[x] <= Window - 1
        BY <1>3, <1>5 DEF CutAt
      <4>3. past[i] <= Window - 1 /\ past[i] \in Nat
        BY <1>1, <3>1, <4>1, <4>2
      <4> QED BY <1>4, <3>3, <4>3
    <3> QED BY <1>1, <1>2, <1>5, <3>2, <3>3
  <2> QED BY <1>1, <1>2, <2>1, <2>2
<1> HIDE DEF c, w
<1>17. c \in Nat /\ c <= n
  BY <1>1, <1>7
<1>9. /\ failures' = Append(w, 0) /\ past' = Append(past, 0)
      /\ openFor' = IF Len(Append(w, 0)) >= Threshold THEN Reset ELSE openFor
  BY DEF RecordFailure, Recent, w
<1>10. /\ failures' \in Seq(Nat) /\ Len(failures') = n - c + 1
       /\ \A j \in 1 .. n - c : failures'[j] = past[c + j]
       /\ failures'[n - c + 1] = 0
  BY <1>7, <1>9, Appended
<1>11. /\ past' \in Seq(Nat) /\ Len(past') = n + 1 /\ past'[n + 1] = 0
       /\ \A j \in 1 .. n : past'[j] = past[j]
  BY <1>1, <1>9, Appended
<1>12. Falling(past)'
  <2>1. \A i, j \in 1 .. n : i <= j => past[i] >= past[j]
    BY <1>0 DEF BreakerInv, Falling
  <2>2. \A i \in 1 .. n + 1 : i = n + 1 \/ i \in 1 .. n
    BY <1>1
  <2>3. ASSUME NEW i \in 1 .. n + 1, NEW j \in 1 .. n + 1, i <= j PROVE past'[i] >= past'[j]
    <3>1. CASE j \in 1 .. n
      <4>1. i \in 1 .. n /\ past'[i] = past[i] /\ past'[j] = past[j]
        BY <1>1, <1>11, <2>3, <3>1
      <4> QED BY <2>1, <2>3, <3>1, <4>1
    <3>2. CASE j = n + 1
      BY <1>11, <3>2
    <3> QED BY <2>2, <3>1, <3>2
  <2> QED BY <1>11, <2>3 DEF Falling
<1>13. Remembers'
  <2>1. \A j \in 1 .. n - c + 1 : failures'[j] = past'[c + j]
    <3> SUFFICES ASSUME NEW j \in 1 .. n - c + 1 PROVE failures'[j] = past'[c + j]
      OBVIOUS
    <3>1. CASE j = n - c + 1
      <4>1. c + j = n + 1
        BY <1>1, <1>7, <3>1
      <4> QED BY <1>10, <1>11, <3>1, <4>1
    <3>2. CASE j # n - c + 1
      <4>1. j \in 1 .. n - c /\ c + j \in 1 .. n
        BY <1>1, <1>17, <3>2
      <4> QED BY <1>10, <1>11, <4>1
    <3> QED BY <3>1, <3>2
  <2>2. \A i \in 1 .. c : past'[i] >= Window
    <3> TAKE i \in 1 .. c
    <3>1. i \in 1 .. n /\ ~(i > c)
      BY <1>1, <1>17
    <3> QED BY <1>1, <1>4, <1>8, <1>11, <3>1
  <2>3. c \in 0 .. Len(past') /\ Len(failures') = Len(past') - c
    BY <1>1, <1>7, <1>10, <1>11
  <2> QED BY <1>10, <2>1, <2>2, <2>3 DEF Remembers, EndOf
<1>14. \A i \in 1 .. n : Opens(i)' <=> Opens(i)
  <2> SUFFICES ASSUME NEW i \in 1 .. n PROVE Opens(i)' <=> Opens(i)
    OBVIOUS
  <2>1. i \in 1 .. n + 1 /\ (i >= Threshold => i - Threshold + 1 \in 1 .. n)
    BY <1>1, <1>4
  <2> QED BY <1>0, <1>11, <2>1 DEF Opens
<1>15. Opens(n + 1)' <=> n - c + 1 >= Threshold
  <2>1. n + 1 \in 1 .. Len(past') /\ past'[n + 1] = 0 /\ 0 <= Reset
    BY <1>1, <1>4, <1>11
  <2>2. n + 1 >= Threshold => (past'[n + 1 - Threshold + 1] < 0 + Window <=> n + 1 - Threshold + 1 > c)
    <3> SUFFICES ASSUME n + 1 >= Threshold
                 PROVE  past'[n + 1 - Threshold + 1] < 0 + Window <=> n + 1 - Threshold + 1 > c
      OBVIOUS
    <3>1. CASE Threshold = 1
      BY <1>1, <1>4, <1>7, <1>11, <3>1
    <3>2. CASE Threshold # 1
      <4>1. n + 1 - Threshold + 1 \in 1 .. n
        BY <1>1, <1>4, <3>2
      <4> QED BY <1>4, <1>8, <1>11, <4>1
    <3> QED BY <3>1, <3>2
  <2> QED BY <1>1, <1>4, <1>7, <2>1, <2>2 DEF Opens
<1>16. Exact'
  <2>1. openFor' = IF n - c + 1 >= Threshold THEN Reset ELSE openFor
    BY <1>7, <1>9, Appended
  <2>2. \A i \in 1 .. n + 1 : i = n + 1 \/ i \in 1 .. n
    BY <1>1
  <2>3. /\ openFor \in Nat
        /\ openFor = 0 \/ \E i \in 1 .. n : Opens(i) /\ openFor = Reset - past[i]
        /\ \A i \in 1 .. n : Opens(i) => Reset - past[i] <= openFor
    BY <1>0 DEF BreakerInv, Exact
  <2>4. \A i \in 1 .. n + 1 : Opens(i)' => Reset - past'[i] <= openFor'
    <3> SUFFICES ASSUME NEW i \in 1 .. n + 1, Opens(i)' PROVE Reset - past'[i] <= openFor'
      OBVIOUS
    <3>1. CASE i = n + 1
      <4>1. Opens(n + 1)'
        BY <3>1
      <4> QED BY <1>1, <1>4, <1>11, <1>15, <2>1, <3>1, <4>1
    <3>2. CASE i \in 1 .. n
      <4>1. Reset - past[i] <= openFor /\ past'[i] = past[i] /\ past[i] \in Nat
        BY <1>1, <1>11, <1>14, <2>3, <3>2
      <4> QED BY <1>4, <2>1, <2>3, <4>1
    <3> QED BY <2>2, <3>1, <3>2
  <2>5. openFor' = 0 \/ \E i \in 1 .. n + 1 : Opens(i)' /\ openFor' = Reset - past'[i]
    <3>1. CASE n - c + 1 >= Threshold
      <4>1. n + 1 \in 1 .. n + 1 /\ Opens(n + 1)' /\ openFor' = Reset - past'[n + 1]
        BY <1>1, <1>4, <1>11, <1>15, <2>1, <3>1
      <4> QED BY <4>1
    <3>2. CASE ~(n - c + 1 >= Threshold)
      BY <1>1, <1>11, <1>14, <2>1, <2>2, <2>3, <3>2
    <3> QED BY <3>1, <3>2
  <2> QED BY <1>4, <1>11, <2>1, <2>3, <2>4, <2>5 DEF Exact
<1> QED BY <1>10, <1>12, <1>13, <1>16 DEF BreakerInv

\* Every age one more, and what is within the limit of it.
LEMMA OlderCuts ==
    ASSUME NEW s, Falling(s), NEW limit \in Nat
    PROVE  \E k \in 0 .. Len(s) :
              /\ Older(s, limit) \in Seq(Nat) /\ Len(Older(s, limit)) = Len(s) - k
              /\ \A j \in 1 .. Len(s) - k : k + j \in 1 .. Len(s) /\ Older(s, limit)[j] = s[k + j] + 1
              /\ \A i \in 1 .. Len(s) : s[i] + 1 > limit <=> i <= k
<1> DEFINE n == Len(s)
           t == [i \in 1 .. Len(s) |-> s[i] + 1]
<1>1. n \in Nat /\ \A i \in 1 .. n : s[i] \in Nat
  BY DEF Falling
<1>2. t \in Seq(Nat) /\ Len(t) = n /\ \A i \in 1 .. n : t[i] = s[i] + 1
  BY <1>1
<1>3. Older(s, limit) = Within(t, limit)
  BY Zenon DEF Older
<1> HIDE DEF n, t
<1>4. Falling(t)
  <2>1. \A i, j \in 1 .. n : i <= j => s[i] >= s[j]
    BY DEF Falling, n
  <2>2. ASSUME NEW i \in 1 .. n, NEW j \in 1 .. n, i <= j PROVE t[i] >= t[j]
    <3>1. t[i] = s[i] + 1 /\ t[j] = s[j] + 1 /\ s[i] \in Nat /\ s[j] \in Nat /\ s[i] >= s[j]
      BY <1>1, <1>2, <2>1, <2>2
    <3> QED BY <3>1
  <2> QED BY <1>2, <2>2 DEF Falling
<1>5. PICK k \in 0 .. n : CutAt(t, limit, k)
  BY <1>2, <1>4, Cuts
<1>6. Within(t, limit) \in Seq(Nat) /\ EndOf(Within(t, limit), t, k)
  BY <1>2, <1>4, <1>5, WithinCuts
<1> DEFINE w == Within(t, limit)
<1> HIDE DEF w
<1>7. w \in Seq(Nat) /\ Len(w) = n - k /\ \A j \in 1 .. n - k : k + j \in 1 .. n /\ w[j] = s[k + j] + 1
  <2>1. Len(w) = n - k /\ \A j \in 1 .. n - k : w[j] = t[k + j]
    BY <1>2, <1>6 DEF EndOf, w
  <2>2. \A j \in 1 .. n - k : k + j \in 1 .. n
    BY <1>1, <1>5
  <2> QED BY <1>2, <1>6, <2>1, <2>2 DEF w
<1>8. \A i \in 1 .. n : s[i] + 1 > limit <=> i <= k
  <2> TAKE i \in 1 .. n
  <2>1. CASE i <= k
    <3>1. i \in 1 .. k
      BY <1>1, <1>5, <2>1
    <3> QED BY <1>2, <1>5, <2>1, <3>1 DEF CutAt
  <2>2. CASE ~(i <= k)
    <3>1. i \in k + 1 .. n
      BY <1>1, <1>5, <2>2
    <3>2. t[i] <= limit
      BY <1>2, <1>5, <3>1 DEF CutAt
    <3>3. t[i] = s[i] + 1 /\ s[i] \in Nat
      BY <1>1, <1>2
    <3> QED BY <2>2, <3>2, <3>3
  <2> QED BY <2>1, <2>2
<1> QED BY <1>3, <1>5, <1>7, <1>8 DEF w, n

LEMMA TickKeeps == ASSUME BreakerInv, Tick PROVE BreakerInv'
<1>0. /\ Window \in Nat \ {0} /\ Threshold \in Nat \ {0} /\ Reset \in Nat \ {0}
      /\ Memory \in Nat /\ Memory = Window + Reset
  BY PgAssumption DEF Memory
<1>1. /\ failures' = Older(failures, Window) /\ past' = Older(past, Memory)
      /\ openFor' = IF openFor = 0 THEN 0 ELSE openFor - 1
  BY DEF Tick
<1>2. PICK n \in Nat : n = Len(past)
  BY DEF BreakerInv, Falling
<1>3. Falling(past) /\ \A i \in 1 .. n : past[i] \in Nat
  BY <1>2 DEF BreakerInv, Falling
<1>4. PICK d \in 0 .. n : EndOf(failures, past, d) /\ \A i \in 1 .. d : past[i] >= Window
  BY <1>2 DEF BreakerInv, Remembers
<1>5. failures \in Seq(Nat) /\ Falling(failures) /\ Len(failures) = n - d
  BY <1>2, <1>4, EndFalls DEF BreakerInv
<1>6. PICK b \in 0 .. n :
        /\ past' \in Seq(Nat) /\ Len(past') = n - b
        /\ \A j \in 1 .. n - b : b + j \in 1 .. n /\ past'[j] = past[b + j] + 1
        /\ \A i \in 1 .. n : past[i] + 1 > Memory <=> i <= b
  BY <1>0, <1>1, <1>2, <1>3, OlderCuts
<1>7. PICK e \in 0 .. n - d :
        /\ failures' \in Seq(Nat) /\ Len(failures') = (n - d) - e
        /\ \A j \in 1 .. (n - d) - e : e + j \in 1 .. n - d /\ failures'[j] = failures[e + j] + 1
        /\ \A i \in 1 .. n - d : failures[i] + 1 > Window <=> i <= e
  BY <1>0, <1>1, <1>5, OlderCuts
<1>8. \A j \in 1 .. n - d : d + j \in 1 .. n /\ failures[j] = past[d + j]
  BY <1>2, <1>4, <1>5 DEF EndOf
<1>9. b <= d + e
  <2> SUFFICES ASSUME b > d + e PROVE FALSE
    BY <1>2, <1>4, <1>6, <1>7
  <2>1. b \in 1 .. n /\ b - d \in 1 .. n - d /\ ~(b - d <= e)
    BY <1>2, <1>4, <1>6, <1>7
  <2>2. past[b] + 1 > Memory /\ failures[b - d] = past[d + (b - d)] /\ d + (b - d) = b
    BY <1>6, <1>8, <2>1
  <2>3. ~(failures[b - d] + 1 > Window) /\ past[b] \in Nat
    BY <1>3, <1>7, <2>1
  <2> QED BY <1>0, <2>2, <2>3
<1>10. Falling(past)'
  <2>1. \A i, j \in 1 .. n : i <= j => past[i] >= past[j]
    BY <1>2, <1>3 DEF Falling
  <2>2. ASSUME NEW i \in 1 .. n - b, NEW j \in 1 .. n - b, i <= j PROVE past'[i] >= past'[j]
    <3>1. b + i \in 1 .. n /\ b + j \in 1 .. n /\ b + i <= b + j
      BY <1>2, <1>6, <2>2
    <3>2. past[b + i] >= past[b + j] /\ past[b + i] \in Nat /\ past[b + j] \in Nat
      BY <1>3, <2>1, <3>1
    <3>3. past'[i] = past[b + i] + 1 /\ past'[j] = past[b + j] + 1
      BY <1>6, <2>2
    <3> QED BY <3>2, <3>3
  <2> QED BY <1>6, <2>2 DEF Falling
<1>11. Remembers'
  <2>1. d + e - b \in 0 .. n - b /\ (n - d) - e = (n - b) - (d + e - b)
    BY <1>2, <1>4, <1>6, <1>7, <1>9
  <2>2. ASSUME NEW j \in 1 .. (n - d) - e PROVE failures'[j] = past'[(d + e - b) + j]
    <3>1. (d + e - b) + j \in 1 .. n - b /\ b + ((d + e - b) + j) = d + (e + j)
      BY <1>2, <1>4, <1>6, <1>7, <1>9
    <3>2. e + j \in 1 .. n - d /\ failures'[j] = failures[e + j] + 1
      BY <1>7
    <3>3. failures[e + j] = past[d + (e + j)]
      BY <1>8, <3>2
    <3>4. past'[(d + e - b) + j] = past[d + (e + j)] + 1
      BY <1>6, <3>1
    <3> QED BY <3>2, <3>3, <3>4
  <2>3. ASSUME NEW i \in 1 .. d + e - b PROVE past'[i] >= Window
    <3>1. i \in 1 .. n - b /\ b + i \in 1 .. n /\ b + i <= d + e
      BY <1>2, <1>4, <1>6, <1>7, <1>9
    <3>2. past'[i] = past[b + i] + 1 /\ past[b + i] \in Nat
      BY <1>3, <1>6, <3>1
    <3>3. CASE b + i <= d
      <4>1. b + i \in 1 .. d
        BY <1>4, <3>1, <3>3
      <4> QED BY <1>0, <1>4, <3>2, <4>1
    <3>4. CASE ~(b + i <= d)
      <4>1. b + i - d \in 1 .. n - d /\ b + i - d <= e /\ d + (b + i - d) = b + i
        BY <1>2, <1>4, <1>7, <3>1, <3>4
      <4>2. failures[b + i - d] + 1 > Window /\ failures[b + i - d] = past[b + i]
        BY <1>7, <1>8, <4>1
      <4> QED BY <1>0, <3>2, <4>2
    <3> QED BY <3>3, <3>4
  <2> DEFINE x == d + e - b
  <2>4. x \in 0 .. Len(past') /\ Len(failures') = Len(past') - x
    BY <1>6, <1>7, <2>1
  <2>5. \A j \in 1 .. Len(failures') : failures'[j] = past'[x + j]
    BY <1>7, <2>2
  <2>6. \A i \in 1 .. x : past'[i] >= Window
    BY <2>3
  <2> HIDE DEF x
  <2>7. \E y \in 0 .. Len(past') :
          /\ Len(failures') = Len(past') - y /\ \A j \in 1 .. Len(failures') : failures'[j] = past'[y + j]
          /\ \A i \in 1 .. y : past'[i] >= Window
    BY <2>4, <2>5, <2>6
  <2> QED BY <2>7 DEF Remembers, EndOf
<1>12. \A k \in 1 .. n - b : Opens(k)' <=> Opens(b + k) /\ past[b + k] + 1 <= Reset
  <2> SUFFICES ASSUME NEW k \in 1 .. n - b PROVE Opens(k)' <=> Opens(b + k) /\ past[b + k] + 1 <= Reset
    OBVIOUS
  <2>1. b + k \in 1 .. n /\ past'[k] = past[b + k] + 1 /\ past[b + k] \in Nat /\ k \in 1 .. Len(past') /\ b + k \in 1 .. Len(past)
    BY <1>2, <1>3, <1>6
  <2>2. k >= Threshold =>
          /\ b + k >= Threshold
          /\ past'[k - Threshold + 1] = past[(b + k) - Threshold + 1] + 1 /\ past[(b + k) - Threshold + 1] \in Nat
    <3> SUFFICES ASSUME k >= Threshold
                 PROVE  /\ b + k >= Threshold
                        /\ past'[k - Threshold + 1] = past[(b + k) - Threshold + 1] + 1
                        /\ past[(b + k) - Threshold + 1] \in Nat
      OBVIOUS
    <3>1. k - Threshold + 1 \in 1 .. n - b /\ b + (k - Threshold + 1) = (b + k) - Threshold + 1 /\ b + k >= Threshold
      BY <1>0, <1>2, <1>6
    <3>2. b + (k - Threshold + 1) \in 1 .. n /\ past'[k - Threshold + 1] = past[b + (k - Threshold + 1)] + 1
      BY <1>6, <3>1
    <3> QED BY <1>3, <3>1, <3>2
  <2>3. ASSUME b + k >= Threshold, past[(b + k) - Threshold + 1] < past[b + k] + Window, past[b + k] + 1 <= Reset
        PROVE  k >= Threshold
    <3>1. (b + k) - Threshold + 1 \in 1 .. n
      BY <1>0, <1>2, <1>6, <2>1, <2>3
    <3>2. past[(b + k) - Threshold + 1] + 1 <= Memory /\ past[(b + k) - Threshold + 1] \in Nat
      BY <1>0, <1>3, <2>1, <2>3, <3>1
    <3>3. ~((b + k) - Threshold + 1 <= b)
      BY <1>0, <1>6, <3>1, <3>2
    <3> QED BY <1>0, <1>2, <1>6, <3>3
  <2>4. Opens(k)' <=> /\ k \in 1 .. Len(past') /\ k >= Threshold
                      /\ past'[k - Threshold + 1] < past'[k] + Window /\ past'[k] <= Reset
    BY DEF Opens
  <2>5. Opens(b + k) <=> /\ b + k \in 1 .. Len(past) /\ b + k >= Threshold
                         /\ past[(b + k) - Threshold + 1] < past[b + k] + Window /\ past[b + k] <= Reset
    BY DEF Opens
  <2>6. past'[k] <= Reset <=> past[b + k] + 1 <= Reset
    BY <2>1
  <2>7. past[b + k] + 1 <= Reset => past[b + k] <= Reset
    BY <1>0, <2>1
  <2>8. k >= Threshold =>
          (past'[k - Threshold + 1] < past'[k] + Window <=> past[(b + k) - Threshold + 1] < past[b + k] + Window)
    BY <1>0, <2>1, <2>2
  <2>9. ASSUME Opens(k)' PROVE Opens(b + k) /\ past[b + k] + 1 <= Reset
    BY <2>1, <2>2, <2>4, <2>5, <2>6, <2>7, <2>8, <2>9
  <2>10. ASSUME Opens(b + k), past[b + k] + 1 <= Reset PROVE Opens(k)'
    <3>1. k >= Threshold
      BY <2>3, <2>5, <2>10
    <3> QED BY <2>1, <2>4, <2>5, <2>6, <2>8, <2>10, <3>1
  <2> QED BY <2>9, <2>10
<1>13. ASSUME NEW i \in 1 .. n, past[i] + 1 <= Reset
       PROVE  i - b \in 1 .. n - b /\ b + (i - b) = i
  <2>1. ~(i <= b)
    BY <1>0, <1>3, <1>6, <1>13
  <2> QED BY <1>2, <1>6, <2>1
<1>14. /\ openFor \in Nat
       /\ openFor = 0 \/ \E k \in 1 .. n : Opens(k) /\ openFor = Reset - past[k]
       /\ \A k \in 1 .. n : Opens(k) => Reset - past[k] <= openFor
  BY <1>2 DEF BreakerInv, Exact
<1>15. Exact'
  <2>1. ASSUME NEW k \in 1 .. n - b, Opens(k)' PROVE Reset - past'[k] <= openFor'
    <3>1. b + k \in 1 .. n /\ past'[k] = past[b + k] + 1 /\ past[b + k] \in Nat /\ past[b + k] + 1 <= Reset
      BY <1>3, <1>6, <1>12, <2>1
    <3>2. Reset - past[b + k] <= openFor
      BY <1>12, <1>14, <2>1, <3>1
    <3> QED BY <1>0, <1>1, <1>14, <3>1, <3>2
  <2>2. openFor' = 0 \/ \E k \in 1 .. n - b : Opens(k)' /\ openFor' = Reset - past'[k]
    <3> SUFFICES ASSUME openFor' # 0 PROVE \E k \in 1 .. n - b : Opens(k)' /\ openFor' = Reset - past'[k]
      OBVIOUS
    <3>1. openFor # 0 /\ openFor' = openFor - 1
      BY <1>1
    <3>2. PICK i \in 1 .. n : Opens(i) /\ openFor = Reset - past[i]
      BY <1>14, <3>1
    <3>3. past[i] \in Nat /\ past[i] + 1 <= Reset
      BY <1>0, <1>3, <1>14, <3>1, <3>2
    <3>4. PICK k \in 1 .. n - b : k = i - b /\ b + k = i
      BY <1>13, <3>3
    <3>5. Opens(k)' /\ past'[k] = past[i] + 1
      BY <1>6, <1>12, <3>2, <3>3, <3>4
    <3> QED BY <1>0, <3>1, <3>2, <3>3, <3>5
  <2>3. openFor' \in Nat
    BY <1>1, <1>14
  <2> QED BY <1>6, <2>1, <2>2, <2>3 DEF Exact
<1> QED BY <1>6, <1>7, <1>10, <1>11, <1>15 DEF BreakerInv

-----------------------------------------------------------------------------
LEMMA OpeningIs ==
    ASSUME Falling(past), NEW k \in 1 .. Len(past)
    PROVE  Opening(k) <=> k >= Threshold /\ past[k - Threshold + 1] < past[k] + Window
<1>0. Window \in Nat \ {0} /\ Threshold \in Nat \ {0}
  BY PgAssumption
<1>1. Len(past) \in Nat /\ \A i \in 1 .. Len(past) : past[i] \in Nat
  BY DEF Falling
<1>2. PICK c \in 0 .. Len(past) : CutAt(past, past[k] + Window - 1, c)
  <2>1. past[k] + Window - 1 \in Int
    BY <1>0, <1>1
  <2> QED BY <2>1, Cuts
<1> DEFINE n == Len(past)
<1>3. \A i \in 1 .. n : past[i] < past[k] + Window <=> i > c
  <2> TAKE i \in 1 .. n
  <2>1. CASE i > c
    <3>1. past[i] <= past[k] + Window - 1
      BY <1>1, <1>2, <2>1 DEF CutAt
    <3> QED BY <1>0, <1>1, <2>1, <3>1
  <2>2. CASE ~(i > c)
    <3>1. past[i] > past[k] + Window - 1
      BY <1>1, <1>2, <2>2 DEF CutAt
    <3> QED BY <1>0, <1>1, <2>2, <3>1
  <2> QED BY <2>1, <2>2
<1>4. k > c
  BY <1>0, <1>1, <1>3
<1> DEFINE S == {i \in 1 .. k : past[i] < past[k] + Window}
<1>5. S = c + 1 .. k
  BY <1>1, <1>2, <1>3
<1>6. Cardinality(S) = k - c
  <2>1. c + 1 \in Int /\ k \in Int /\ ~(c + 1 > k) /\ k - (c + 1) + 1 = k - c
    BY <1>1, <1>2, <1>4
  <2>2. Cardinality(c + 1 .. k) = k - (c + 1) + 1
    BY <2>1, FS_Interval
  <2> HIDE DEF S
  <2> QED BY <1>5, <2>1, <2>2
<1>7. Opening(k) <=> k - c >= Threshold
  BY <1>6 DEF Opening
<1>8. k >= Threshold => (past[k - Threshold + 1] < past[k] + Window <=> k - Threshold + 1 > c)
  BY <1>0, <1>1, <1>3
<1> QED BY <1>0, <1>1, <1>2, <1>4, <1>7, <1>8

LEMMA BreakerTells == BreakerInv => BreakerExact
<1> SUFFICES ASSUME BreakerInv PROVE BreakerExact
  OBVIOUS
<1> DEFINE K == {k \in DOMAIN past : past[k] <= Reset /\ Opening(k)}
           S == {0} \cup {Reset - past[k] : k \in K}
<1>0. Reset \in Nat
  BY PgAssumption
<1>1. Falling(past) /\ DOMAIN past = 1 .. Len(past) /\ \A k \in 1 .. Len(past) : past[k] \in Nat
  BY DEF BreakerInv, Falling
<1>2. \A k \in 1 .. Len(past) : k \in K <=> Opens(k)
  BY <1>1, OpeningIs DEF Opens
<1>3. openFor \in S
  BY <1>1, <1>2 DEF BreakerInv, Exact
<1>4. \A x \in S : x \in Nat /\ x <= openFor
  BY <1>0, <1>1, <1>2 DEF BreakerInv, Exact
<1>5. Max(S) = openFor
  <2> HIDE DEF S
  <2>1. \A x \in S : (\A y \in S : x >= y) <=> x = openFor
    BY <1>3, <1>4
  <2>2. Max(S) \in S /\ \A y \in S : Max(S) >= y
    BY <1>3, <1>4 DEF Max
  <2> QED BY <2>1, <2>2
<1> QED BY <1>5, Zenon DEF BreakerExact

LEMMA BreakerStep == BreakerInv /\ [Next]_vars => BreakerInv'
<1> SUFFICES ASSUME BreakerInv, [Next]_vars PROVE BreakerInv'
  OBVIOUS
<1>1. CASE UNCHANGED breakerVars
  BY <1>1 DEF breakerVars, BreakerInv, Falling, Remembers, EndOf, Exact, Opens
<1>2. CASE Tick
  BY <1>2, TickKeeps
<1>3. CASE RecordFailure
  BY <1>3, FailureKeeps
<1>4. CASE RecordSuccess
  BY <1>4, SuccessKeeps
<1>5. UNCHANGED breakerVars \/ Tick \/ RecordFailure \/ RecordSuccess
  BY DEF Next, Ask, Close, Ensure, Proceed, Pool, Create, Schema, Put, Take, GiveBack, Direct, Succeed, Fail,
         ServerDown, ServerUp, vars, breakerVars
<1> QED BY <1>1, <1>2, <1>3, <1>4, <1>5

(***************************************************************************)
(* The breaker is open for as long as the latest failure says that was the *)
(* Threshold-th within Window, and for no other reason, for any threads    *)
(* and times (core/pg_bridge.py: _cb_record_failure, _cb_check, _cb_reset).*)
(***************************************************************************)
THEOREM SpecBreaker == Spec => []BreakerExact
BY BreakerStart, BreakerStep, BreakerTells, PTL DEF Spec
=============================================================================
