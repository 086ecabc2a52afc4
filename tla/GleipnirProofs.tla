--------------------------- MODULE GleipnirProofs ---------------------------
(***************************************************************************)
(* Proofs about Gleipnir, for any limits, window, applications and bounds. *)
(* The list the code prunes is shown to be the tail of the whole history   *)
(* that has not left the window yet (Kept); both limits then compare a     *)
(* call with the one so many places before it (Sliding, SlidingSoft).      *)
(***************************************************************************)
EXTENDS Gleipnir, TLAPS

\* The calls of an application that its list has dropped.
Dropped(a) == Len(calls[a]) - Len(log[a])

\* The list is the tail of the history, and what it dropped is out of the window.
Kept ==
    \A a \in Apps :
        /\ Len(log[a]) <= Len(calls[a])
        /\ \A k \in 1..Len(log[a]) : log[a][k] = calls[a][Dropped(a) + k].at
        /\ \A k \in 1..Len(calls[a]) : k <= Dropped(a) => now - calls[a][k].at >= Window

\* Calls are recorded in the order of their times.
InOrder ==
    \A a \in Apps :
        /\ \A i \in 1..Len(calls[a]) : calls[a][i].at <= now
        /\ \A i, j \in 1..Len(calls[a]) : i <= j => calls[a][i].at <= calls[a][j].at

\* Sliding, for the soft limit.
SlidingSoft ==
    \A a \in Apps : \A i \in 1..Len(calls[a]) :
        calls[a][i].verdict # "ok"
            <=> /\ i > SoftLimit
                /\ calls[a][i].at - calls[a][i - SoftLimit].at < Window

IInv == TypeOK /\ Kept /\ InOrder /\ Sliding /\ SlidingSoft

-----------------------------------------------------------------------------
\* What Recent returns: a tail of the list, all of it inside the window, and
\* every call of the history before that tail outside.
LEMMA RecentTail ==
    ASSUME TypeOK, Kept, NEW a \in Apps, NEW r, Recent(a, r)
    PROVE  /\ r \in Seq(Times)
           /\ Len(r) <= Len(calls[a])
           /\ \A k \in 1..Len(r) :
                /\ r[k] = calls[a][Len(calls[a]) - Len(r) + k].at
                /\ now - r[k] < Window
           /\ \A k \in 1..Len(calls[a]) :
                k <= Len(calls[a]) - Len(r) => now - calls[a][k].at >= Window
<1>1. PICK n \in 0..Len(log[a]) :
        /\ \A i \in 1..n : now - log[a][i] >= Window
        /\ \A i \in (n + 1)..Len(log[a]) : now - log[a][i] < Window
        /\ r = SubSeq(log[a], n + 1, Len(log[a]))
  BY DEF Recent
<1> DEFINE l == log[a]
           c == calls[a]
           M == Len(l)
           N == Len(c)
           R == Len(r)
<1>2. l \in Seq(Times) /\ c \in Seq([at : Times, verdict : Verdicts])
  BY DEF TypeOK
<1>3. M \in Nat /\ N \in Nat /\ n \in 0..M
  BY <1>2
<1>4. /\ M <= N
      /\ \A k \in 1..M : l[k] = c[N - M + k].at
      /\ \A k \in 1..N : k <= N - M => now - c[k].at >= Window
  BY DEF Kept, Dropped
<1>5. r \in Seq(Times) /\ R = M - n
  BY <1>1, <1>2, <1>3
<1>6. \A k \in 1..R : r[k] = l[n + k]
  BY <1>1, <1>2, <1>3, <1>5
<1>7. /\ \A i \in 1..n : now - l[i] >= Window
      /\ \A i \in (n + 1)..M : now - l[i] < Window
  BY <1>1
<1> HIDE DEF M, N, R
<1>8. n \in Nat /\ R \in Nat /\ R <= N
  BY <1>3, <1>4, <1>5
<1>9. ASSUME NEW k \in 1..R
      PROVE  r[k] = c[N - R + k].at /\ now - r[k] < Window
  <2>1. n + k \in 1..M /\ n + k \in (n + 1)..M
    BY <1>3, <1>5, <1>8
  <2>2. N - M + (n + k) = N - R + k
    BY <1>3, <1>5, <1>8
  <2>3. r[k] = l[n + k]
    BY <1>6
  <2>4. l[n + k] = c[N - M + (n + k)].at /\ now - l[n + k] < Window
    BY <1>4, <1>7, <2>1
  <2> QED
    BY <2>2, <2>3, <2>4
<1>10. ASSUME NEW k \in 1..N, k <= N - R
       PROVE  now - c[k].at >= Window
  <2>1. CASE k <= N - M
    BY <1>4, <2>1
  <2>2. CASE k > N - M
    <3> DEFINE i == k - (N - M)
    <3>1. i \in 1..n /\ i \in 1..M /\ N - M + i = k
      BY <1>3, <1>4, <1>5, <1>8, <1>10, <2>2
    <3> HIDE DEF i
    <3>2. l[i] = c[k].at
      BY <1>4, <3>1
    <3> QED
      BY <1>7, <3>1, <3>2
  <2> QED
    BY <1>3, <2>1, <2>2
<1> QED
  BY <1>5, <1>8, <1>9, <1>10 DEF N, R

\* The entries of the history.
LEMMA HistoryTyped ==
    ASSUME TypeOK, NEW a \in Apps, NEW k \in 1..Len(calls[a])
    PROVE  calls[a][k].at \in Nat /\ calls[a][k].verdict \in Verdicts
<1> DEFINE Entry == [at : Times, verdict : Verdicts]
           c == calls[a]
           e == c[k]
<1>1. c \in Seq(Entry) /\ k \in 1..Len(c)
  BY DEF TypeOK
<1> HIDE DEF Entry, c
<1>2. e \in Entry
  BY <1>1
<1> HIDE DEF e
<1>3. e.at \in Times /\ e.verdict \in Verdicts
  BY <1>2 DEF Entry
<1>4. Times \subseteq Nat
  BY DEF Times
<1> QED
  BY <1>3, <1>4 DEF e, c

\* The count a call is judged by says whether the call lim places before it is
\* inside the window.
LEMMA CountTells ==
    ASSUME TypeOK, Kept, NEW a \in Apps, NEW r, Recent(a, r), NEW lim \in Nat, lim > 0
    PROVE  Len(r) + 1 > lim
             <=> /\ Len(calls[a]) + 1 > lim
                 /\ now - calls[a][Len(calls[a]) + 1 - lim].at < Window
<1> DEFINE c == calls[a]
           N == Len(c)
           R == Len(r)
<1>1. /\ R <= N
      /\ \A k \in 1..R : r[k] = c[N - R + k].at /\ now - r[k] < Window
      /\ \A k \in 1..N : k <= N - R => now - c[k].at >= Window
  BY RecentTail
<1>2. R \in Nat /\ N \in Nat
  BY RecentTail DEF TypeOK
<1>3. \A k \in 1..N : ~(now - c[k].at >= Window /\ now - c[k].at < Window)
  <2> SUFFICES ASSUME NEW k \in 1..N
               PROVE  ~(now - c[k].at >= Window /\ now - c[k].at < Window)
    OBVIOUS
  <2> DEFINE t == c[k].at
  <2>1. t \in Int /\ now \in Int /\ Window \in Int
    <3>1. t \in Nat
      BY HistoryTyped DEF N
    <3>2. now \in Nat
      BY DEF TypeOK, Times
    <3> HIDE DEF t
    <3> QED
      BY <3>1, <3>2, GleipnirAssumption
  <2> HIDE DEF t
  <2>2. ~(now - t >= Window /\ now - t < Window)
    BY <2>1
  <2> QED
    BY <2>2 DEF t
<1> HIDE DEF N, R
<1>4. CASE R + 1 > lim
  <2> DEFINE k == R + 1 - lim
  <2>1. k \in 1..R /\ N - R + k = N + 1 - lim /\ N + 1 > lim
    BY <1>1, <1>2, <1>4
  <2> HIDE DEF k
  <2>2. r[k] = c[N + 1 - lim].at /\ now - r[k] < Window
    BY <1>1, <2>1
  <2> QED
    BY <1>4, <2>1, <2>2 DEF N, R
<1>5. CASE ~(R + 1 > lim) /\ N + 1 > lim
  <2> DEFINE i == N + 1 - lim
  <2>1. i \in 1..N /\ i <= N - R
    BY <1>2, <1>5
  <2> HIDE DEF i
  <2>2. now - c[i].at >= Window
    BY <1>1, <2>1
  <2>3. ~(now - c[i].at < Window)
    BY <1>3, <2>1, <2>2
  <2> QED
    BY <1>5, <2>3 DEF i, N, R
<1>6. CASE ~(R + 1 > lim) /\ ~(N + 1 > lim)
  BY <1>6 DEF N, R
<1> QED
  BY <1>4, <1>5, <1>6

\* A call adds one entry to its application's history.
LEMMA CheckAppends ==
    ASSUME TypeOK, NEW a \in Apps, NEW v \in Verdicts, Check(a, v)
    PROVE  /\ TypeOK'
           /\ Len(calls'[a]) = Len(calls[a]) + 1
           /\ \A i \in 1..Len(calls[a]) : calls'[a][i] = calls[a][i]
           /\ calls'[a][Len(calls[a]) + 1] = [at |-> now, verdict |-> v]
           /\ \A b \in Apps \ {a} : calls'[b] = calls[b] /\ log'[b] = log[b]
           /\ now' = now
           /\ \E r : Recent(a, r) /\ v = Verdict(Len(r) + 1) /\ log'[a] = Append(r, now)
<1> DEFINE e == [at |-> now, verdict |-> v]
<1>1. e \in [at : Times, verdict : Verdicts]
  BY DEF TypeOK
<1>2. calls[a] \in Seq([at : Times, verdict : Verdicts])
  BY DEF TypeOK
<1>3. calls' = [calls EXCEPT ![a] = Append(@, e)] /\ now' = now
  BY DEF Check
<1>4. calls'[a] = Append(calls[a], e) /\ \A b \in Apps \ {a} : calls'[b] = calls[b]
  BY <1>3 DEF TypeOK
<1> HIDE DEF e
<1>5. PICK n \in 1..(Len(log[a]) + 1) :
        LET r == SubSeq(log[a], n, Len(log[a]))
        IN  /\ Recent(a, r)
            /\ v = Verdict(Len(r) + 1)
            /\ log' = [log EXCEPT ![a] = Append(r, now)]
  BY DEF Check
<1> DEFINE r == SubSeq(log[a], n, Len(log[a]))
<1>6. r \in Seq(Times)
  <2>1. log[a] \in Seq(Times)
    BY DEF TypeOK
  <2> QED
    BY <2>1, <1>5
<1>7. Recent(a, r) /\ v = Verdict(Len(r) + 1) /\ log' = [log EXCEPT ![a] = Append(r, now)]
  BY <1>5
<1> HIDE DEF r
<1>8. log'[a] = Append(r, now) /\ \A b \in Apps \ {a} : log'[b] = log[b]
  BY <1>7 DEF TypeOK
<1>9. TypeOK'
  <2>1. Append(r, now) \in Seq(Times)
    BY <1>6 DEF TypeOK
  <2>2. log' \in [Apps -> Seq(Times)]
    BY <2>1, <1>7 DEF TypeOK
  <2>3. Append(calls[a], e) \in Seq([at : Times, verdict : Verdicts])
    BY <1>1, <1>2
  <2>4. calls' \in [Apps -> Seq([at : Times, verdict : Verdicts])]
    BY <2>3, <1>3 DEF TypeOK
  <2> QED
    BY <2>2, <2>4, <1>3 DEF TypeOK
<1>10. /\ Len(calls'[a]) = Len(calls[a]) + 1
       /\ \A i \in 1..Len(calls[a]) : calls'[a][i] = calls[a][i]
       /\ calls'[a][Len(calls[a]) + 1] = e
  BY <1>1, <1>2, <1>4
<1> QED
  BY <1>3, <1>4, <1>7, <1>8, <1>9, <1>10 DEF e

-----------------------------------------------------------------------------
\* Kept and InOrder survive a call.
LEMMA CheckKeeps ==
    ASSUME IInv, NEW a \in Apps, NEW v \in Verdicts, Check(a, v)
    PROVE  Kept' /\ InOrder'
<1> USE DEF IInv
<1> DEFINE c == calls[a]
           N == Len(c)
<1>1. /\ TypeOK'
      /\ Len(calls'[a]) = N + 1
      /\ \A i \in 1..N : calls'[a][i] = c[i]
      /\ calls'[a][N + 1] = [at |-> now, verdict |-> v]
      /\ \A b \in Apps \ {a} : calls'[b] = calls[b] /\ log'[b] = log[b]
      /\ now' = now
  BY CheckAppends
<1>2. PICK r : Recent(a, r) /\ log'[a] = Append(r, now)
  BY CheckAppends
<1>3. /\ r \in Seq(Times)
      /\ Len(r) <= N
      /\ \A k \in 1..Len(r) : r[k] = c[N - Len(r) + k].at
      /\ \A k \in 1..N : k <= N - Len(r) => now - c[k].at >= Window
  BY <1>2, RecentTail
<1>4. Len(r) \in Nat /\ N \in Nat
  BY <1>3 DEF TypeOK
<1>5. /\ Len(log'[a]) = Len(r) + 1
      /\ \A k \in 1..Len(r) : log'[a][k] = r[k]
      /\ log'[a][Len(r) + 1] = now
  <2>1. now \in Times
    BY DEF TypeOK
  <2> QED
    BY <1>2, <1>3, <2>1
<1>6. Kept'
  <2> SUFFICES ASSUME NEW b \in Apps
               PROVE  /\ Len(log'[b]) <= Len(calls'[b])
                      /\ \A k \in 1..Len(log'[b]) :
                            log'[b][k] = calls'[b][Len(calls'[b]) - Len(log'[b]) + k].at
                      /\ \A k \in 1..Len(calls'[b]) :
                            k <= Len(calls'[b]) - Len(log'[b])
                                => now' - calls'[b][k].at >= Window
    BY DEF Kept, Dropped
  <2>1. CASE b = a
    <3>1. Len(log'[a]) <= Len(calls'[a]) /\ Len(calls'[a]) - Len(log'[a]) = N - Len(r)
      BY <1>1, <1>3, <1>4, <1>5
    <3>2. ASSUME NEW k \in 1..Len(log'[a])
          PROVE  log'[a][k] = calls'[a][N - Len(r) + k].at
      <4>1. CASE k = Len(r) + 1
        <5>1. N - Len(r) + k = N + 1
          <6> DEFINE R == Len(r)
          <6>1. R \in Nat /\ k = R + 1
            BY <1>4, <4>1
          <6> HIDE DEF R
          <6> DEFINE M == N
          <6>3. M \in Nat
            BY <1>4
          <6> HIDE DEF M
          <6>2. M - R + k = M + 1
            BY <6>1, <6>3
          <6> QED
            BY <6>2 DEF R, M
        <5>2. calls'[a][N + 1].at = now
          BY <1>1
        <5> QED
          BY <1>5, <4>1, <5>1, <5>2
      <4>2. CASE k # Len(r) + 1
        <5>1. k \in 1..Len(r) /\ N - Len(r) + k \in 1..N
          BY <1>3, <1>4, <1>5, <4>2
        <5> QED
          BY <1>1, <1>3, <1>5, <5>1
      <4> QED
        BY <4>1, <4>2
    <3>3. ASSUME NEW k \in 1..Len(calls'[a]), k <= N - Len(r)
          PROVE  now' - calls'[a][k].at >= Window
      <4>1. k \in 1..N
        BY <1>3, <1>4, <3>3
      <4> QED
        BY <1>1, <1>3, <3>3, <4>1
    <3> QED
      BY <2>1, <3>1, <3>2, <3>3
  <2>2. CASE b # a
    <3>1. calls'[b] = calls[b] /\ log'[b] = log[b] /\ now' = now
      BY <1>1, <2>2
    <3>2. /\ Len(log[b]) <= Len(calls[b])
          /\ \A k \in 1..Len(log[b]) : log[b][k] = calls[b][Len(calls[b]) - Len(log[b]) + k].at
          /\ \A k \in 1..Len(calls[b]) :
                k <= Len(calls[b]) - Len(log[b]) => now - calls[b][k].at >= Window
      BY DEF Kept, Dropped
    <3> QED
      BY <3>1, <3>2
  <2> QED
    BY <2>1, <2>2
<1>7. InOrder'
  <2> SUFFICES ASSUME NEW b \in Apps
               PROVE  /\ \A i \in 1..Len(calls'[b]) : calls'[b][i].at <= now'
                      /\ \A i, j \in 1..Len(calls'[b]) :
                            i <= j => calls'[b][i].at <= calls'[b][j].at
    BY DEF InOrder
  <2>1. CASE b = a
    <3>1. now \in Nat /\ calls'[a][N + 1].at = now
      BY <1>1 DEF TypeOK, Times
    <3>2. ASSUME NEW i \in 1..Len(calls'[a])
          PROVE  calls'[a][i].at <= now' /\ (i # N + 1 => i \in 1..N)
      <4>1. i = N + 1 \/ i \in 1..N
        BY <1>1, <1>4
      <4> QED
        BY <1>1, <3>1, <4>1 DEF InOrder
    <3>3. ASSUME NEW i \in 1..Len(calls'[a]), NEW j \in 1..Len(calls'[a]), i <= j
          PROVE  calls'[a][i].at <= calls'[a][j].at
      <4>1. CASE j = N + 1
        BY <1>1, <3>1, <3>2, <4>1
      <4>2. CASE j # N + 1
        <5>1. i \in 1..N /\ j \in 1..N
          BY <1>1, <1>4, <3>2, <3>3, <4>2
        <5> QED
          BY <1>1, <3>3, <5>1 DEF InOrder
      <4> QED
        BY <4>1, <4>2
    <3> QED
      BY <2>1, <3>2, <3>3
  <2>2. CASE b # a
    BY <1>1, <2>2 DEF InOrder
  <2> QED
    BY <2>1, <2>2
<1> QED
  BY <1>6, <1>7

\* The new call is judged by both limits as the history says.
LEMMA CheckJudges ==
    ASSUME IInv, NEW a \in Apps, NEW v \in Verdicts, Check(a, v)
    PROVE  Sliding' /\ SlidingSoft'
<1> USE DEF IInv
<1> DEFINE c == calls[a]
           N == Len(c)
<1>1. /\ TypeOK'
      /\ Len(calls'[a]) = N + 1
      /\ \A i \in 1..N : calls'[a][i] = c[i]
      /\ calls'[a][N + 1] = [at |-> now, verdict |-> v]
      /\ \A b \in Apps \ {a} : calls'[b] = calls[b]
  BY CheckAppends
<1>2. PICK r : Recent(a, r) /\ v = Verdict(Len(r) + 1)
  <2>1. \E r : Recent(a, r) /\ v = Verdict(Len(r) + 1) /\ log'[a] = Append(r, now)
    BY CheckAppends
  <2> QED
    BY <2>1
<1>3. Len(r) \in Nat /\ N \in Nat
  BY <1>2, RecentTail DEF TypeOK
<1>4. calls'[a][N + 1].at = now /\ calls'[a][N + 1].verdict = v
  BY <1>1
<1>5. ASSUME NEW lim \in Nat
      PROVE  Len(r) + 1 > lim
               <=> /\ N + 1 > lim
                   /\ now - calls'[a][N + 1 - lim].at < Window
  <2>1. CASE lim = 0
    <3>1. now - now < Window
      BY GleipnirAssumption DEF TypeOK, Times
    <3>2. N + 1 - lim = N + 1
      BY <1>3, <2>1
    <3> QED
      BY <1>3, <1>4, <2>1, <3>1, <3>2
  <2>2. CASE lim > 0
    <3>1. Len(r) + 1 > lim
            <=> N + 1 > lim /\ now - c[N + 1 - lim].at < Window
      BY <1>2, <2>2, CountTells
    <3>2. N + 1 > lim => N + 1 - lim \in 1..N
      BY <1>3, <2>2
    <3> QED
      BY <1>1, <3>1, <3>2
  <2> QED
    BY <2>1, <2>2
<1>6. (v = "deny" <=> Len(r) + 1 > HardLimit) /\ (v # "ok" <=> Len(r) + 1 > SoftLimit)
  BY <1>2, <1>3, GleipnirAssumption DEF Verdict
<1>7. Sliding'
  <2> SUFFICES ASSUME NEW b \in Apps, NEW i \in 1..Len(calls'[b])
               PROVE  calls'[b][i].verdict = "deny"
                        <=> /\ i > HardLimit
                            /\ calls'[b][i].at - calls'[b][i - HardLimit].at < Window
    BY DEF Sliding
  <2>1. CASE b = a /\ i = N + 1
    BY <1>4, <1>5, <1>6, <2>1, GleipnirAssumption
  <2>2. CASE b = a /\ i # N + 1
    <3>1. i \in 1..N /\ (i > HardLimit => i - HardLimit \in 1..N)
      BY <1>1, <1>3, <2>2, GleipnirAssumption
    <3> QED
      BY <1>1, <2>2, <3>1 DEF Sliding
  <2>3. CASE b # a
    BY <1>1, <2>3 DEF Sliding
  <2> QED
    BY <2>1, <2>2, <2>3
<1>8. SlidingSoft'
  <2> SUFFICES ASSUME NEW b \in Apps, NEW i \in 1..Len(calls'[b])
               PROVE  calls'[b][i].verdict # "ok"
                        <=> /\ i > SoftLimit
                            /\ calls'[b][i].at - calls'[b][i - SoftLimit].at < Window
    BY DEF SlidingSoft
  <2>1. CASE b = a /\ i = N + 1
    BY <1>4, <1>5, <1>6, <2>1, GleipnirAssumption
  <2>2. CASE b = a /\ i # N + 1
    <3>1. i \in 1..N /\ (i > SoftLimit => i - SoftLimit \in 1..N)
      BY <1>1, <1>3, <2>2, GleipnirAssumption
    <3> QED
      BY <1>1, <2>2, <3>1 DEF SlidingSoft
  <2>3. CASE b # a
    BY <1>1, <2>3 DEF SlidingSoft
  <2> QED
    BY <2>1, <2>2, <2>3
<1> QED
  BY <1>7, <1>8

\* stats prunes the list and leaves the history.
LEMMA StatsKeeps ==
    ASSUME IInv, NEW a \in Apps, Stats(a)
    PROVE  IInv'
<1> USE DEF IInv
<1>1. PICK r : Recent(a, r) /\ log' = [log EXCEPT ![a] = r]
  BY DEF Stats
<1>2. now' = now /\ calls' = calls
  BY DEF Stats
<1>3. /\ r \in Seq(Times)
      /\ Len(r) <= Len(calls[a])
      /\ \A k \in 1..Len(r) : r[k] = calls[a][Len(calls[a]) - Len(r) + k].at
      /\ \A k \in 1..Len(calls[a]) :
            k <= Len(calls[a]) - Len(r) => now - calls[a][k].at >= Window
  BY <1>1, RecentTail
<1>4. log'[a] = r /\ \A b \in Apps \ {a} : log'[b] = log[b]
  BY <1>1 DEF TypeOK
<1>5. TypeOK'
  BY <1>1, <1>2, <1>3 DEF TypeOK
<1>6. Kept'
  <2> SUFFICES ASSUME NEW b \in Apps
               PROVE  /\ Len(log'[b]) <= Len(calls[b])
                      /\ \A k \in 1..Len(log'[b]) :
                            log'[b][k] = calls[b][Len(calls[b]) - Len(log'[b]) + k].at
                      /\ \A k \in 1..Len(calls[b]) :
                            k <= Len(calls[b]) - Len(log'[b])
                                => now - calls[b][k].at >= Window
    BY <1>2 DEF Kept, Dropped
  <2>1. CASE b = a
    BY <1>3, <1>4, <2>1
  <2>2. CASE b # a
    BY <1>4, <2>2 DEF Kept, Dropped
  <2> QED
    BY <2>1, <2>2
<1>7. InOrder' /\ Sliding' /\ SlidingSoft'
  BY <1>2 DEF InOrder, Sliding, SlidingSoft
<1> QED
  BY <1>5, <1>6, <1>7

\* As time passes nothing comes back into the window.
LEMMA TickKeeps ==
    ASSUME IInv, Tick
    PROVE  IInv'
<1> USE DEF IInv
<1>1. now' \in Times /\ now' > now /\ log' = log /\ calls' = calls
  BY DEF Tick
<1>2. now \in Nat /\ now' \in Nat /\ Window \in Nat
  BY <1>1, GleipnirAssumption DEF TypeOK, Times
<1>3. \A a \in Apps : \A k \in 1..Len(calls[a]) : calls[a][k].at \in Nat
  BY HistoryTyped
<1>4. TypeOK' /\ Sliding' /\ SlidingSoft'
  BY <1>1 DEF TypeOK, Sliding, SlidingSoft
<1>5. Kept'
  <2>1. ASSUME NEW a \in Apps, NEW k \in 1..Len(calls[a]), k <= Len(calls[a]) - Len(log[a])
        PROVE  now' - calls[a][k].at >= Window
    <3>1. now - calls[a][k].at >= Window
      BY <2>1 DEF Kept, Dropped
    <3> QED
      BY <1>1, <1>2, <1>3, <3>1
  <2> QED
    BY <1>1, <2>1 DEF Kept, Dropped
<1>6. InOrder'
  <2>1. ASSUME NEW a \in Apps, NEW i \in 1..Len(calls[a])
        PROVE  calls[a][i].at <= now'
    BY <1>1, <1>2, <1>3 DEF InOrder
  <2> QED
    BY <1>1, <2>1 DEF InOrder
<1> QED
  BY <1>4, <1>5, <1>6

-----------------------------------------------------------------------------
(* The invariant holds from the start and every step keeps it. *)
THEOREM GleipnirInvariant == Spec => []IInv
<1>1. Init => IInv
  BY DEF Init, IInv, TypeOK, Kept, Dropped, InOrder, Sliding, SlidingSoft
<1>2. IInv /\ [Next]_vars => IInv'
  <2> SUFFICES ASSUME IInv, [Next]_vars
               PROVE  IInv'
    OBVIOUS
  <2>1. ASSUME NEW a \in Apps, NEW v \in Verdicts, Check(a, v)
        PROVE  IInv'
    BY <2>1, CheckAppends, CheckKeeps, CheckJudges DEF IInv
  <2>2. ASSUME NEW a \in Apps, Stats(a)
        PROVE  IInv'
    BY <2>2, StatsKeeps
  <2>3. CASE Tick
    BY <2>3, TickKeeps
  <2>4. CASE UNCHANGED vars
    BY <2>4 DEF vars, IInv, TypeOK, Kept, Dropped, InOrder, Sliding, SlidingSoft
  <2> QED
    BY <2>1, <2>2, <2>3, <2>4 DEF Next
<1> QED
  BY <1>1, <1>2, PTL DEF Spec

(* Type correctness of the limiter (gleipnir.py: Gleipnir). *)
THEOREM GleipnirTypeOK == Spec => []TypeOK
<1>1. IInv => TypeOK
  BY DEF IInv
<1> QED
  BY <1>1, GleipnirInvariant, PTL

(* A call is denied exactly when HardLimit calls came before it inside the
   window (gleipnir.py: check). *)
THEOREM GleipnirSliding == Spec => []Sliding
<1>1. IInv => Sliding
  BY DEF IInv
<1> QED
  BY <1>1, GleipnirInvariant, PTL

(* The call before a denied one was warned or denied (gleipnir.py:7). *)
THEOREM GleipnirSoftFirst == Spec => []SoftFirst
<1>1. IInv => SoftFirst
  <2> SUFFICES ASSUME IInv, SoftLimit < HardLimit, NEW a \in Apps,
                      NEW i \in 1..Len(calls[a]), calls[a][i].verdict = "deny"
               PROVE  i > 1 /\ calls[a][i - 1].verdict \in {"warn", "deny"}
    BY DEF SoftFirst
  <2> DEFINE c == calls[a]
           N == Len(c)
  <2>1. N \in Nat /\ i \in 1..N /\ i > HardLimit /\ c[i].at - c[i - HardLimit].at < Window
    BY DEF IInv, TypeOK, Sliding
  <2>2. \A k \in 1..N : c[k].at \in Nat /\ c[k].verdict \in Verdicts
    BY HistoryTyped DEF IInv
  <2>3. \A j, k \in 1..N : j <= k => c[j].at <= c[k].at
    BY DEF IInv, InOrder
  <2>4. \A k \in 1..N : k > SoftLimit /\ c[k].at - c[k - SoftLimit].at < Window
                           => c[k].verdict # "ok"
    BY DEF IInv, SlidingSoft
  <2> HIDE DEF N
  <2>5. /\ i > 1
        /\ i - 1 \in 1..N
        /\ i - 1 > SoftLimit
        /\ i - HardLimit \in 1..N
        /\ (i - 1) - SoftLimit \in 1..N
        /\ i - HardLimit <= (i - 1) - SoftLimit
        /\ i - 1 <= i
    BY <2>1, GleipnirAssumption
  <2> DEFINE t1 == c[i - 1].at
             t2 == c[i].at
             t3 == c[i - HardLimit].at
             t4 == c[(i - 1) - SoftLimit].at
  <2>6. /\ t1 \in Nat /\ t2 \in Nat /\ t3 \in Nat /\ t4 \in Nat /\ Window \in Nat
        /\ t1 <= t2 /\ t3 <= t4 /\ t2 - t3 < Window
    BY <2>1, <2>2, <2>3, <2>5, GleipnirAssumption
  <2>7. t1 - t4 < Window => c[i - 1].verdict # "ok"
    BY <2>4, <2>5
  <2> HIDE DEF t1, t2, t3, t4
  <2>8. t1 - t4 < Window
    BY <2>6
  <2> QED
    BY <2>2, <2>5, <2>7, <2>8 DEF Verdicts
<1> QED
  BY <1>1, GleipnirInvariant, PTL
=============================================================================
