---------------------------- MODULE UpkeepProofs ----------------------------
(***************************************************************************)
(* Proofs about the Nest, dream_run, the insight pass and the fleet, for   *)
(* any callers, files, times, sessions, dashboards and services.           *)
(***************************************************************************)
EXTENDS Nest, Dream, Norn, Fleet, DataLemmas

-----------------------------------------------------------------------------
(* The Nest: who is about to move holds a free spot of its own.            *)

Shape(l) == l \in [todo : {l.todo}, read : {l.read}, new : {l.new}, item : {l.item}, spot : {l.spot}]

Mover(c) == pass[c].todo = "move"

\* Who is about to move a file holds a free spot of its own, unless two had chosen one.
NestInv ==
    /\ DOMAIN pass = Everyone /\ DOMAIN shelf = Spots
    /\ raced \in BOOLEAN
    /\ \A c \in Everyone : Shape(pass[c])
    /\ \A c \in Everyone : Mover(c) => pass[c].spot \in Spots
    /\ raced \/ /\ crushed = {}
                /\ \A c \in Everyone : Mover(c) => shelf[pass[c].spot] = NoFile
                /\ \A c, o \in Everyone : Mover(c) /\ Mover(o) /\ c # o => pass[c].spot # pass[o].spot

LEMMA NestStart == NestInit => NestInv
<1> SUFFICES ASSUME NestInit PROVE NestInv
  OBVIOUS
<1>1. Shape(Resting) /\ Resting.todo # "move"
  BY DEF Resting, Shape
<1>2. \A c \in Everyone : pass[c] = Resting
  BY DEF NestInit
<1> QED
  BY <1>1, <1>2 DEF NestInit, NestInv, Mover

\* A caller that takes no spot, and moves nothing, disturbs nothing.
LEMMA Elsewhither ==
    ASSUME NestInv, NEW c \in Everyone, NEW l, Shape(l), l.todo # "move",
           Does(c, l), UNCHANGED <<shelf, crushed, raced>>
    PROVE  NestInv'
<1>1. DOMAIN pass' = Everyone /\ pass'[c] = l /\ \A o \in Everyone \ {c} : pass'[o] = pass[o]
  BY DEF NestInv, Does
<1>2. \A o \in Everyone : Mover(o)' => Mover(o) /\ pass'[o] = pass[o]
  BY <1>1 DEF Mover
<1>3. \A o \in Everyone : Shape(pass[o])'
  BY <1>1 DEF NestInv, Shape
<1> QED
  BY <1>1, <1>2, <1>3 DEF NestInv

LEMMA LoadKeeps ==
    ASSUME NestInv, NEW c \in Everyone, NEW todo, todo # "move", NEW item, Load(c, todo, item)
    PROVE  NestInv'
<1> DEFINE l == [Resting EXCEPT !.todo = todo, !.item = item, !.read = queue, !.new = queue]
<1>1. Shape(l) /\ l.todo # "move"
  BY DEF Resting, Shape
<1>2. Does(c, l)
  BY Zenon DEF Load
<1>3. UNCHANGED <<shelf, crushed, raced>>
  BY DEF Load, disk
<1> HIDE DEF l
<1> QED
  BY <1>1, <1>2, <1>3, Elsewhither

\* The step c is in, with another todo and queue, keeps its shape.
LEMMA Reshaped ==
    ASSUME NEW l, Shape(l), NEW q
    PROVE  /\ Shape(Saving(l, q)) /\ Saving(l, q).todo # "move"
           /\ Shape([l EXCEPT !.todo = "write"]) /\ [l EXCEPT !.todo = "write"].todo # "move"
           /\ Shape(Resting) /\ Resting.todo # "move"
BY DEF Shape, Saving, Resting

LEMMA QuietKeeps ==
    ASSUME NestInv, NEW c \in Everyone,
           Looks(c) \/ Skips(c) \/ NoDestination(c) \/ Misses(c) \/ Truncates(c) \/ Writes(c) \/ Ends(c)
    PROVE  NestInv'
<1>1. UNCHANGED <<shelf, crushed, raced>>
  BY DEF Looks, Skips, NoDestination, Misses, Truncates, Writes, Ends, disk
<1>2. Shape(pass[c])
  BY DEF NestInv
<1>3. \E q : Does(c, Resting) \/ Does(c, Saving(pass[c], q)) \/ Does(c, [pass[c] EXCEPT !.todo = "write"])
  BY DEF Looks, Skips, NoDestination, Misses, Truncates, Writes, Ends
<1>4. PICK q : Does(c, Resting) \/ Does(c, Saving(pass[c], q)) \/ Does(c, [pass[c] EXCEPT !.todo = "write"])
  BY <1>3
<1>5. CASE Does(c, Resting)
  BY <1>1, <1>2, <1>5, Reshaped, Elsewhither
<1>6. CASE Does(c, Saving(pass[c], q))
  BY <1>1, <1>2, <1>6, Reshaped, Elsewhither
<1>7. CASE Does(c, [pass[c] EXCEPT !.todo = "write"])
  BY <1>1, <1>2, <1>7, Reshaped, Elsewhither
<1> QED
  BY <1>4, <1>5, <1>6, <1>7

LEMMA ChoosesKeeps == ASSUME NestInv, NEW c \in Everyone, Chooses(c) PROVE NestInv'
<1>1. PICK d \in Places, n \in Numbers :
        /\ Free(d, n)
        /\ Does(c, [pass[c] EXCEPT !.todo = "move", !.spot = <<d, n>>])
        /\ raced' = (raced \/ Rival(c, <<d, n>>))
  BY DEF Chooses
<1> DEFINE s == <<d, n>>
           l == [pass[c] EXCEPT !.todo = "move", !.spot = s]
<1>2. s \in Spots /\ shelf[s] = NoFile
  BY <1>1 DEF Free, Spots
<1>3. Shape(pass[c])
  BY DEF NestInv
<1>4. Shape(l) /\ l.todo = "move" /\ l.spot = s
  BY <1>3 DEF Shape
<1>5. Does(c, l) /\ raced' = (raced \/ Rival(c, s)) /\ UNCHANGED <<shelf, crushed>>
  BY <1>1 DEF Chooses, disk
<1>6. Rival(c, s) \/ \A o \in Everyone \ {c} : Mover(o) => pass[o].spot # s
  BY DEF Rival, Doing, Mover
<1>7. Rival(c, s) \in BOOLEAN
  BY DEF Rival
<1> HIDE DEF s, l
<1> QED
  BY <1>2, <1>4, <1>5, <1>6, <1>7 DEF NestInv, Does, Mover

LEMMA MovesKeeps == ASSUME NestInv, NEW c \in Everyone, Moves(c) PROVE NestInv'
<1>1. Mover(c) /\ Shape(pass[c])
  BY DEF Moves, Doing, Mover, NestInv
<1>2. CASE nest[Src(pass[c])] = NoFile
  BY <1>1, <1>2, Reshaped, Elsewhither DEF Moves, disk
<1>3. CASE nest[Src(pass[c])] # NoFile
  <2> DEFINE l == Saving(pass[c], Marked(pass[c], "confirmed"))
             f == nest[Src(pass[c])]
  <2>1. Shape(l) /\ l.todo # "move"
    BY <1>1, Reshaped
  <2>2. /\ Does(c, l) /\ shelf' = [shelf EXCEPT ![pass[c].spot] = f]
        /\ crushed' = crushed \cup ({shelf[pass[c].spot]} \ {NoFile})
        /\ raced' = raced
    BY <1>3 DEF Moves
  <2> HIDE DEF l, f
  <2> QED
    BY <1>1, <2>1, <2>2 DEF NestInv, Does, Mover
<1> QED
  BY <1>2, <1>3

LEMMA NestKeeps == NestInv /\ [NestNext]_nestVars => NestInv'
<1> SUFFICES ASSUME NestInv, [NestNext]_nestVars PROVE NestInv'
  OBVIOUS
<1>1. ASSUME NEW p \in Paths, Drop(p) PROVE NestInv'
  BY <1>1 DEF Drop, NestInv, Mover, Shape
<1>2. ASSUME NEW c \in Everyone, Tool(c) PROVE NestInv'
  <2>1. CASE ConfirmReview(c) \/ SkipItem(c) \/ ScanNest(c)
    BY <2>1, LoadKeeps DEF ConfirmReview, SkipItem, ScanNest
  <2>2. CASE Looks(c) \/ Skips(c) \/ NoDestination(c) \/ Misses(c) \/ Truncates(c) \/ Writes(c) \/ Ends(c)
    BY <2>2, QuietKeeps
  <2> QED
    BY <1>2, <2>1, <2>2, ChoosesKeeps, MovesKeeps DEF Tool
<1>3. CASE UNCHANGED nestVars
  BY <1>3 DEF nestVars, disk, NestInv, Mover, Shape
<1> QED
  BY <1>1, <1>2, <1>3 DEF NestNext

(***************************************************************************)
(* However many tools and watchers confirm, scan and skip, and wherever    *)
(* they end, a confirm moves no file onto another one, unless a second one *)
(* had chosen the same free name before the first moved (_unique_dest and  *)
(* shutil.move of nest_intake.py).                                         *)
(***************************************************************************)
THEOREM SpecFilesKept == NestSpec => []FilesKept
<1>1. NestInv => FilesKept
  BY DEF NestInv, FilesKept
<1> QED
  BY <1>1, NestStart, NestKeeps, PTL DEF NestSpec

-----------------------------------------------------------------------------
(* The Nest's queue, as long as nobody wrote over one he had not read.     *)

Words == {"pending", "confirmed", "skipped", "error"}
Items == [id : Nat, src : Paths, st : Words]

\* Ids tell positions, and one item at most is pending for a path.
Good(q) ==
    /\ q \in Seq(Items)
    /\ \A j \in 1 .. Len(q) : q[j].id = j
    /\ \A i, j \in 1 .. Len(q) : q[i].st = "pending" /\ q[j].st = "pending" /\ q[i].src = q[j].src => i = j

\* What a caller has read is a beginning of the queue, but for items dealt with since.
Follows(r) ==
    /\ Len(r) <= Len(queue)
    /\ \A j \in 1 .. Len(r) : r[j].src = queue[j].src /\ (queue[j].st = "pending" => r[j].st = "pending")
\* The queue may still become what a caller has read.
Alike(r) ==
    /\ Len(r) = Len(queue)
    /\ \A j \in 1 .. Len(r) : r[j].st = "pending" => queue[j].st = "pending"

\* A caller is about to save the item it dealt with, or items for the files it found.
MarkedAt(l) ==
    /\ l.item \in 1 .. Len(l.read) /\ Len(l.new) = Len(l.read)
    /\ \A j \in 1 .. Len(l.read) : l.new[j].src = l.read[j].src /\ (j # l.item => l.new[j].st = l.read[j].st)
    /\ l.new[l.item].st # "pending"
StagedOn(l) ==
    /\ l.item = 0 /\ Len(l.new) > Len(l.read)
    /\ \A j \in 1 .. Len(l.read) : l.new[j] = l.read[j]
    /\ \A j \in 1 .. Len(l.new) : j > Len(l.read) => l.new[j].st = "pending"
Saves(l) == l.todo \in {"truncate", "write"}

Sound(l) ==
    /\ l.todo # "none" => Good(l.read) /\ Good(l.new) /\ Follows(l.read)
    /\ l.todo = "scan" => l.item = 0 /\ l.new = l.read
    /\ l.todo \in {"confirm", "skip", "move"} => l.item \in 1 .. Len(l.read) /\ l.new = l.read
    /\ l.todo = "move" => l.spot # <<>>
    /\ Saves(l) => MarkedAt(l) \/ StagedOn(l)
    /\ l.todo = "write" => torn /\ queue = l.read

\* The caller in l has moved the file of path p and will say so.
Explains(l, p) ==
    /\ Saves(l) /\ l.item \in 1 .. Len(l.read) /\ l.spot # <<>>
    /\ l.read[l.item].src = p /\ l.read[l.item].st = "pending"
Justified(p) == nest[p] # NoFile \/ p \in taken \/ \E c \in Callers : Explains(pass[c], p)

Staged(l) == Saves(l) /\ l.item = 0 /\ Alike(l.read)
Covered(l) == \A j \in 1 .. Len(l.new) : j > Len(l.read) => Justified(l.new[j].src)

\* One caller saves at a time, and each pending item has its file in the drop zone, or a
\* person took it, or a caller moved it and is about to save that.
QueueSound ==
    /\ Good(queue)
    /\ \A c \in Everyone : Sound(pass[c]) /\ (c = Watcher => pass[c].item = 0)
    /\ \A c, o \in Everyone : pass[c].todo = "write" /\ pass[o].todo = "write" => c = o
    /\ \A j \in 1 .. Len(queue) : queue[j].st = "pending" => Justified(queue[j].src)
    /\ \A c \in Everyone : Staged(pass[c]) => Covered(pass[c])

\* So it is until somebody writes a copy that is out of date.
QueueInv ==
    /\ DOMAIN nest = Paths /\ outdated \in BOOLEAN
    /\ outdated \/ QueueSound

LEMMA ItemFields ==
    ASSUME NEW q \in Seq(Items)
    PROVE  /\ Len(q) \in Nat
           /\ \A j \in 1 .. Len(q) : q[j] \in Items /\ q[j].id \in Nat /\ q[j].src \in Paths /\ q[j].st \in Words
<1>1. Len(q) \in Nat /\ \A j \in 1 .. Len(q) : q[j] \in Items
  OBVIOUS
<1>2. \A x \in Items : x.id \in Nat /\ x.src \in Paths /\ x.st \in Words
  BY DEF Items
<1> QED BY <1>1, <1>2

LEMMA QueueStart == NestInit => QueueInv
<1> SUFFICES ASSUME NestInit PROVE QueueInv
  OBVIOUS
<1>1. Resting.todo = "none" /\ Resting.item = 0
  BY DEF Resting
<1>2. \A c \in Everyone : pass[c] = Resting
  BY DEF NestInit
<1>3. queue = <<>>
  BY DEF NestInit
<1>4. Good(queue) /\ Len(queue) = 0
  BY <1>3 DEF Good
<1>5. \A c \in Everyone : Sound(pass[c]) /\ ~Staged(pass[c]) /\ pass[c].item = 0 /\ pass[c].todo # "write"
  BY <1>1, <1>2 DEF Sound, Saves, Staged
<1>6. QueueSound
  BY <1>4, <1>5 DEF QueueSound
<1> QED
  BY <1>6 DEF NestInit, QueueInv

\* A caller changes its state, but does not begin to write, and no path is left unexplained.
LEMMA Turns ==
    ASSUME NestInv, QueueSound, NEW c \in Everyone, NEW l, Does(c, l),
           UNCHANGED <<queue, torn>>,
           Sound(l), l.todo # "write", c = Watcher => l.item = 0,
           \A p \in Paths : Justified(p) => Justified(p)',
           Staged(l) => \A j \in 1 .. Len(l.new) : j > Len(l.read) => Justified(l.new[j].src)'
    PROVE  QueueSound'
<1>1. pass'[c] = l /\ \A o \in Everyone \ {c} : pass'[o] = pass[o]
  BY DEF NestInv, Does
<1>2. \A o \in Everyone : Sound(pass[o])' /\ (o = Watcher => pass'[o].item = 0)
  <2>1. \A o \in Everyone : Sound(pass[o]) /\ (o = Watcher => pass[o].item = 0)
    BY DEF QueueSound
  <2> QED BY <1>1, <2>1 DEF Sound, Follows
<1>3. \A j \in 1 .. Len(queue) : queue[j].src \in Paths
  BY ItemFields DEF QueueSound, Good
<1>4. (\A j \in 1 .. Len(queue) : queue[j].st = "pending" => Justified(queue[j].src))'
  <2>1. \A j \in 1 .. Len(queue) : queue[j].st = "pending" => Justified(queue[j].src)
    BY DEF QueueSound
  <2> QED BY <1>3, <2>1
<1>5. ASSUME NEW o \in Everyone, Staged(pass[o])' PROVE Covered(pass[o])'
  <2>1. CASE o = c
    BY <1>1, <1>5, <2>1 DEF Staged, Alike, Covered
  <2>2. CASE o # c
    <3>1. pass'[o] = pass[o] /\ Staged(pass[o])
      BY <1>1, <1>5, <2>2 DEF Staged, Alike
    <3>3. Covered(pass[o]) /\ pass[o].new \in Seq(Items)
      BY <3>1 DEF Staged, Saves, QueueSound, Sound, Good
    <3>2. \A j \in 1 .. Len(pass[o].new) : pass[o].new[j].src \in Paths
      BY <3>3, ItemFields
    <3> QED BY <3>1, <3>2, <3>3 DEF Covered
  <2> QED BY <2>1, <2>2
<1>6. \A a, o \in Everyone : pass'[a].todo = "write" /\ pass'[o].todo = "write" => a = o
  BY <1>1 DEF QueueSound
<1>7. Good(queue)'
  BY DEF QueueSound, Good
<1> QED BY <1>2, <1>4, <1>5, <1>6, <1>7 DEF QueueSound

\* A call that has saved nothing justifies no path by itself.
LEMMA Unmoved ==
    ASSUME NestInv, NEW c \in Everyone, NEW l, Does(c, l), ~Saves(pass[c]), UNCHANGED <<nest, taken>>,
           NEW p \in Paths, Justified(p)
    PROVE  Justified(p)'
<1>1. pass'[c] = l /\ \A o \in Everyone \ {c} : pass'[o] = pass[o]
  BY DEF NestInv, Does
<1>2. CASE nest[p] # NoFile \/ p \in taken
  BY <1>2 DEF Justified
<1>3. CASE \E o \in Callers : Explains(pass[o], p)
  <2>1. PICK o \in Callers : Explains(pass[o], p)
    BY <1>3
  <2>2. o # c /\ pass'[o] = pass[o]
    BY <1>1, <2>1 DEF Explains, Everyone
  <2> QED BY <2>1, <2>2 DEF Justified, Explains, Saves
<1> QED BY <1>2, <1>3 DEF Justified

\* What an item gets for a word: it alone changes.
LEMMA MarkedIs ==
    ASSUME NEW l, Good(l.new), l.item \in 1 .. Len(l.new), NEW w \in Words \ {"pending"}
    PROVE  /\ Src(l) = l.new[l.item].src /\ Min(Found(l.new, l.item)) = l.item
           /\ Good(Marked(l, w)) /\ Len(Marked(l, w)) = Len(l.new)
           /\ \A j \in 1 .. Len(l.new) : Marked(l, w)[j].src = l.new[j].src /\ (j # l.item => Marked(l, w)[j].st = l.new[j].st)
           /\ Marked(l, w)[l.item].st = w
<1> DEFINE q == l.new
           i == l.item
           m == [q EXCEPT ![i].st = w]
<1>1. q \in Seq(Items) /\ Len(q) \in Nat /\ i \in Nat
  BY ItemFields DEF Good
<1>2. Found(q, i) = {i}
  BY <1>1 DEF Found, Good
<1>3. Min({i}) = i
  BY <1>1 DEF Min
<1>4. \A j \in 1 .. Len(q) : m[j] = IF j = i THEN [q[j] EXCEPT !.st = w] ELSE q[j]
  BY <1>1
<1>5. \A x \in Items : LET y == [x EXCEPT !.st = w] IN y \in Items /\ y.id = x.id /\ y.src = x.src /\ y.st = w
  BY DEF Items
<1>6. \A j \in 1 .. Len(q) : q[j] \in Items
  BY <1>1, ItemFields
<1>7. \A j \in 1 .. Len(q) : m[j] \in Items /\ m[j].id = q[j].id /\ m[j].src = q[j].src /\ (j # i => m[j].st = q[j].st)
  BY <1>4, <1>5, <1>6
<1>8. m \in Seq(Items) /\ Len(m) = Len(q)
  <2>1. m = [j \in 1 .. Len(q) |-> m[j]]
    BY <1>1
  <2> QED BY <1>1, <1>7, <2>1
<1>9. m[i].st = w
  BY <1>4, <1>5, <1>6
<1>10. Good(m)
  <2>1. \A j \in 1 .. Len(m) : m[j].st = "pending" => q[j].st = "pending" /\ m[j].src = q[j].src /\ m[j].id = q[j].id
    BY <1>7, <1>8, <1>9
  <2> QED BY <1>7, <1>8, <2>1 DEF Good
<1>11. Marked(l, w) = m /\ Src(l) = q[i].src
  BY <1>2, <1>3 DEF Marked, Src
<1> HIDE DEF m
<1> QED BY <1>2, <1>3, <1>7, <1>8, <1>9, <1>10, <1>11

\* What a scan stages comes after what it read, pending, for files without a pending item.
LEMMA StageIs ==
    ASSUME NEW q, Good(q), NEW S \in SUBSET Paths, S \cap Pending(q) = {}
    PROVE  /\ Good(Stage(q, S)) /\ Len(Stage(q, S)) >= Len(q)
           /\ \A j \in 1 .. Len(q) : Stage(q, S)[j] = q[j]
           /\ \A j \in 1 .. Len(Stage(q, S)) : j > Len(q) => Stage(q, S)[j].st = "pending" /\ Stage(q, S)[j].src \in S
           /\ Len(Stage(q, S)) = Len(q) => Stage(q, S) = q
<1> DEFINE s == Sorted(S)
           t == [k \in 1 .. Len(s) |-> [id |-> Len(q) + k, src |-> s[k], st |-> "pending"]]
           r == Stage(q, S)
<1>1. q \in Seq(Items) /\ Len(q) \in Nat
  BY ItemFields DEF Good
<1>2. S \in SUBSET Nat /\ IsFiniteSet(S)
  BY NestAssumption, FS_Subset
<1>3. s \in Seq(S) /\ Len(s) \in Nat /\ \A i, j \in 1 .. Len(s) : i < j <=> s[i] < s[j]
  BY <1>2, SortedIs
<1> HIDE DEF s
<1>4. \A k \in 1 .. Len(s) : s[k] \in S /\ s[k] \in Nat /\ s[k] \in Paths
  <2>1. \A k \in 1 .. Len(s) : s[k] \in S
    BY <1>3
  <2>2. \A x \in S : x \in Nat /\ x \in Paths
    BY <1>2
  <2> QED BY <2>1, <2>2
<1>5. \A i, j \in 1 .. Len(s) : s[i] = s[j] => i = j
  <2> SUFFICES ASSUME NEW i \in 1 .. Len(s), NEW j \in 1 .. Len(s), s[i] = s[j] PROVE i = j
    OBVIOUS
  <2>1. ~(s[i] < s[j]) /\ ~(s[j] < s[i])
    BY <1>4
  <2>2. ~(i < j) /\ ~(j < i)
    BY <1>3, <2>1
  <2> QED BY <1>3, <2>2
<1>6. r = q \o t
  BY DEF Stage, s
<1> HIDE DEF r
<1>7. \A k \in 1 .. Len(s) : t[k] \in Items /\ t[k].id = Len(q) + k /\ t[k].src = s[k] /\ t[k].st = "pending"
  BY <1>1, <1>3, <1>4 DEF Items, Words
<1>8. t \in Seq(Items) /\ Len(t) = Len(s)
  <2>1. t = [k \in 1 .. Len(s) |-> t[k]] /\ Len(s) \in Nat
    BY <1>3
  <2> HIDE DEF t
  <2> QED BY <1>7, <2>1
<1> HIDE DEF t
<1>9. /\ r \in Seq(Items) /\ Len(r) = Len(q) + Len(s)
      /\ \A j \in 1 .. Len(q) : r[j] = q[j]
      /\ \A k \in 1 .. Len(s) : r[Len(q) + k] = t[k]
  <2>1. /\ q \o t \in Seq(Items) /\ Len(q \o t) = Len(q) + Len(t)
        /\ \A j \in 1 .. Len(q) : (q \o t)[j] = q[j]
        /\ \A k \in 1 .. Len(t) : (q \o t)[Len(q) + k] = t[k]
    BY <1>1, <1>8, Concatenated
  <2> QED BY <1>6, <1>8, <2>1
<1>10. \A j \in 1 .. Len(r) : j > Len(q) =>
         j - Len(q) \in 1 .. Len(s) /\ r[j] = t[j - Len(q)]
  <2> SUFFICES ASSUME NEW j \in 1 .. Len(r), j > Len(q) PROVE j - Len(q) \in 1 .. Len(s) /\ r[j] = t[j - Len(q)]
    OBVIOUS
  <2>1. j - Len(q) \in 1 .. Len(s) /\ Len(q) + (j - Len(q)) = j
    BY <1>1, <1>3, <1>9
  <2> QED BY <1>9, <2>1
<1>11. \A j \in 1 .. Len(r) : j > Len(q) =>
         r[j].id = j /\ r[j].st = "pending" /\ r[j].src = s[j - Len(q)] /\ r[j].src \in S /\ j - Len(q) \in 1 .. Len(s)
  <2> SUFFICES ASSUME NEW j \in 1 .. Len(r), j > Len(q)
               PROVE  r[j].id = j /\ r[j].st = "pending" /\ r[j].src = s[j - Len(q)] /\ r[j].src \in S /\ j - Len(q) \in 1 .. Len(s)
    OBVIOUS
  <2>1. Len(q) + (j - Len(q)) = j
    BY <1>1, <1>9, <1>3
  <2> QED BY <1>4, <1>7, <1>10, <2>1
<1>12. \A j \in 1 .. Len(q) : q[j].st = "pending" => q[j].src \notin S
  BY <1>1 DEF Pending
<1>13. Good(r)
  <2>1. \A j \in 1 .. Len(r) : j <= Len(q) => j \in 1 .. Len(q)
    BY <1>1
  <2>2. \A j \in 1 .. Len(r) : r[j].id = j
    BY <1>1, <1>3, <1>9, <1>11, <2>1 DEF Good
  <2>3. ASSUME NEW i \in 1 .. Len(r), NEW j \in 1 .. Len(r),
               r[i].st = "pending", r[j].st = "pending", r[i].src = r[j].src
        PROVE  i = j
    <3>1. CASE i <= Len(q) /\ j <= Len(q)
      BY <1>1, <1>9, <2>1, <2>3, <3>1 DEF Good
    <3>2. CASE i > Len(q) /\ j > Len(q)
      <4>1. i - Len(q) = j - Len(q)
        BY <1>5, <1>11, <2>3, <3>2
      <4> QED BY <4>1, <1>1, <1>9
    <3>3. CASE i <= Len(q) /\ j > Len(q)
      BY <1>9, <1>11, <1>12, <2>1, <2>3, <3>3
    <3>4. CASE i > Len(q) /\ j <= Len(q)
      BY <1>9, <1>11, <1>12, <2>1, <2>3, <3>4
    <3> QED BY <1>1, <1>3, <1>9, <3>1, <3>2, <3>3, <3>4
  <2> QED BY <1>9, <2>2, <2>3 DEF Good
<1>14. Len(r) = Len(q) => r = q
  BY <1>1, <1>9, SameSequence
<1>15. Len(r) >= Len(q)
  BY <1>1, <1>3, <1>9
<1> QED BY <1>9, <1>11, <1>13, <1>14, <1>15 DEF r

-----------------------------------------------------------------------------
\* A caller that has done with the queue, or never began, needs nothing.
LEMMA Rests == Sound(Resting) /\ Resting.todo = "none" /\ Resting.item = 0 /\ ~Staged(Resting) /\ ~Saves(Resting)
BY DEF Resting, Sound, Saves, Staged

LEMMA DropTells == ASSUME NestInv, QueueInv, NEW p \in Paths, Drop(p) PROVE QueueInv'
<1>1. NoFile \notin Files
  BY NestAssumption
<1>2. nest'[p] # NoFile /\ \A q \in Paths \ {p} : nest'[q] = nest[q] /\ (q \in taken => q \in taken')
  BY <1>1 DEF Drop, QueueInv
<1>3. UNCHANGED <<pass, queue, torn, outdated>> /\ DOMAIN nest' = Paths
  BY DEF Drop, QueueInv
<1>4. \A q \in Paths : Justified(q) => Justified(q)'
  BY <1>2, <1>3 DEF Justified, Explains, Saves
<1>5. ASSUME QueueSound PROVE QueueSound'
  <2>1. \A c \in Everyone : Sound(pass[c])' /\ (c = Watcher => pass'[c].item = 0)
    BY <1>3, <1>5 DEF QueueSound, Sound, Follows
  <2>2. \A j \in 1 .. Len(queue) : queue[j].src \in Paths
    BY <1>5, ItemFields DEF QueueSound, Good
  <2>3. (\A j \in 1 .. Len(queue) : queue[j].st = "pending" => Justified(queue[j].src))'
    BY <1>3, <1>4, <1>5, <2>2 DEF QueueSound
  <2>4. ASSUME NEW o \in Everyone, Staged(pass[o])' PROVE Covered(pass[o])'
    <3>1. Staged(pass[o]) /\ Covered(pass[o]) /\ pass[o].new \in Seq(Items)
      BY <1>3, <1>5, <2>4 DEF Staged, Alike, Saves, QueueSound, Sound, Good
    <3>2. \A j \in 1 .. Len(pass[o].new) : pass[o].new[j].src \in Paths
      BY <3>1, ItemFields
    <3> QED BY <1>3, <1>4, <3>1, <3>2 DEF Covered
  <2> QED BY <1>3, <1>5, <2>1, <2>3, <2>4 DEF QueueSound, Good
<1> QED BY <1>3, <1>5 DEF QueueInv

LEMMA LoadTells ==
    ASSUME NestInv, QueueInv, NEW c \in Everyone, NEW todo, NEW item, Load(c, todo, item),
           \/ todo = "scan" /\ item = 0
           \/ c \in Callers /\ todo \in {"confirm", "skip"} /\ item \in 1 .. Len(queue)
           \/ outdated
    PROVE  QueueInv'
<1> DEFINE l == [Resting EXCEPT !.todo = todo, !.item = item, !.read = queue, !.new = queue]
<1>1. l.todo = todo /\ l.item = item /\ l.read = queue /\ l.new = queue
  BY DEF Resting
<1>2. Does(c, l) /\ pass[c].todo = "none"
  BY DEF Load, Doing
<1>3. UNCHANGED <<nest, queue, torn, taken, outdated>>
  BY DEF Load, disk
<1> HIDE DEF l
<1>4. ASSUME QueueSound, ~outdated PROVE QueueSound'
  <2>1. Good(queue) /\ Len(queue) \in Nat
    BY <1>4, ItemFields DEF QueueSound, Good
  <2>2. ~Saves(pass[c]) /\ ~Staged(l) /\ l.todo # "write" /\ ~Saves(l) /\ l.todo # "move"
    BY <1>1, <1>2, <1>4 DEF Saves, Staged
  <2>3. Follows(l.read)
    BY <1>1, <2>1 DEF Follows
  <2>4. Sound(l)
    BY <1>1, <1>4, <2>1, <2>2, <2>3 DEF Sound
  <2>5. c = Watcher => l.item = 0
    BY <1>1, <1>4, NestAssumption
  <2> QED BY <1>2, <1>3, <1>4, <2>2, <2>4, <2>5, Turns, Unmoved
<1> QED BY <1>3, <1>4 DEF QueueInv

LEMMA LooksTells == ASSUME NestInv, QueueInv, NEW c \in Everyone, Looks(c) PROVE QueueInv'
<1>a. PICK r : r = pass[c].new
  OBVIOUS
<1>b. PICK S : S = {p \in Paths : nest[p] # NoFile /\ p \notin Pending(r)}
  OBVIOUS
<1>3. PICK q : q = StageNew(r) /\ q = Stage(r, S)
  BY <1>b DEF StageNew
<1>d. PICK l : l = IF q = r THEN Resting ELSE Saving(pass[c], q)
  OBVIOUS
<1>1. Doing(c, "scan") /\ Does(c, l)
  BY <1>a, <1>3, <1>d DEF Looks
<1>2. UNCHANGED <<nest, queue, torn, taken, outdated>>
  BY DEF Looks, disk
<1>4. ASSUME QueueSound PROVE QueueSound'
  <2>1. ~Saves(pass[c]) /\ Shape(pass[c]) /\ pass[c].item = 0 /\ Sound(pass[c]) /\ r = pass[c].read
    BY <1>1, <1>a, <1>4 DEF Doing, Saves, NestInv, QueueSound, Sound
  <2>2. Good(r) /\ Follows(r) /\ Len(r) \in Nat
    BY <1>1, <2>1, ItemFields DEF Sound, Doing, Good
  <2>3. S \in SUBSET Paths /\ S \cap Pending(r) = {} /\ \A p \in S : nest[p] # NoFile
    BY <1>b
  <2>4. /\ Good(q) /\ Len(q) >= Len(r)
        /\ \A j \in 1 .. Len(r) : q[j] = r[j]
        /\ \A j \in 1 .. Len(q) : j > Len(r) => q[j].st = "pending" /\ q[j].src \in S
        /\ Len(q) = Len(r) => q = r
    BY <1>3, <2>2, <2>3, StageIs
  <2>5. CASE q = r
    BY <1>1, <1>2, <1>4, <1>d, <2>1, <2>5, Rests, Turns, Unmoved
  <2>6. CASE q # r
    <3>1. l.todo = "truncate" /\ l.new = q /\ l.read = r /\ l.item = 0
      BY <1>d, <2>1, <2>6 DEF Saving, Shape
    <3>2. Does(c, l)
      BY <1>1
    <3>3. Len(q) > Len(r)
      BY <2>2, <2>4, <2>6, ItemFields DEF Good
    <3>4. StagedOn(l)
      BY <2>4, <3>1, <3>3 DEF StagedOn
    <3>5. Sound(l) /\ l.todo # "write"
      BY <2>2, <2>4, <3>1, <3>4 DEF Sound, Saves
    <3>6. \A j \in 1 .. Len(l.new) : j > Len(l.read) => Justified(l.new[j].src)'
      BY <1>2, <2>3, <2>4, <3>1 DEF Justified
    <3> QED BY <1>2, <1>4, <2>1, <3>1, <3>2, <3>5, <3>6, Turns, Unmoved
  <2> QED BY <2>5, <2>6
<1> QED BY <1>2, <1>4 DEF QueueInv

\* A caller saves the item it dealt with.
LEMMA MarksTells ==
    ASSUME NestInv, QueueSound, NEW c \in Everyone, NEW l, l = pass[c], Sound(l),
           l.todo \in {"confirm", "skip", "move"}, NEW w \in Words \ {"pending"},
           Does(c, Saving(l, Marked(l, w))), UNCHANGED <<queue, torn>>,
           \A p \in Paths : Justified(p) => Justified(p)'
    PROVE  QueueSound'
<1>1. Shape(l) /\ ~Saves(pass[c]) /\ (c = Watcher => l.item = 0) /\ Sound(l)
  BY DEF NestInv, QueueSound, Saves
<1>2. l.item \in 1 .. Len(l.read) /\ l.new = l.read /\ Good(l.read) /\ Follows(l.read)
  BY <1>1 DEF Sound
<1>0. Good(l.new) /\ l.item \in 1 .. Len(l.new)
  BY <1>2
<1>3. PICK q : q = Marked(l, w)
  OBVIOUS
<1>4. /\ Good(q) /\ Len(q) = Len(l.new) /\ q[l.item].st = w
      /\ \A j \in 1 .. Len(l.new) : q[j].src = l.new[j].src /\ (j # l.item => q[j].st = l.new[j].st)
  <2>1. /\ Good(Marked(l, w)) /\ Len(Marked(l, w)) = Len(l.new) /\ Marked(l, w)[l.item].st = w
        /\ \A j \in 1 .. Len(l.new) : Marked(l, w)[j].src = l.new[j].src /\ (j # l.item => Marked(l, w)[j].st = l.new[j].st)
    BY <1>0, MarkedIs
  <2> QED BY <1>3, <2>1
<1>5. PICK k : k = Saving(l, q)
  OBVIOUS
<1>6. k.todo = "truncate" /\ k.new = q /\ k.read = l.read /\ k.item = l.item
  BY <1>1, <1>5 DEF Saving, Shape
<1>7. Does(c, k)
  BY <1>3, <1>5
<1>8. MarkedAt(k)
  BY <1>2, <1>4, <1>6 DEF MarkedAt
<1>9. Sound(k)
  BY <1>2, <1>4, <1>6, <1>8 DEF Sound, Saves
<1>10. ~Staged(k) /\ k.todo # "write" /\ (c = Watcher => k.item = 0)
  BY <1>1, <1>2, <1>6, ItemFields DEF Staged, Good
<1> QED BY <1>1, <1>7, <1>9, <1>10, Turns

\* It leaves the file where it is, or found none.
LEMMA WordsTell ==
    ASSUME NestInv, QueueInv, NEW c \in Everyone, Skips(c) \/ NoDestination(c) \/ Misses(c)
    PROVE  QueueInv'
<1>1. UNCHANGED <<nest, queue, torn, taken, outdated>>
  BY DEF Skips, NoDestination, Misses, disk
<1>2. ASSUME QueueSound PROVE QueueSound'
  <2>1. pass[c].todo \in {"skip", "confirm"} /\ ~Saves(pass[c]) /\ Sound(pass[c])
    BY <1>2 DEF Skips, NoDestination, Misses, Doing, QueueSound, Saves
  <2>2. ASSUME NEW l, Does(c, l) PROVE \A p \in Paths : Justified(p) => Justified(p)'
    BY <1>1, <2>1, <2>2, Unmoved
  <2>3. CASE NoDestination(c)
    BY <1>1, <1>2, <2>1, <2>2, <2>3, Rests, Turns DEF NoDestination
  <2>4. CASE Skips(c)
    <3>1. Does(c, Saving(pass[c], Marked(pass[c], "skipped"))) /\ "skipped" \in Words \ {"pending"}
      BY <2>4 DEF Skips, Words
    <3> QED BY <1>1, <1>2, <2>1, <2>2, <3>1, MarksTells
  <2>5. CASE Misses(c)
    <3>1. Does(c, Saving(pass[c], Marked(pass[c], "error"))) /\ "error" \in Words \ {"pending"}
      BY <2>5 DEF Misses, Words
    <3> QED BY <1>1, <1>2, <2>1, <2>2, <3>1, MarksTells
  <2> QED BY <2>3, <2>4, <2>5
<1> QED BY <1>1, <1>2 DEF QueueInv

LEMMA ChoosesTells == ASSUME NestInv, QueueInv, NEW c \in Everyone, Chooses(c) PROVE QueueInv'
<1>1. PICK d \in Places, n \in Numbers : Does(c, [pass[c] EXCEPT !.todo = "move", !.spot = <<d, n>>])
  BY DEF Chooses
<1>2. UNCHANGED <<nest, queue, torn, taken, outdated>> /\ pass[c].todo = "confirm"
  BY DEF Chooses, disk, Doing
<1>3. ASSUME QueueSound PROVE QueueSound'
  <2>1. Sound(pass[c]) /\ Shape(pass[c]) /\ ~Saves(pass[c]) /\ (c = Watcher => pass[c].item = 0)
    BY <1>2, <1>3 DEF QueueSound, NestInv, Saves
  <2>2. PICK l : l = [pass[c] EXCEPT !.todo = "move", !.spot = <<d, n>>]
    OBVIOUS
  <2>3. <<d, n>> # <<>>
    OBVIOUS
  <2>4. l.todo = "move" /\ l.spot # <<>> /\ l.read = pass[c].read /\ l.new = pass[c].new /\ l.item = pass[c].item
    BY <2>1, <2>2, <2>3 DEF Shape
  <2>5. Sound(l)
    BY <1>2, <2>1, <2>4 DEF Sound, Saves
  <2>6. ~Staged(l) /\ l.todo # "write" /\ Does(c, l)
    BY <1>1, <2>2, <2>4 DEF Staged, Saves
  <2> QED BY <1>2, <1>3, <2>1, <2>4, <2>5, <2>6, Turns, Unmoved
<1> QED BY <1>2, <1>3 DEF QueueInv

LEMMA MovesTells == ASSUME NestInv, QueueInv, NEW c \in Everyone, Moves(c) PROVE QueueInv'
<1>1. UNCHANGED <<queue, torn, outdated>> /\ pass[c].todo = "move" /\ ~Saves(pass[c]) /\ Shape(pass[c])
  BY DEF Moves, Doing, Saves, NestInv
<1>2. DOMAIN nest' = Paths
  BY DEF Moves, QueueInv, disk
<1>3. ASSUME QueueSound PROVE QueueSound'
  <2>1. PICK l : l = pass[c]
    OBVIOUS
  <2>2. Sound(l) /\ (c = Watcher => l.item = 0) /\ l.todo = "move" /\ Shape(l)
    BY <1>1, <1>3, <2>1 DEF QueueSound
  <2>3. l.item \in 1 .. Len(l.read) /\ l.new = l.read /\ Good(l.read) /\ l.spot # <<>>
    BY <2>2 DEF Sound
  <2>4. Src(l) = l.read[l.item].src /\ Min(Found(l.new, l.item)) = l.item
    BY <2>3, MarkedIs DEF Words
  <2>5. c \in Callers
    BY <2>2, <2>3, ItemFields DEF Everyone, Good
  <2>6. CASE nest[Src(l)] = NoFile
    <3>1. Does(c, Resting) /\ UNCHANGED <<nest, taken>>
      BY <2>1, <2>6 DEF Moves, disk
    <3> QED BY <1>1, <1>3, <3>1, Rests, Turns, Unmoved
  <2>7. CASE nest[Src(l)] # NoFile
    <3>1. PICK p : p = Src(l)
      OBVIOUS
    <3>2. /\ nest' = [nest EXCEPT ![p] = NoFile]
          /\ Does(c, Saving(l, Marked(l, "confirmed")))
          /\ taken' = IF l.read[l.item].st = "pending" THEN taken ELSE taken \cup {p}
      BY <2>1, <2>3, <2>4, <2>7, <3>1 DEF Moves
    <3>3. PICK k : k = Saving(l, Marked(l, "confirmed"))
      OBVIOUS
    <3>4. k.todo = "truncate" /\ k.item = l.item /\ k.read = l.read /\ k.spot = l.spot
      BY <2>2, <3>3 DEF Saving, Shape
    <3>5. pass'[c] = k /\ \A o \in Everyone \ {c} : pass'[o] = pass[o]
      BY <3>2, <3>3 DEF NestInv, Does
    <3>6. Justified(p)'
      <4>1. CASE l.read[l.item].st = "pending"
        BY <2>3, <2>4, <2>5, <3>1, <3>4, <3>5, <4>1 DEF Justified, Explains, Saves
      <4>2. CASE l.read[l.item].st # "pending"
        BY <3>2, <4>2 DEF Justified
      <4> QED BY <4>1, <4>2
    <3>7. \A q \in Paths : Justified(q) => Justified(q)'
      <4> SUFFICES ASSUME NEW q \in Paths, q # p, Justified(q) PROVE Justified(q)'
        BY <3>6
      <4>1. nest'[q] = nest[q] /\ (q \in taken => q \in taken')
        BY <3>2 DEF QueueInv
      <4>2. CASE nest[q] # NoFile \/ q \in taken
        BY <4>1, <4>2 DEF Justified
      <4>3. ASSUME NEW o \in Callers, Explains(pass[o], q) PROVE Justified(q)'
        <5>1. o # c /\ o \in Everyone
          BY <1>1, <4>3 DEF Explains, Everyone
        <5>2. pass'[o] = pass[o]
          BY <3>5, <5>1
        <5> QED BY <4>3, <5>2 DEF Justified, Explains, Saves
      <4> QED BY <4>2, <4>3 DEF Justified
    <3>8. "confirmed" \in Words \ {"pending"}
      BY DEF Words
    <3> QED BY <1>1, <1>3, <2>1, <2>2, <3>2, <3>7, <3>8, MarksTells
  <2> QED BY <2>6, <2>7
<1> QED BY <1>1, <1>2, <1>3 DEF QueueInv

LEMMA EndsTells == ASSUME NestInv, QueueInv, NEW c \in Everyone, Ends(c) PROVE QueueInv'
<1>1. UNCHANGED <<nest, queue, torn, outdated>> /\ Does(c, Resting)
  BY DEF Ends, disk
<1>2. taken' = IF pass[c].item # 0 /\ pass[c].spot # <<>> /\ pass[c].todo # "move"
               THEN taken \cup {Src(pass[c])} ELSE taken
  BY DEF Ends, Doing
<1>3. ASSUME QueueSound PROVE QueueSound'
  <2>1. pass'[c] = Resting /\ \A o \in Everyone \ {c} : pass'[o] = pass[o]
    BY <1>1 DEF NestInv, Does
  <2>2. ASSUME NEW p \in Paths, Justified(p) PROVE Justified(p)'
    <3>1. CASE nest[p] # NoFile \/ p \in taken
      BY <1>1, <1>2, <3>1 DEF Justified
    <3>2. ASSUME NEW o \in Callers, o # c, Explains(pass[o], p) PROVE Justified(p)'
      BY <2>1, <3>2 DEF Justified, Explains, Saves, Everyone
    <3>3. ASSUME Explains(pass[c], p) PROVE Justified(p)'
      <4>1. Saves(pass[c]) /\ pass[c].item \in 1 .. Len(pass[c].read) /\ pass[c].spot # <<>> /\ Sound(pass[c])
        BY <1>3, <3>3 DEF Explains, QueueSound
      <4>2. Good(pass[c].read) /\ Good(pass[c].new) /\ (MarkedAt(pass[c]) \/ StagedOn(pass[c]))
        BY <4>1 DEF Sound, Saves
      <4>3. pass[c].item # 0
        BY <4>1, <4>2, ItemFields DEF Good
      <4>4. MarkedAt(pass[c])
        BY <4>2, <4>3 DEF StagedOn
      <4>5. pass[c].item \in 1 .. Len(pass[c].new)
        BY <4>4 DEF MarkedAt
      <4>6. Src(pass[c]) = pass[c].new[pass[c].item].src
        BY <4>2, <4>5, MarkedIs DEF Words
      <4>7. Src(pass[c]) = p
        BY <3>3, <4>4, <4>6 DEF MarkedAt, Explains
      <4> QED BY <1>2, <4>1, <4>3, <4>7 DEF Saves, Justified
    <3> QED BY <2>2, <3>1, <3>2, <3>3 DEF Justified
  <2> QED BY <1>1, <1>3, <2>2, Rests, Turns
<1> QED BY <1>1, <1>3 DEF QueueInv

LEMMA TruncatesTells == ASSUME NestInv, QueueInv, NEW c \in Everyone, Truncates(c) PROVE QueueInv'
<1>1. /\ UNCHANGED <<nest, queue, taken>> /\ torn' = TRUE
      /\ pass[c].todo = "truncate" /\ Does(c, [pass[c] EXCEPT !.todo = "write"])
      /\ outdated' = (outdated \/ torn \/ queue # pass[c].read)
  BY DEF Truncates, Doing, disk
<1>2. DOMAIN nest' = Paths
  BY <1>1 DEF QueueInv
<1>3. outdated' \in BOOLEAN
  BY <1>1 DEF QueueInv
<1>4. ASSUME ~outdated' PROVE QueueSound'
  <2>1. ~torn /\ queue = pass[c].read /\ QueueSound
    BY <1>1, <1>4 DEF QueueInv
  <2>2. PICK l : l = [pass[c] EXCEPT !.todo = "write"]
    OBVIOUS
  <2>3. Shape(pass[c]) /\ Sound(pass[c]) /\ (c = Watcher => pass[c].item = 0)
    BY <2>1 DEF NestInv, QueueSound
  <2>4. l.todo = "write" /\ l.item = pass[c].item /\ l.read = pass[c].read /\ l.new = pass[c].new /\ l.spot = pass[c].spot
    BY <2>2, <2>3 DEF Shape
  <2>5. pass'[c] = l /\ \A o \in Everyone \ {c} : pass'[o] = pass[o]
    BY <1>1, <2>2 DEF NestInv, Does
  <2>6. \A o \in Everyone : Sound(pass[o]) /\ pass[o].todo # "write" /\ (o = Watcher => pass[o].item = 0)
    BY <2>1 DEF QueueSound, Sound
  <2>7. MarkedAt(l) \/ StagedOn(l)
    BY <1>1, <2>3, <2>4 DEF Sound, Saves, MarkedAt, StagedOn
  <2>8. Sound(l)'
    BY <1>1, <2>1, <2>3, <2>4, <2>7 DEF Sound, Saves, Follows
  <2>9. \A o \in Everyone \ {c} : Sound(pass[o])'
    BY <1>1, <2>5, <2>6 DEF Sound, Saves, Follows
  <2>10. \A p \in Paths : Justified(p) => Justified(p)'
    <3> SUFFICES ASSUME NEW p \in Paths, Justified(p) PROVE Justified(p)'
      OBVIOUS
    <3>1. \A o \in Callers : Explains(pass[o], p) => Explains(pass'[o], p)
      BY <1>1, <2>4, <2>5 DEF Explains, Saves, Everyone
    <3> QED BY <1>1, <3>1 DEF Justified, Explains, Saves
  <2>11. (\A j \in 1 .. Len(queue) : queue[j].st = "pending" => Justified(queue[j].src))'
    <3>1. \A j \in 1 .. Len(queue) : queue[j].src \in Paths
      BY <2>1, ItemFields DEF QueueSound, Good
    <3> QED BY <1>1, <2>1, <2>10, <3>1 DEF QueueSound
  <2>12. ASSUME NEW o \in Everyone, Staged(pass[o])' PROVE Covered(pass[o])'
    <3>1. pass'[o].new = pass[o].new /\ pass'[o].read = pass[o].read /\ pass'[o].item = pass[o].item /\ Staged(pass[o])
      BY <1>1, <2>4, <2>5, <2>12 DEF Staged, Saves, Alike
    <3>2. Covered(pass[o]) /\ pass[o].new \in Seq(Items)
      BY <2>1, <2>6, <3>1 DEF QueueSound, Sound, Saves, Staged, Good
    <3>3. \A j \in 1 .. Len(pass[o].new) : pass[o].new[j].src \in Paths
      BY <3>2, ItemFields
    <3> QED BY <2>10, <3>1, <3>2, <3>3 DEF Covered
  <2>13. \A o \in Everyone : Sound(pass[o])' /\ (o = Watcher => pass'[o].item = 0)
    BY <2>3, <2>4, <2>5, <2>6, <2>8, <2>9
  <2>14. \A a, o \in Everyone : pass'[a].todo = "write" /\ pass'[o].todo = "write" => a = o
    BY <2>5, <2>6
  <2> QED BY <1>1, <2>1, <2>11, <2>12, <2>13, <2>14 DEF QueueSound, Good
<1> QED BY <1>2, <1>3, <1>4 DEF QueueInv

\* What is written was made from what is in the queue: it marks one item or adds some.
LEMMA WritesTells == ASSUME NestInv, QueueInv, NEW c \in Everyone, Writes(c) PROVE QueueInv'
<1>1. /\ UNCHANGED <<nest, taken, outdated>> /\ torn' = FALSE
      /\ pass[c].todo = "write" /\ Does(c, Resting) /\ queue' = pass[c].new
  BY DEF Writes, Doing, disk
<1>2. ASSUME QueueSound PROVE QueueSound'
  <2>1. PICK l : l = pass[c]
    OBVIOUS
  <2>2. Sound(l) /\ l.todo = "write"
    BY <1>1, <1>2, <2>1 DEF QueueSound
  <2>3. queue = l.read /\ Good(l.read) /\ Good(l.new) /\ (MarkedAt(l) \/ StagedOn(l)) /\ queue' = l.new
    BY <1>1, <2>1, <2>2 DEF Sound, Saves
  <2>4. l.read \in Seq(Items) /\ l.new \in Seq(Items) /\ Len(l.read) \in Nat /\ Len(l.new) \in Nat
    BY <2>3, ItemFields DEF Good
  <2>5. pass'[c] = Resting /\ \A o \in Everyone \ {c} : pass'[o] = pass[o] /\ pass[o].todo # "write"
    BY <1>1, <1>2 DEF NestInv, Does, QueueSound
  <2>6. /\ Len(l.read) <= Len(l.new)
        /\ \A j \in 1 .. Len(l.read) : l.new[j].src = l.read[j].src /\ (l.new[j].st = "pending" => l.read[j].st = "pending")
    BY <2>3, <2>4 DEF MarkedAt, StagedOn
  <2>7. ASSUME NEW o \in Everyone, o # c PROVE Sound(pass[o])'
    <3>1. Sound(pass[o]) /\ pass'[o] = pass[o] /\ pass[o].todo # "write"
      BY <1>2, <2>5, <2>7 DEF QueueSound
    <3>2. ASSUME pass[o].todo # "none" PROVE Follows(pass[o].read)'
      <4>1. Follows(pass[o].read) /\ Len(pass[o].read) \in Nat
        BY <3>1, <3>2, ItemFields DEF Sound, Good
      <4> QED BY <2>3, <2>4, <2>6, <3>1, <4>1 DEF Follows
    <3> QED BY <3>1, <3>2 DEF Sound, Saves
  <2>8. \A o \in Everyone : Sound(pass[o])' /\ (o = Watcher => pass'[o].item = 0) /\ pass'[o].todo # "write"
    <3>1. Sound(pass[c])' /\ pass'[c].item = 0 /\ pass'[c].todo # "write"
      BY <2>5, Rests DEF Sound, Saves
    <3> QED BY <1>2, <2>5, <2>7, <3>1 DEF QueueSound
  \* Only the item it marks may be what it explained.
  <2>9. ASSUME NEW p \in Paths, Justified(p), ~(MarkedAt(l) /\ Explains(l, p)) PROVE Justified(p)'
    <3>1. ~Explains(l, p)
      BY <2>3, <2>4, <2>9 DEF StagedOn, Explains
    <3>2. \A o \in Callers : Explains(pass[o], p) => o # c /\ Explains(pass'[o], p)
      BY <2>1, <2>5, <3>1 DEF Everyone
    <3> QED BY <1>1, <2>9, <3>2 DEF Justified, Explains, Saves
  <2>10. \A j \in 1 .. Len(l.read) : queue[j].st = "pending" => Justified(queue[j].src)
    BY <1>2, <2>3 DEF QueueSound
  <2>11. \A j \in 1 .. Len(l.new) : l.new[j].src \in Paths
    BY <2>4, ItemFields
  <2>12. ASSUME NEW j \in 1 .. Len(l.new), l.new[j].st = "pending" PROVE Justified(l.new[j].src)'
    <3>1. CASE MarkedAt(l)
      <4>1. j \in 1 .. Len(l.read) /\ j # l.item /\ l.read[j].st = "pending" /\ l.read[j].src = l.new[j].src
        BY <2>12, <3>1 DEF MarkedAt
      <4>2. ~Explains(l, l.new[j].src)
        BY <2>3, <4>1 DEF Explains, Good
      <4> QED BY <2>3, <2>9, <2>10, <2>11, <4>1, <4>2
    <3>2. CASE StagedOn(l)
      <4>1. CASE j <= Len(l.read)
        <5>1. j \in 1 .. Len(l.read) /\ l.read[j] = l.new[j]
          BY <2>4, <3>2, <4>1 DEF StagedOn
        <5>2. Justified(l.new[j].src)
          BY <2>3, <2>10, <2>12, <5>1
        <5>3. ~MarkedAt(l)
          BY <2>4, <3>2 DEF StagedOn, MarkedAt
        <5> QED BY <2>9, <2>11, <5>2, <5>3
      <4>2. CASE j > Len(l.read)
        <5>1. Staged(pass[c]) /\ Covered(pass[c])
          BY <1>2, <2>1, <2>2, <2>3, <3>2 DEF Staged, Alike, StagedOn, Saves, QueueSound
        <5>2. Justified(l.new[j].src)
          BY <2>1, <4>2, <5>1 DEF Covered
        <5>3. ~MarkedAt(l)
          BY <2>4, <3>2 DEF StagedOn, MarkedAt
        <5> QED BY <2>9, <2>11, <5>2, <5>3
      <4> QED BY <2>4, <4>1, <4>2
    <3> QED BY <2>3, <3>1, <3>2
  <2>13. ASSUME NEW o \in Everyone, Staged(pass[o])' PROVE Covered(pass[o])'
    <3>1. o # c /\ pass'[o] = pass[o] /\ Saves(pass[o]) /\ pass[o].item = 0
      BY <2>5, <2>13, Rests DEF Staged, Saves
    <3>2. PICK k : k = pass[o]
      OBVIOUS
    <3>3. Sound(k) /\ k.todo # "none" /\ k.item = 0
      BY <1>2, <3>1, <3>2 DEF QueueSound, Saves
    <3>4. Good(k.read) /\ Good(k.new) /\ Follows(k.read) /\ StagedOn(k) /\ Len(k.read) \in Nat /\ Len(k.new) \in Nat
      <4>1. Good(k.read) /\ Good(k.new) /\ Follows(k.read) /\ (StagedOn(k) \/ MarkedAt(k))
        BY <3>1, <3>2, <3>3 DEF Sound
      <4>2. Len(k.read) \in Nat /\ Len(k.new) \in Nat
        BY <4>1, ItemFields DEF Good
      <4> QED BY <3>3, <4>1, <4>2 DEF MarkedAt
    <3>5. /\ Len(k.read) = Len(l.new)
          /\ \A j \in 1 .. Len(k.read) : k.read[j].st = "pending" => l.new[j].st = "pending"
      BY <2>3, <2>13, <3>1, <3>2 DEF Staged, Alike
    <3>6. Len(k.read) = Len(l.read) /\ MarkedAt(l)
      BY <2>3, <2>4, <2>6, <3>4, <3>5 DEF Follows, StagedOn
    <3>7. Alike(k.read)
      BY <2>3, <2>6, <3>5, <3>6 DEF Alike
    <3>8. Covered(k)
      BY <1>2, <3>1, <3>2, <3>7 DEF QueueSound, Staged
    <3>9. \A j \in 1 .. Len(k.new) : k.new[j].src \in Paths
      BY <3>4, ItemFields DEF Good
    <3>10. ASSUME NEW j \in 1 .. Len(k.new), j > Len(k.read) PROVE Justified(k.new[j].src)'
      <4>1. Justified(k.new[j].src) /\ k.new[j].st = "pending"
        BY <3>4, <3>8, <3>10 DEF Covered, StagedOn
      <4>2. ~Explains(l, k.new[j].src)
        <5> SUFFICES ASSUME Explains(l, k.new[j].src) PROVE FALSE
          OBVIOUS
        <5>1. l.item \in 1 .. Len(l.read) /\ queue[l.item].st = "pending" /\ queue[l.item].src = k.new[j].src
          BY <2>3 DEF Explains
        <5>2. l.item \in 1 .. Len(k.read) /\ k.read[l.item].st = "pending" /\ k.read[l.item].src = k.new[j].src
          BY <3>4, <3>6, <5>1 DEF Follows
        <5>3. l.item \in 1 .. Len(k.new) /\ k.new[l.item] = k.read[l.item]
          BY <3>4, <5>2 DEF StagedOn
        <5>4. l.item = j
          BY <3>4, <4>1, <5>2, <5>3 DEF Good
        <5> QED BY <3>4, <3>10, <5>2, <5>4
      <4> QED BY <2>9, <3>9, <4>1, <4>2
    <3> QED BY <3>1, <3>2, <3>10 DEF Covered
  <2>14. Good(queue)'
    BY <2>3 DEF Good
  <2>15. (\A j \in 1 .. Len(queue) : queue[j].st = "pending" => Justified(queue[j].src))'
    BY <2>3, <2>12
  <2> QED BY <2>8, <2>13, <2>14, <2>15 DEF QueueSound
<1> QED BY <1>1, <1>2 DEF QueueInv

LEMMA QueueKeeps == NestInv /\ QueueInv /\ [NestNext]_nestVars => QueueInv'
<1> SUFFICES ASSUME NestInv, QueueInv, [NestNext]_nestVars PROVE QueueInv'
  OBVIOUS
<1>1. ASSUME NEW c \in Everyone, Tool(c) PROVE QueueInv'
  <2>1. CASE ScanNest(c)
    BY <2>1, LoadTells DEF ScanNest
  <2>2. ASSUME c \in Callers, ConfirmReview(c) \/ SkipItem(c) PROVE QueueInv'
    <3>1. PICK j \in DOMAIN queue, todo \in {"confirm", "skip"} : Load(c, todo, queue[j].id)
      BY <2>2 DEF ConfirmReview, SkipItem
    <3>2. outdated \/ queue[j].id \in 1 .. Len(queue)
      BY DEF QueueInv, QueueSound, Good
    <3> QED BY <2>2, <3>1, <3>2, LoadTells
  <2> QED
    BY <1>1, <2>1, <2>2, LooksTells, WordsTell, ChoosesTells, MovesTells, TruncatesTells, WritesTells, EndsTells DEF Tool
<1>2. CASE UNCHANGED nestVars
  <2>1. UNCHANGED <<nest, taken, queue, torn, pass, outdated>>
    BY <1>2 DEF nestVars, disk
  <2>2. ASSUME NEW r PROVE (Follows(r) => Follows(r)') /\ (Alike(r)' => Alike(r))
    BY <2>1 DEF Follows, Alike
  <2>3. \A p : Justified(p) => Justified(p)'
    BY <2>1 DEF Justified, Explains, Saves
  <2>4. ASSUME QueueSound PROVE QueueSound'
    <3>1. \A c \in Everyone : Sound(pass[c])' /\ (c = Watcher => pass'[c].item = 0)
      BY <2>1, <2>2, <2>4 DEF QueueSound, Sound
    <3>2. \A c \in Everyone : Staged(pass[c])' => Covered(pass[c])'
      BY <2>1, <2>2, <2>3, <2>4 DEF QueueSound, Staged, Covered, Saves
    <3> QED BY <2>1, <2>3, <2>4, <3>1, <3>2 DEF QueueSound, Good
  <2> QED BY <2>1, <2>4 DEF QueueInv
<1> QED
  BY <1>1, <1>2, DropTells DEF NestNext

(***************************************************************************)
(* However many tools and watchers scan, confirm and skip, and wherever    *)
(* they end: as long as nobody wrote over a queue he had not read, an id   *)
(* of the queue is its position, so that what a person confirms is what    *)
(* she saw, and a pending item has its file, or its confirm is under way   *)
(* or was cut off after the move, or the file went with another item of    *)
(* the same path (nest_intake.py loads, changes and saves the whole file). *)
(***************************************************************************)
THEOREM SpecQueueTells == NestSpec => []QueueTells
<1>1. NestInv /\ QueueInv => QueueTells
  <2> SUFFICES ASSUME QueueSound, NEW j \in DOMAIN queue
               PROVE  /\ queue[j].id = j
                      /\ queue[j].st = "pending" =>
                            \/ nest[queue[j].src] # NoFile \/ queue[j].src \in taken
                            \/ \E c \in Callers : pass[c].todo \in {"truncate", "write"} /\ pass[c].item # 0
                                                  /\ Src(pass[c]) = queue[j].src
    BY DEF QueueInv, QueueTells
  <2>1. j \in 1 .. Len(queue) /\ queue[j].id = j
    BY DEF QueueSound, Good
  <2>2. ASSUME NEW c \in Callers, Explains(pass[c], queue[j].src)
        PROVE  pass[c].todo \in {"truncate", "write"} /\ pass[c].item # 0 /\ Src(pass[c]) = queue[j].src
    <3>1. Sound(pass[c]) /\ Saves(pass[c]) /\ pass[c].item \in 1 .. Len(pass[c].read)
      BY <2>2 DEF QueueSound, Explains, Everyone
    <3>2. Good(pass[c].read) /\ Good(pass[c].new) /\ (MarkedAt(pass[c]) \/ StagedOn(pass[c]))
      BY <3>1 DEF Sound, Saves
    <3>3. pass[c].item # 0
      BY <3>1, <3>2, ItemFields DEF Good
    <3>4. MarkedAt(pass[c]) /\ pass[c].item \in 1 .. Len(pass[c].new)
      BY <3>1, <3>2, <3>3 DEF StagedOn, MarkedAt
    <3>5. Src(pass[c]) = pass[c].new[pass[c].item].src
      BY <3>2, <3>4, MarkedIs DEF Words
    <3> QED BY <2>2, <3>1, <3>3, <3>4, <3>5 DEF Saves, MarkedAt, Explains
  <2> QED BY <2>1, <2>2 DEF QueueSound, Justified
<1> QED
  BY <1>1, NestStart, NestKeeps, QueueStart, QueueKeeps, PTL DEF NestSpec

-----------------------------------------------------------------------------
(* dream_run: as long as nothing went wrong, one call at most is running,  *)
(* and the record, or that call, is a day past every dream.                *)

Dreamt == [at : Nat, excused : BOOLEAN]
Call   == [todo : {"none", "lock", "dream", "release"}, at : 0 .. MaxClock]

DreamTyped ==
    /\ clock \in 0 .. MaxClock /\ lapse \in BOOLEAN
    /\ state \in [locked : BOOLEAN, last : 0 .. Never]
    /\ run \in [Dreamers -> Call]
    /\ dreams \in Seq(Dreamt)

\* Every dream so far lies Day before time t, or not after it.
Past(t)  == \A k \in DOMAIN dreams : dreams[k].at + Day <= t
Until(t) == \A k \in DOMAIN dreams : dreams[k].at <= t

\* As long as nothing went wrong one call runs, and it or the record is a day past every dream.
Orderly ==
    lapse \/ /\ \A d, e \in Dreaming : d = e
             /\ \A d \in Dreamers : run[d].todo \in {"lock", "dream"} => Past(run[d].at)
             /\ \A d \in Dreamers : run[d].todo = "release" => Until(run[d].at)
             /\ Dreaming = {} => IF state.last = Never THEN dreams = <<>> ELSE Until(state.last)

DreamInv == DreamTyped /\ Orderly /\ Spaced /\ LockHeld

LEMMA DreamStart == DreamInit => DreamInv
<1> SUFFICES ASSUME DreamInit PROVE DreamInv
  OBVIOUS
<1>1. DreamTyped
  <2>1. Awake \in Call /\ 0 \in 0 .. MaxClock /\ Never \in 0 .. Never
    BY DreamAssumption DEF Awake, Call, Never
  <2>2. <<>> \in Seq(Dreamt)
    OBVIOUS
  <2> QED
    BY <2>1, <2>2 DEF DreamInit, DreamTyped, Record
<1>2. Dreaming = {} /\ state.last = Never /\ dreams = <<>> /\ ~state.locked
  BY DEF DreamInit, Dreaming, Awake, Record
<1>3. Orderly
  BY <1>2 DEF Orderly, Dreaming
<1>4. Spaced /\ LockHeld
  BY <1>2 DEF Spaced, LockHeld
<1> QED
  BY <1>1, <1>3, <1>4 DEF DreamInv

LEMMA DreamRunKeeps ==
    ASSUME DreamInv, NEW d \in Dreamers, NEW force \in BOOLEAN, DreamRun(d, force)
    PROVE  DreamInv'
<1>1. DreamTyped'
  BY DEF DreamRun, DreamInv, DreamTyped, Call
<1>2. Orderly'
  <2> SUFFICES ASSUME ~lapse' PROVE Orderly'
    BY DEF Orderly
  <2>1. ~lapse /\ ~force /\ Dreaming = {}
    BY DEF DreamRun, DreamInv, DreamTyped, Call
  <2>2. Dreaming' = {d} /\ run'[d] = [todo |-> "lock", at |-> clock]
    BY <2>1 DEF DreamRun, Dreaming, DreamInv, DreamTyped, Call
  <2>3. Past(clock)
    <3>1. CASE state.last = Never
      BY <2>1, <3>1 DEF DreamInv, Orderly, Past
    <3>2. CASE state.last # Never
      <4>1. Until(state.last) /\ state.last \in Nat /\ clock \in Nat /\ clock - state.last >= Day
        BY <2>1, <3>2, DreamAssumption DEF DreamRun, Allowed, DreamInv, DreamTyped, Call, Orderly, Never
      <4>2. \A k \in DOMAIN dreams : dreams[k].at \in Nat
        <5>1. \A k \in DOMAIN dreams : dreams[k] \in Dreamt
          BY DEF DreamInv, DreamTyped
        <5> QED
          BY <5>1 DEF Dreamt
      <4> QED
        BY <4>1, <4>2, DreamAssumption DEF Past, Until
    <3> QED
      BY <3>1, <3>2
  <2>4. dreams' = dreams /\ \A e \in Dreamers : e # d => run'[e].todo = "none"
    BY <2>1 DEF DreamRun, Dreaming, DreamInv, DreamTyped, Call
  <2> QED
    BY <2>2, <2>3, <2>4 DEF Orderly, Past
<1>3. Spaced' /\ LockHeld'
  BY DEF DreamRun, DreamInv, DreamTyped, Call, Spaced, LockHeld, Dreaming
<1> QED
  BY <1>1, <1>2, <1>3 DEF DreamInv

LEMMA LockKeeps == ASSUME DreamInv, NEW d \in Dreamers, Lock(d) PROVE DreamInv'
<1>1. Never \in 0 .. Never /\ Record(TRUE, Never) \in [locked : BOOLEAN, last : 0 .. Never]
  BY DreamAssumption DEF Record, Never
<1>2. UNCHANGED <<clock, dreams>> /\ (lapse' = lapse \/ lapse' = TRUE)
  BY DEF Lock
<1>3. /\ run' \in [Dreamers -> Call]
      /\ run[d].todo = "lock" /\ run'[d].todo = "dream" /\ run'[d].at = run[d].at
      /\ \A e \in Dreamers : e # d => run'[e] = run[e]
  BY DEF Lock, Step, Goes, DreamInv, DreamTyped, Call
<1>4. Dreaming' = Dreaming /\ d \in Dreaming
  BY <1>3 DEF Dreaming
<1>5. DreamTyped'
  BY <1>1, <1>2, <1>3 DEF Lock, DreamInv, DreamTyped, Call, Never
<1>6. Orderly'
  BY <1>2, <1>3, <1>4 DEF DreamInv, Orderly, Past, Until
<1>7. Spaced' /\ LockHeld'
  BY <1>2, <1>4 DEF DreamInv, Spaced, LockHeld
<1> QED
  BY <1>5, <1>6, <1>7 DEF DreamInv

LEMMA KnowledgePutKeeps == ASSUME DreamInv, NEW d \in Dreamers, KnowledgePut(d) PROVE DreamInv'
<1> DEFINE new == [at |-> run[d].at, excused |-> lapse]
<1>1. new \in Dreamt /\ dreams \in Seq(Dreamt) /\ dreams' = Append(dreams, new) /\ Len(dreams) \in Nat
  BY DreamAssumption DEF KnowledgePut, DreamInv, DreamTyped, Call, Dreamt
<1>2. new.at = run[d].at /\ new.excused = lapse
  OBVIOUS
<1> HIDE DEF new
<1>3. DreamTyped'
  BY <1>1 DEF KnowledgePut, Step, Goes, DreamInv, DreamTyped, Call
<1>4. \A k \in DOMAIN dreams' :
        \/ k \in DOMAIN dreams /\ dreams'[k] = dreams[k]
        \/ k = Len(dreams) + 1 /\ dreams'[k] = new
  <2> DEFINE N == Len(dreams)
  <2>1. N \in Nat /\ DOMAIN dreams = 1 .. N /\ DOMAIN dreams' = 1 .. (N + 1)
    BY <1>1
  <2>2. dreams'[N + 1] = new /\ \A k \in 1 .. N : dreams'[k] = dreams[k]
    BY <1>1
  <2> HIDE DEF N
  <2>3. \A k \in 1 .. (N + 1) : k \in 1 .. N \/ k = N + 1
    BY <2>1
  <2> QED
    BY <2>1, <2>2, <2>3 DEF N
<1>5. Spaced'
  <2> SUFFICES ASSUME NEW j \in DOMAIN dreams', NEW k \in DOMAIN dreams', j < k, ~ dreams'[k].excused
               PROVE  dreams'[j].at + Day <= dreams'[k].at
    BY DreamAssumption, <1>3 DEF Spaced
  <2>1. j \in DOMAIN dreams /\ dreams'[j] = dreams[j]
    BY <1>1, <1>4
  <2>2. CASE k \in DOMAIN dreams /\ dreams'[k] = dreams[k]
    BY <2>1, <2>2 DEF DreamInv, Spaced
  <2>3. CASE k = Len(dreams) + 1 /\ dreams'[k] = new
    BY <1>2, <2>1, <2>3 DEF KnowledgePut, Step, DreamInv, Orderly, Past
  <2> QED
    BY <1>4, <2>2, <2>3
<1>6. Orderly'
  <2> SUFFICES ASSUME ~lapse' PROVE Orderly'
    BY DEF Orderly
  <2>1. ~lapse /\ Past(run[d].at) /\ \A e \in Dreaming : e = d
    BY DEF KnowledgePut, Step, DreamInv, Orderly, Dreaming
  <2>2. run'[d].todo = "release" /\ run'[d].at = run[d].at /\ \A e \in Dreamers : e # d => run'[e].todo = "none"
    BY <2>1 DEF KnowledgePut, Step, Goes, Dreaming, DreamInv, DreamTyped, Call
  <2>3. Until(run[d].at)'
    <3>1. run[d].at \in Nat
      BY DEF DreamInv, DreamTyped, Call
    <3>2. ASSUME NEW k \in DOMAIN dreams PROVE dreams[k].at <= run[d].at
      <4>1. dreams[k] \in Dreamt
        BY <1>1
      <4>2. dreams[k].at \in Nat /\ dreams[k].at + Day <= run[d].at
        BY <2>1, <4>1 DEF Past, Dreamt
      <4> QED
        BY <3>1, <4>2, DreamAssumption
    <3> QED
      BY <1>2, <1>4, <2>2, <3>1, <3>2 DEF Until
  <2> QED
    BY <2>2, <2>3 DEF Orderly, Dreaming
<1>7. LockHeld'
  BY DEF KnowledgePut, Step, Goes, DreamInv, DreamTyped, Call, LockHeld, Dreaming
<1> QED
  BY <1>3, <1>5, <1>6, <1>7 DEF DreamInv

LEMMA ReleaseKeeps == ASSUME DreamInv, NEW d \in Dreamers, Release(d) PROVE DreamInv'
<1>1. DreamTyped'
  BY DreamAssumption DEF Release, Step, Awake, Record, Never, DreamInv, DreamTyped, Call
<1>2. Orderly'
  <2> SUFFICES ASSUME ~lapse' PROVE Orderly'
    BY DEF Orderly
  <2>1. Until(run[d].at) /\ \A e \in Dreaming : e = d
    BY DEF Release, Step, Alone, Until, DreamInv, DreamTyped, Call, Orderly, Dreaming
  <2>2. \A e \in Dreamers : run'[e].todo = "none"
    BY <2>1 DEF Release, Awake, Dreaming, DreamInv, DreamTyped, Call
  <2>3. state'.last = run[d].at /\ dreams' = dreams /\ run[d].at # Never
    BY DreamAssumption DEF Release, Record, Never, DreamInv, DreamTyped, Call
  <2> QED
    BY <2>1, <2>2, <2>3 DEF Orderly, Dreaming, Until
<1>3. Spaced' /\ LockHeld'
  BY DEF Release, Record, DreamInv, Spaced, LockHeld
<1> QED
  BY <1>1, <1>2, <1>3 DEF DreamInv

LEMMA FaultKeeps == ASSUME DreamInv, NEW d \in Dreamers, Fails(d) \/ Dies(d) PROVE DreamInv'
<1>1. Never \in 0 .. Never /\ Record(FALSE, Never) \in [locked : BOOLEAN, last : 0 .. Never]
  BY DreamAssumption DEF Record, Never
<1>2. UNCHANGED <<clock, dreams>> /\ lapse' = TRUE
  BY DEF Fails, Dies
<1>3. state' \in [locked : BOOLEAN, last : 0 .. Never]
  BY <1>1 DEF Fails, Dies, DreamInv, DreamTyped, Call
<1>4. run' \in [Dreamers -> Call]
  <2>1. Awake \in Call
    BY DreamAssumption DEF Awake, Call
  <2> QED
    BY <2>1 DEF Fails, Dies, DreamInv, DreamTyped
<1> QED
  BY <1>2, <1>3, <1>4 DEF DreamInv, DreamTyped, Call, Orderly, Spaced, LockHeld, Never

LEMMA DreamKeeps == DreamInv /\ [DreamNext]_dreamVars => DreamInv'
<1> SUFFICES ASSUME DreamInv, [DreamNext]_dreamVars PROVE DreamInv'
  OBVIOUS
<1>1. CASE Passes \/ UNCHANGED dreamVars
  BY <1>1, DreamAssumption DEF Passes, dreamVars, DreamInv, DreamTyped, Call, Orderly, Spaced, LockHeld, Dreaming, Past, Until
<1> QED
  BY <1>1, DreamRunKeeps, LockKeeps, KnowledgePutKeeps, ReleaseKeeps, FaultKeeps DEF DreamNext

(***************************************************************************)
(* A dream that nobody forced comes at least Day after every one before    *)
(* it, for any number of calls and any Day, unless two calls overlapped    *)
(* or one failed since the record was last right (dream_check, dream_run). *)
(***************************************************************************)
THEOREM SpecSpaced == DreamSpec => []Spaced
<1>1. DreamInv => Spaced
  BY DEF DreamInv
<1> QED
  BY <1>1, DreamStart, DreamKeeps, PTL DEF DreamSpec

(***************************************************************************)
(* A dream lock that no running call holds was left by a server that died  *)
(* or a last put that failed.                                              *)
(***************************************************************************)
THEOREM SpecLockHeld == DreamSpec => []LockHeld
<1>1. DreamInv => LockHeld
  BY DEF DreamInv
<1> QED
  BY <1>1, DreamStart, DreamKeeps, PTL DEF DreamSpec

-----------------------------------------------------------------------------
(* The Norns: who holds a text, and which insight cites it.                *)

Sheet    == [text : Nat, by : Nat, aside : BOOLEAN]
Turn     == [todo : {"list", "ask", "put", "supersede", "aside"}, members : SUBSET Reflectors,
             cited : Nat, seen : [Reflectors -> Sheet]]
Numbered == 1..Len(insights)
Asking(n) == Duty(n, "ask") \/ Duty(n, "put")
Shows(n, s) == norn[n].seen[s].text

NornTyped ==
    /\ refl \in [Reflectors -> Sheet] /\ insights \in Seq([Reflectors -> Nat])
    /\ norn \in [Norns -> Turn] /\ newest \in [Reflectors -> Nat]
    /\ overtaken \subseteq Reflectors /\ amiss \subseteq Reflectors \X Nat /\ lost \subseteq Nat

\* No text is newer than the newest, and every list holds true reflections.
Dated ==
    /\ \A s \in Reflectors : refl[s].text <= newest[s]
    /\ \A s \in Reflectors, i \in Numbered : insights[i][s] <= newest[s]
    /\ \A n \in Norns : Duty(n, "list") => norn[n].members = {}
    /\ \A n \in Norns : \A s \in norn[n].members :
        norn[n].seen[s].by = 0 /\ Shows(n, s) # NoText /\ Shows(n, s) <= newest[s]

\* A superseded reflection is what its insight cites, and so is what a pass will supersede,
\* unless the insight was not written.
CitedHolds ==
    /\ \A s \in Reflectors : refl[s].by # 0 =>
        refl[s].by \in Numbered /\ (refl[s].by \in lost \/ insights[refl[s].by][s] = refl[s].text)
    /\ \A n \in Norns : Duty(n, "supersede") =>
        /\ norn[n].cited \in Numbered
        /\ \A s \in norn[n].members :
              norn[n].cited \in lost \/ insights[norn[n].cited][s] = Shows(n, s)

\* What is not the newest text was overtaken.
UpToDate ==
    /\ \A s \in Reflectors : refl[s].text = newest[s] \/ s \in overtaken
    /\ \A n \in Norns : \A s \in norn[n].members : Shows(n, s) = newest[s] \/ s \in overtaken

\* Two passes that hold reflections of one session are on record.
SharedTold == \A n, m \in Norns : \A s \in norn[n].members \cap norn[m].members :
    n # m => <<s, Shows(n, s)>> \in amiss

\* A text that has been cited is not asked about again, unless that is on record.
CitedOnce ==
    /\ \A i, j \in Numbered, s \in Reflectors :
        (i # j /\ insights[i][s] = insights[j][s]) =>
            insights[i][s] = NoText \/ <<s, insights[i][s]>> \in amiss
    /\ \A n \in Norns, i \in Numbered : \A s \in norn[n].members :
        (Asking(n) /\ insights[i][s] = Shows(n, s)) => <<s, Shows(n, s)>> \in amiss
    /\ \A s \in Open, i \in Numbered :
        insights[i][s] = refl[s].text => \/ <<s, refl[s].text>> \in amiss
                                         \/ \E n \in Norns : s \in norn[n].members /\ Shows(n, s) = refl[s].text

\* All that the two passes need of each other.
NornInv == NornTyped /\ Dated /\ CitedHolds /\ UpToDate /\ SharedTold /\ CitedOnce

LEMMA NornStart == NornInit => NornInv
<1> SUFFICES ASSUME NornInit PROVE NornInv
  OBVIOUS
<1>1. Nothing \in [Reflectors -> Sheet] /\ \A s \in Reflectors : Nothing[s].text = 0 /\ Nothing[s].by = 0
  BY DEF Nothing, Text, NoText, Sheet
<1>2. OffDuty \in Turn /\ OffDuty.members = {} /\ OffDuty.todo = "list"
  BY <1>1 DEF OffDuty, Turn, NoText
<1>3. insights = <<>> /\ Len(insights) = 0 /\ Numbered = {}
  BY DEF NornInit, Numbered
<1>4. \A n \in Norns : norn[n] = OffDuty
  BY DEF NornInit
<1>5. NornTyped
  BY <1>1, <1>2, <1>3 DEF NornInit, NornTyped
<1> QED
  BY <1>1, <1>2, <1>3, <1>4, <1>5 DEF NornInit, NornInv, Dated, CitedHolds, UpToDate, SharedTold, CitedOnce, Duty, Asking

\* A pass that goes on keeps its list, or is off duty and holds nothing.
GoesOn(n) ==
    /\ \A m \in Norns \ {n} : norn'[m] = norn[m]
    /\ norn'[n].members \subseteq norn[n].members
    /\ \A s \in norn'[n].members : norn'[n].seen[s] = norn[n].seen[s]
    /\ norn' \in [Norns -> Turn]
    /\ Duty(n, "list")' => norn'[n].members = {}
    /\ Asking(n)' => Asking(n)
    /\ Duty(n, "supersede")' => Duty(n, "supersede") /\ norn'[n].cited = norn[n].cited

LEMMA OffDutyTyped == OffDuty \in Turn /\ OffDuty.members = {} /\ OffDuty.todo = "list"
BY DEF OffDuty, Turn, Nothing, Text, NoText, Sheet

LEMMA GoingOn ==
    ASSUME NornInv, NEW n \in Norns
    PROVE  /\ AskStructured(n) => GoesOn(n)
           /\ norn' = [norn EXCEPT ![n] = OffDuty] => GoesOn(n)
           /\ \A s \in Reflectors : Marking(n) /\ Finished(n, s) =>
                GoesOn(n) /\ norn'[n].members = norn[n].members \ {s}
<1> USE DEF NornInv, NornTyped
<1>1. norn[n] \in Turn
  OBVIOUS
<1>2. ASSUME AskStructured(n) PROVE GoesOn(n)
  <2>1. PICK x \in {"put", "aside"} : norn' = [norn EXCEPT ![n].todo = x]
    BY <1>2 DEF AskStructured, TurnsTo
  <2>2. Duty(n, "ask")
    BY <1>2 DEF AskStructured
  <2>3. norn'[n] = [norn[n] EXCEPT !.todo = x] /\ \A m \in Norns \ {n} : norn'[m] = norn[m]
    BY <2>1
  <2>4. norn'[n] \in Turn /\ norn'[n].members = norn[n].members /\ norn'[n].seen = norn[n].seen /\ norn'[n].todo = x
    BY <1>1, <2>3 DEF Turn
  <2>5. norn' \in [Norns -> Turn]
    BY <2>1, <2>4
  <2> QED
    BY <2>2, <2>3, <2>4, <2>5 DEF GoesOn, Duty, Asking
<1>3. ASSUME norn' = [norn EXCEPT ![n] = OffDuty] PROVE GoesOn(n)
  BY <1>3, OffDutyTyped DEF GoesOn, Duty, Asking
<1>4. ASSUME NEW s \in Reflectors, Marking(n), Finished(n, s)
      PROVE GoesOn(n) /\ norn'[n].members = norn[n].members \ {s}
  <2> DEFINE rest == norn[n].members \ {s}
  <2>1. norn' = [norn EXCEPT ![n] = IF rest = {} THEN OffDuty ELSE [norn[n] EXCEPT !.members = rest]]
    BY <1>4 DEF Finished
  <2>2. CASE rest = {}
    BY <1>3, <2>1, <2>2, OffDutyTyped
  <2>3. CASE rest # {}
    <3>1. norn'[n] = [norn[n] EXCEPT !.members = rest] /\ \A m \in Norns \ {n} : norn'[m] = norn[m]
      BY <2>1, <2>3
    <3>2. /\ norn'[n] \in Turn /\ norn'[n].members = rest /\ norn'[n].seen = norn[n].seen
          /\ norn'[n].todo = norn[n].todo /\ norn'[n].cited = norn[n].cited
      BY <1>1, <3>1 DEF Turn
    <3>3. norn' \in [Norns -> Turn]
      BY <2>1, <3>1, <3>2
    <3> HIDE DEF rest
    <3>4. ~Duty(n, "list")'
      BY <1>4, <3>2 DEF Duty, Marking
    <3>5. GoesOn(n)
      BY <3>1, <3>2, <3>3, <3>4 DEF GoesOn, Duty, Asking, rest
    <3> QED
      BY <3>2, <3>5 DEF rest
  <2> QED
    BY <2>2, <2>3
<1> QED
  BY <1>2, <1>3, <1>4

\* A step that leaves reflections and insights alone, while one pass goes on.
LEMMA GoingOnKeeps ==
    ASSUME NornInv, NEW n \in Norns, GoesOn(n), UNCHANGED <<insights, newest, overtaken, lost>>,
           amiss \subseteq amiss', amiss' \subseteq Reflectors \X Nat,
           refl' \in [Reflectors -> Sheet],
           \A s \in Reflectors : \/ refl'[s] = refl[s]
                                 \/ s \in norn[n].members /\ refl'[s].text = Shows(n, s)
                                    /\ (refl'[s].by = 0 => refl'[s].aside)
                                    /\ (refl'[s].by # 0 => Duty(n, "supersede") /\ refl'[s].by = norn[n].cited),
           \A s \in norn[n].members : (s \in norn'[n].members) \/ (s \notin Open') \/ <<s, Shows(n, s)>> \in amiss'
                \/ ~Marking(n)
    PROVE  NornInv'
<1> USE DEF NornInv
<1>1. Numbered' = Numbered
  BY DEF Numbered
<1>2. \A m \in Norns : /\ norn'[m].members \subseteq norn[m].members
                       /\ \A s \in norn'[m].members : norn'[m].seen[s] = norn[m].seen[s]
                       /\ Asking(m)' => Asking(m)
                       /\ Duty(m, "supersede")' => Duty(m, "supersede") /\ norn'[m].cited = norn[m].cited
                       /\ Duty(m, "list")' => norn'[m].members = {}
  BY DEF GoesOn, Duty, Asking, Dated
<1>3. NornTyped'
  BY DEF NornTyped, GoesOn
<1>4. Dated'
  BY <1>1, <1>2 DEF Dated, Shows
<1>5. CitedHolds'
  BY <1>1, <1>2 DEF CitedHolds, Shows
<1>6. UpToDate'
  BY <1>1, <1>2 DEF UpToDate, Shows
<1>7. SharedTold'
  BY <1>1, <1>2 DEF SharedTold, Shows
<1>8. CitedOnce'
  <2>1. ASSUME NEW i \in Numbered, NEW j \in Numbered, NEW s \in Reflectors, i # j,
               insights[i][s] = insights[j][s]
        PROVE  insights[i][s] = NoText \/ <<s, insights[i][s]>> \in amiss'
    BY <2>1 DEF CitedOnce
  <2>2. ASSUME NEW m \in Norns, NEW i \in Numbered, NEW s \in norn'[m].members, Asking(m)',
               insights[i][s] = norn'[m].seen[s].text
        PROVE  <<s, norn'[m].seen[s].text>> \in amiss'
    BY <1>2, <2>2 DEF CitedOnce, Shows
  <2>3. ASSUME NEW s \in Open', NEW i \in Numbered, insights[i][s] = refl'[s].text
        PROVE  <<s, refl'[s].text>> \in amiss'
               \/ \E m \in Norns : s \in norn'[m].members /\ norn'[m].seen[s].text = refl'[s].text
    <3>1. s \in Reflectors /\ refl'[s] = refl[s] /\ s \in Open
      BY <2>3 DEF Open
    <3>2. CASE <<s, refl[s].text>> \in amiss
      BY <3>1, <3>2
    <3>3. CASE \E m \in Norns : s \in norn[m].members /\ Shows(m, s) = refl[s].text
      <4>1. PICK m \in Norns : s \in norn[m].members /\ Shows(m, s) = refl[s].text
        BY <3>3
      <4>2. CASE s \in norn'[m].members
        BY <1>2, <3>1, <4>1, <4>2 DEF Shows
      <4>3. CASE s \notin norn'[m].members
        <5>1. m = n
          BY <4>1, <4>3 DEF GoesOn
        <5>2. CASE Marking(n)
          BY <2>3, <3>1, <4>1, <4>3, <5>1, <5>2
        <5>3. CASE Asking(n)
          BY <2>3, <3>1, <4>1, <5>1, <5>3 DEF CitedOnce
        <5>4. CASE Duty(n, "list")
          BY <4>1, <5>1, <5>4 DEF Dated
        <5> QED
          BY <5>2, <5>3, <5>4 DEF Marking, Asking, Duty, NornTyped, Turn
      <4> QED
        BY <4>2, <4>3
    <3> QED
      BY <2>3, <3>1, <3>2, <3>3 DEF CitedOnce
  <2> QED
    BY <1>1, <2>1, <2>2, <2>3 DEF CitedOnce, Shows
<1> QED
  BY <1>3, <1>4, <1>5, <1>6, <1>7, <1>8

LEMMA QuietNorn ==
    ASSUME NornInv, NEW n \in Norns, AskStructured(n) \/ NornDies(n)
    PROVE  NornInv'
<1>1. GoesOn(n)
  BY GoingOn DEF NornDies
<1>2. UNCHANGED <<refl, insights, newest, overtaken, lost>>
  BY DEF AskStructured, NornDies
<1>3. amiss \subseteq amiss' /\ amiss' \subseteq Reflectors \X Nat
  BY DEF AskStructured, NornDies, Held, NornInv, NornTyped, Turn, Sheet
<1>4. \A s \in norn[n].members : Marking(n) => <<s, Shows(n, s)>> \in amiss'
  BY DEF AskStructured, NornDies, Held, Shows, Marking, Duty
<1>5. refl' \in [Reflectors -> Sheet]
  BY <1>2 DEF NornInv, NornTyped
<1> QED
  BY <1>1, <1>2, <1>3, <1>4, <1>5, GoingOnKeeps

LEMMA MarkingNorn ==
    ASSUME NornInv, NEW n \in Norns, NEW s \in Reflectors, UpdateReflection(n, s) \/ UpdateFails(n, s)
    PROVE  NornInv'
<1>1. GoesOn(n) /\ norn'[n].members = norn[n].members \ {s} /\ Marking(n) /\ s \in norn[n].members
  BY GoingOn DEF UpdateReflection, UpdateFails
<1>2. /\ norn[n].seen[s] \in Sheet /\ norn[n].cited \in Nat /\ norn[n].seen[s].by = 0
      /\ refl[s].aside \in BOOLEAN
  BY <1>1 DEF NornInv, NornTyped, Turn, Dated, Sheet
<1>3. CASE UpdateReflection(n, s)
  <2>1. refl' = [refl EXCEPT ![s] = Mark(n, s)] /\ UNCHANGED <<insights, newest, overtaken, amiss, lost>>
    BY <1>3 DEF UpdateReflection
  <2>2. /\ Mark(n, s) \in Sheet /\ Mark(n, s).text = Shows(n, s)
        /\ Duty(n, "aside") => Mark(n, s).by = 0 /\ Mark(n, s).aside
        /\ Duty(n, "supersede") => Mark(n, s).by = norn[n].cited
    <3>1. CASE Duty(n, "aside")
      BY <1>2, <3>1 DEF Mark, Duty, Sheet, Shows
    <3>2. CASE Duty(n, "supersede")
      BY <1>2, <3>2 DEF Mark, Duty, Sheet, Shows
    <3> QED
      BY <1>1, <3>1, <3>2 DEF Marking
  <2>3. Duty(n, "supersede") => norn[n].cited # 0
    BY DEF NornInv, CitedHolds, Numbered
  <2>4. refl' \in [Reflectors -> Sheet] /\ refl'[s] = Mark(n, s) /\ \A r \in Reflectors \ {s} : refl'[r] = refl[r]
    BY <2>1, <2>2 DEF NornInv, NornTyped
  <2>5. s \notin Open'
    BY <1>1, <2>2, <2>3, <2>4 DEF Open, Marking, Duty
  <2>6. (refl'[s].by = 0 => refl'[s].aside) /\ (refl'[s].by # 0 => Duty(n, "supersede") /\ refl'[s].by = norn[n].cited)
    BY <1>1, <2>2, <2>3, <2>4 DEF Marking, Duty
  <2>7. amiss' \subseteq Reflectors \X Nat
    BY <2>1 DEF NornInv, NornTyped
  <2> QED
    BY <1>1, <2>1, <2>2, <2>4, <2>5, <2>6, <2>7, GoingOnKeeps
<1>4. CASE UpdateFails(n, s)
  <2>1. UNCHANGED <<refl, insights, newest, overtaken, lost>> /\ amiss' = amiss \cup {<<s, Shows(n, s)>>}
    BY <1>4 DEF UpdateFails, Held, Shows
  <2>2. refl' \in [Reflectors -> Sheet] /\ amiss' \subseteq Reflectors \X Nat
    BY <1>2, <2>1 DEF NornInv, NornTyped, Shows, Sheet
  <2> QED
    BY <1>1, <2>1, <2>2, GoingOnKeeps
<1> QED
  BY <1>3, <1>4

LEMMA WritingNorn == ASSUME NornInv, NEW s \in Reflectors, WriteReflection(s) PROVE NornInv'
<1> USE DEF NornInv
<1>1. /\ newest' = [newest EXCEPT ![s] = newest[s] + 1] /\ refl' = [refl EXCEPT ![s] = Text(newest'[s])]
      /\ overtaken' = IF Holders(s) = {} THEN overtaken \ {s} ELSE overtaken \cup {s}
      /\ UNCHANGED <<insights, norn, amiss, lost>>
  BY DEF WriteReflection
<1>2. newest[s] \in Nat /\ newest'[s] = newest[s] + 1 /\ \A r \in Reflectors \ {s} : newest'[r] = newest[r]
  BY <1>1 DEF NornTyped
<1>3. /\ refl'[s].text = newest'[s] /\ refl'[s].by = 0 /\ refl'[s] \in Sheet
      /\ \A r \in Reflectors \ {s} : refl'[r] = refl[r]
  BY <1>1, <1>2 DEF NornTyped, Text, Sheet
<1>4. Numbered' = Numbered
  BY <1>1 DEF Numbered
<1>5. NornTyped'
  BY <1>1, <1>2, <1>3 DEF NornTyped
<1>6. /\ \A r \in Reflectors : refl[r].text \in Nat /\ newest[r] \in Nat /\ newest'[r] \in Nat /\ newest[r] <= newest'[r]
      /\ \A r \in Reflectors, i \in Numbered : insights[i][r] \in Nat
      /\ \A n \in Norns, r \in Reflectors : Shows(n, r) \in Nat
  <2>1. \A r \in Reflectors : refl[r] \in Sheet /\ newest[r] \in Nat
    BY DEF NornTyped
  <2>2. \A r \in Reflectors : newest'[r] \in Nat /\ newest[r] <= newest'[r]
    BY <1>2, <2>1
  <2>3. \A i \in Numbered : insights[i] \in [Reflectors -> Nat]
    BY DEF NornTyped, Numbered
  <2>4. \A n \in Norns, r \in Reflectors : norn[n].seen[r] \in Sheet
    BY DEF NornTyped, Turn
  <2> QED
    BY <2>1, <2>2, <2>3, <2>4 DEF Sheet, Shows
<1>7. Dated'
  BY <1>1, <1>2, <1>3, <1>4, <1>6 DEF Dated, Duty, Shows, NornTyped, Turn
<1>8. CitedHolds'
  BY <1>1, <1>3, <1>4 DEF CitedHolds, Duty, Shows
<1>9. UpToDate'
  BY <1>1, <1>2, <1>3 DEF UpToDate, Shows, Holders
<1>10. SharedTold'
  BY <1>1 DEF SharedTold, Shows
<1>11. CitedOnce'
  <2>1. \A i \in Numbered : insights[i][s] # refl'[s].text
    BY <1>2, <1>3, <1>6 DEF Dated
  <2>2. \A r \in Open' : r = s \/ r \in Open
    BY <1>3 DEF Open
  <2> QED
    BY <1>1, <1>3, <1>4, <2>1, <2>2 DEF CitedOnce, Shows, Asking, Duty
<1> QED
  BY <1>5, <1>7, <1>8, <1>9, <1>10, <1>11

LEMMA ListingNorn == ASSUME NornInv, NEW n \in Norns, InsightPass(n) PROVE NornInv'
<1> USE DEF NornInv
<1> DEFINE l == [todo |-> "ask", members |-> Open, cited |-> NoText,
                 seen |-> [s \in Reflectors |-> IF s \in Open THEN refl[s] ELSE Text(NoText)]]
<1>1. norn' = [norn EXCEPT ![n] = l] /\ UNCHANGED <<refl, insights, newest, overtaken, lost>>
  BY DEF InsightPass
<1>2. norn'[n] = l /\ \A m \in Norns \ {n} : norn'[m] = norn[m]
  BY <1>1 DEF NornTyped
<1>3. l \in Turn
  BY DEF Turn, Open, NoText, Text, Sheet, NornTyped
<1>4. /\ norn'[n].todo = "ask" /\ norn'[n].members = Open
      /\ \A s \in Open : norn'[n].seen[s] = refl[s]
  BY <1>2 DEF Open
<1>5. norn' \in [Norns -> Turn]
  BY <1>1, <1>3 DEF NornTyped
<1> HIDE DEF l
<1>6. /\ amiss \subseteq amiss' /\ amiss' \subseteq Reflectors \X Nat
      /\ \A m \in Norns : \A s \in Open \cap norn[m].members :
            <<s, Shows(m, s)>> \in amiss' /\ <<s, refl[s].text>> \in amiss'
  <2> DEFINE H == UNION {Held(m, Open \cap norn[m].members) : m \in Norns}
             O == {<<s, refl[s].text>> : s \in {r \in Open : Holders(r) # {}}}
  <2>1. amiss' = amiss \cup H \cup O
    BY DEF InsightPass
  <2>2. \A m \in Norns : Held(m, Open \cap norn[m].members) \subseteq Reflectors \X Nat
    BY DEF Held, NornTyped, Turn, Sheet, Open
  <2>3. O \subseteq Reflectors \X Nat
    BY DEF Open, NornTyped, Sheet
  <2>4. \A m \in Norns : \A s \in Open \cap norn[m].members :
            <<s, Shows(m, s)>> \in Held(m, Open \cap norn[m].members) /\ Holders(s) # {}
    BY DEF Held, Shows, Holders
  <2>5. H \subseteq Reflectors \X Nat /\ \A m \in Norns : Held(m, Open \cap norn[m].members) \subseteq H
    BY <2>2
  <2>6. \A m \in Norns : \A s \in Open \cap norn[m].members : <<s, refl[s].text>> \in O
    BY <2>4
  <2>7. amiss \subseteq Reflectors \X Nat
    BY DEF NornTyped
  <2> HIDE DEF H, O
  <2> QED
    BY <2>1, <2>3, <2>4, <2>5, <2>6, <2>7
<1>7. Numbered' = Numbered /\ Open' = Open
  BY <1>1 DEF Numbered, Open
<1>8. NornTyped'
  BY <1>1, <1>5, <1>6 DEF NornTyped
<1>9. \A s \in Open : refl[s].text # NoText /\ refl[s].by = 0 /\ s \in Reflectors
  BY DEF Open
<1>10. Dated'
  BY <1>1, <1>2, <1>4, <1>7, <1>9 DEF Dated, Duty, Shows
<1>11. CitedHolds'
  BY <1>1, <1>2, <1>4, <1>7 DEF CitedHolds, Duty, Shows
<1>12. UpToDate'
  BY <1>1, <1>2, <1>4, <1>9 DEF UpToDate, Shows
<1>13. SharedTold'
  <2> SUFFICES ASSUME NEW a \in Norns, NEW b \in Norns, a # b,
                      NEW s \in norn'[a].members \cap norn'[b].members
               PROVE  <<s, norn'[a].seen[s].text>> \in amiss'
    BY DEF SharedTold, Shows
  <2>1. CASE a = n
    BY <1>2, <1>4, <1>6, <2>1
  <2>2. CASE b = n
    BY <1>2, <1>4, <1>6, <2>2 DEF Shows
  <2>3. CASE a # n /\ b # n
    BY <1>2, <1>6, <2>3 DEF SharedTold, Shows
  <2> QED
    BY <2>1, <2>2, <2>3
<1>14. CitedOnce'
  <2>1. ASSUME NEW m \in Norns, NEW i \in Numbered, NEW s \in norn'[m].members, Asking(m)',
               insights[i][s] = norn'[m].seen[s].text
        PROVE  <<s, norn'[m].seen[s].text>> \in amiss'
    <3>1. CASE m = n
      <4>1. s \in Open /\ insights[i][s] = refl[s].text /\ norn'[m].seen[s] = refl[s]
        BY <1>4, <2>1, <3>1
      <4>2. CASE <<s, refl[s].text>> \in amiss
        BY <1>6, <4>1, <4>2
      <4>3. CASE \E o \in Norns : s \in norn[o].members /\ Shows(o, s) = refl[s].text
        BY <1>6, <4>1, <4>3
      <4> QED
        BY <4>1, <4>2, <4>3 DEF CitedOnce
    <3>2. CASE m # n
      BY <1>2, <1>6, <2>1, <3>2 DEF CitedOnce, Shows, Asking, Duty
    <3> QED
      BY <3>1, <3>2
  <2>2. ASSUME NEW s \in Open, NEW i \in Numbered, insights[i][s] = refl[s].text
        PROVE  <<s, refl[s].text>> \in amiss'
               \/ \E m \in Norns : s \in norn'[m].members /\ norn'[m].seen[s].text = refl[s].text
    BY <1>4, <2>2
  <2> QED
    BY <1>1, <1>6, <1>7, <2>1, <2>2 DEF CitedOnce, Shows
<1> QED
  BY <1>8, <1>10, <1>11, <1>12, <1>13, <1>14

LEMMA PuttingNorn == ASSUME NornInv, NEW n \in Norns, PutInsight(n) \/ PutFails(n) PROVE NornInv'
<1> USE DEF NornInv
<1> DEFINE f == [s \in Reflectors |-> IF s \in norn[n].members THEN norn[n].seen[s].text ELSE NoText]
           g == [s \in Reflectors |-> NoText]
           k == Len(insights')
<1>0. PICK e \in {f, g} : Draws(n, e) /\ IF e = f THEN lost' \in {lost, lost \cup {k}} ELSE lost' = lost \cup {k}
  <2>1. CASE PutInsight(n)
    BY <2>1 DEF PutInsight
  <2>2. CASE PutFails(n)
    BY <2>2 DEF PutFails
  <2> QED
    BY <2>1, <2>2
<1>1. /\ Duty(n, "put") /\ insights' = Append(insights, e)
      /\ norn' = [norn EXCEPT ![n].todo = "supersede", ![n].cited = k]
      /\ UNCHANGED <<refl, newest, overtaken, amiss>>
  BY <1>0 DEF Draws
<1>2. e \in [Reflectors -> Nat]
  <2>1. norn[n].seen \in [Reflectors -> Sheet]
    BY DEF NornTyped, Turn
  <2>2. f \in [Reflectors -> Nat]
    BY <2>1 DEF Sheet, NoText
  <2>3. g \in [Reflectors -> Nat]
    BY DEF NoText
  <2> HIDE DEF f, g
  <2> QED
    BY <2>2, <2>3
<1>4. /\ \A s \in Reflectors : e[s] = NoText \/ (s \in norn[n].members /\ e[s] = Shows(n, s))
      /\ k \in lost' \/ \A s \in Reflectors : s \in norn[n].members => e[s] = Shows(n, s)
  BY <1>0 DEF Shows
<1>17. lost \subseteq lost' /\ lost' \subseteq lost \cup {k}
  BY <1>0
<1> HIDE DEF f, g
<1>3. /\ insights' \in Seq([Reflectors -> Nat]) /\ k \in Nat \ {0} /\ Numbered' = Numbered \cup {k} /\ k \notin Numbered
      /\ insights'[k] = e /\ \A i \in Numbered : insights'[i] = insights[i]
  <2>1. insights \in Seq([Reflectors -> Nat])
    BY DEF NornTyped
  <2> QED
    BY <1>1, <1>2, <2>1 DEF Numbered
<1> HIDE DEF k
<1>5. norn[n] \in Turn
  BY DEF NornTyped
<1>6. norn'[n] = [norn[n] EXCEPT !.todo = "supersede", !.cited = k] /\ \A m \in Norns \ {n} : norn'[m] = norn[m]
  BY <1>1 DEF NornTyped
<1>7. /\ norn'[n] \in Turn /\ norn'[n].todo = "supersede" /\ norn'[n].cited = k
      /\ norn'[n].members = norn[n].members /\ norn'[n].seen = norn[n].seen
  BY <1>3, <1>5, <1>6 DEF Turn
<1>8. norn' \in [Norns -> Turn]
  BY <1>1, <1>6, <1>7 DEF NornTyped
<1>9. NornTyped'
  BY <1>1, <1>3, <1>8, <1>17 DEF NornTyped
<1>10. \A m \in Norns : norn'[m].members = norn[m].members /\ norn'[m].seen = norn[m].seen
                        /\ norn[m].members \subseteq Reflectors
  BY <1>6, <1>7 DEF NornTyped, Turn
<1>11. \A s \in Reflectors : newest[s] \in Nat /\ NoText <= newest[s]
  BY DEF NornTyped, NoText
<1>12. Dated'
  <2>1. \A s \in Reflectors : e[s] <= newest[s]
    BY <1>4, <1>11 DEF Dated
  <2>2. \A s \in Reflectors, i \in Numbered' : insights'[i][s] <= newest[s]
    BY <1>3, <2>1 DEF Dated
  <2>3. \A m \in Norns : norn'[m].todo = "list" => norn'[m].members = {}
    BY <1>6, <1>7 DEF Dated, Duty
  <2>4. \A m \in Norns, s \in Reflectors : Shows(m, s)' = Shows(m, s)
    BY <1>10 DEF Shows
  <2>5. \A m \in Norns : \A s \in norn'[m].members :
          norn'[m].seen[s].by = 0 /\ Shows(m, s) # NoText /\ Shows(m, s) <= newest[s] /\ s \in Reflectors
    BY <1>10 DEF Dated
  <2>6. \A m \in Norns : \A s \in norn'[m].members :
          norn'[m].seen[s].by = 0 /\ Shows(m, s)' # NoText /\ Shows(m, s)' <= newest'[s]
    BY <1>1, <2>4, <2>5
  <2>7. \A s \in Reflectors : refl'[s].text <= newest'[s]
    BY <1>1 DEF Dated
  <2>8. \A s \in Reflectors, i \in Numbered' : insights'[i][s] <= newest'[s]
    BY <1>1, <2>2
  <2> QED
    BY <2>3, <2>6, <2>7, <2>8 DEF Dated, Duty
<1>13. CitedHolds'
  <2>1. \A m \in Norns, s \in Reflectors : Shows(m, s)' = Shows(m, s)
    BY <1>10 DEF Shows
  <2>2. \A s \in Reflectors : refl[s].by # 0 =>
          refl[s].by \in Numbered' /\ (refl[s].by \in lost' \/ insights'[refl[s].by][s] = refl[s].text)
    BY <1>3, <1>17 DEF CitedHolds
  <2>3. ASSUME NEW m \in Norns, norn'[m].todo = "supersede"
        PROVE  norn'[m].cited \in Numbered'
               /\ \A s \in norn'[m].members :
                     norn'[m].cited \in lost' \/ insights'[norn'[m].cited][s] = Shows(m, s)
    <3>1. CASE m = n
      BY <1>3, <1>4, <1>7, <1>10, <3>1
    <3>2. CASE m # n
      BY <1>3, <1>6, <1>17, <2>3, <3>2 DEF CitedHolds, Duty
    <3> QED
      BY <3>1, <3>2
  <2>4. \A s \in Reflectors : refl'[s].by # 0 =>
          refl'[s].by \in Numbered' /\ (refl'[s].by \in lost' \/ insights'[refl'[s].by][s] = refl'[s].text)
    BY <1>1, <2>2
  <2>5. \A m \in Norns : norn'[m].todo = "supersede" =>
          /\ norn'[m].cited \in Numbered'
          /\ \A s \in norn'[m].members :
                norn'[m].cited \in lost' \/ insights'[norn'[m].cited][s] = Shows(m, s)'
    BY <1>10, <2>1, <2>3
  <2> QED
    BY <2>4, <2>5 DEF CitedHolds, Duty
<1>14. UpToDate'
  BY <1>1, <1>10 DEF UpToDate, Shows
<1>15. SharedTold'
  BY <1>1, <1>10 DEF SharedTold, Shows
<1>16. CitedOnce'
  <2>1. \A i \in Numbered, s \in Reflectors : insights[i][s] = e[s] => e[s] = NoText \/ <<s, e[s]>> \in amiss
    BY <1>1, <1>4 DEF CitedOnce, Asking
  <2>2. ASSUME NEW i \in Numbered', NEW j \in Numbered', NEW s \in Reflectors, i # j,
               insights'[i][s] = insights'[j][s]
        PROVE  insights'[i][s] = NoText \/ <<s, insights'[i][s]>> \in amiss
    BY <1>3, <2>1, <2>2 DEF CitedOnce
  <2>3. ASSUME NEW m \in Norns, NEW i \in Numbered', NEW s \in norn[m].members, Asking(m)',
               insights'[i][s] = Shows(m, s)
        PROVE  <<s, Shows(m, s)>> \in amiss
    <3>1. m # n /\ Asking(m) /\ s \in Reflectors
      BY <1>6, <1>7, <1>10, <2>3 DEF Asking, Duty
    <3>2. CASE i \in Numbered
      BY <1>3, <2>3, <3>1, <3>2 DEF CitedOnce
    <3>3. CASE i = k /\ s \in norn[n].members
      BY <2>3, <3>1, <3>3 DEF SharedTold
    <3>4. CASE i = k /\ s \notin norn[n].members
      BY <1>3, <1>4, <2>3, <3>1, <3>4 DEF Dated
    <3> QED
      BY <1>3, <3>2, <3>3, <3>4
  <2>4. ASSUME NEW s \in Open, NEW i \in Numbered', insights'[i][s] = refl[s].text
        PROVE  <<s, refl[s].text>> \in amiss \/ \E m \in Norns : s \in norn[m].members /\ Shows(m, s) = refl[s].text
    <3>1. s \in Reflectors /\ refl[s].text # NoText
      BY DEF Open
    <3>2. CASE i \in Numbered
      BY <1>3, <2>4, <3>2 DEF CitedOnce
    <3>3. CASE i = k
      BY <1>3, <1>4, <2>4, <3>1, <3>3
    <3> QED
      BY <1>3, <3>2, <3>3
  <2>5. Open' = Open
    BY <1>1 DEF Open
  <2>6. \A m \in Norns, s \in Reflectors : Shows(m, s)' = Shows(m, s)
    BY <1>10 DEF Shows
  <2>7. ASSUME NEW m \in Norns, NEW i \in Numbered', NEW s \in norn'[m].members, Asking(m)',
               insights'[i][s] = Shows(m, s)'
        PROVE  <<s, Shows(m, s)'>> \in amiss'
    <3>1. s \in norn[m].members /\ Shows(m, s)' = Shows(m, s)
      BY <1>10, <2>6, <2>7
    <3> QED
      BY <1>1, <2>3, <2>7, <3>1
  <2>8. \A s \in Open', i \in Numbered' :
          insights'[i][s] = refl'[s].text => \/ <<s, refl'[s].text>> \in amiss'
              \/ \E m \in Norns : s \in norn'[m].members /\ Shows(m, s)' = refl'[s].text
    BY <1>1, <1>10, <2>4, <2>5, <2>6 DEF Open
  <2> QED
    BY <1>1, <2>2, <2>7, <2>8 DEF CitedOnce
<1> QED
  BY <1>9, <1>12, <1>13, <1>14, <1>15, <1>16

LEMMA NornKeeps == NornInv /\ [NornNext]_nornVars => NornInv'
<1> SUFFICES ASSUME NornInv, [NornNext]_nornVars PROVE NornInv'
  OBVIOUS
<1>1. CASE UNCHANGED nornVars
  BY <1>1 DEF nornVars, NornInv, NornTyped, Dated, CitedHolds, UpToDate, SharedTold, CitedOnce,
              Numbered, Duty, Shows, Asking, Open
<1>2. ASSUME NEW s \in Reflectors, WriteReflection(s) PROVE NornInv'
  BY <1>2, WritingNorn
<1>3. ASSUME NEW n \in Norns, Weaves(n) \/ PutFails(n) \/ NornDies(n) \/ \E s \in Reflectors : UpdateFails(n, s)
      PROVE  NornInv'
  BY <1>3, QuietNorn, MarkingNorn, ListingNorn, PuttingNorn DEF Weaves
<1> QED
  BY <1>1, <1>2, <1>3 DEF NornNext

\* EvidenceTells, for any passes, sessions and size of a cluster: a superseded reflection is what
\* its insight cites, a text is cited once and the newest text stays, but for what is on record.
THEOREM SpecEvidence == NornSpec => []EvidenceTells
<1>1. NornInv => EvidenceTells
  BY DEF NornInv, EvidenceTells, CitedHolds, CitedOnce, UpToDate, Numbered
<1> QED
  BY <1>1, NornStart, NornKeeps, PTL DEF NornSpec

-----------------------------------------------------------------------------
(* The fleet: but for a slip only the dashboard in the PID file has        *)
(* processes, and it leaves none behind.                                   *)

\* What is left to a dashboard that has not quit, and to one that has.
Opening(t) ==
    /\ t \in Seq(Services \cup {"pid", "run"}) /\ Len(t) > 0 /\ t[Len(t)] = "run"
    /\ \A i \in 2 .. Len(t) : t[i] # "pid"
Farewell == {"take", "clear", "exit"}
Closing(t) ==
    /\ t \in Seq(Farewell) /\ Len(t) > 0 /\ t[Len(t)] = "exit"
    /\ \A i \in 1 .. Len(t) - 1 :
          t[i + 1] \in IF t[i] = "take" THEN {"clear"} ELSE {"take", "exit"}

Has(b)   == \E s \in Services : proc[b][s] \in Live
Owns(b)  == Head(board[b]) \in Services \cup {"run"} \/ Has(b)

FleetShape ==
    /\ DOMAIN board = Boards
    /\ \A b \in Boards : board[b] = Off \/ Opening(board[b]) \/ Closing(board[b])
    /\ DOMAIN proc = Boards /\ \A b \in Boards : DOMAIN proc[b] = Services
    /\ DOMAIN loose = Services
    /\ DOMAIN mine = Boards
    /\ DOMAIN monitor = Boards /\ \A b \in Boards : monitor[b] \in Services \cup {Nobody}
    /\ slip \in BOOLEAN

\* No service is without its dashboard, and the PID file names the one dashboard that has
\* services or may get some.
Steered ==
    /\ \A s \in Services : loose[s] = 0
    /\ \A b \in Boards : Owns(b) => pid = b
    /\ \A b, o \in Boards : At(b, "pid") /\ o # b => ~At(o, "pid") /\ ~Owns(o)
    /\ \A b \in Boards : At(b, "clear") => \A s \in Services : proc[b][s] \in Live => s \in mine[b]
    /\ \A b \in Boards : Head(board[b]) \in {"exit", "off"} => ~Has(b)

\* So it is until a child is spawned or left behind, or a PID file is removed, by a slip.
FleetInv == FleetShape /\ (slip \/ Steered)

LEMMA Opened ==
    ASSUME NEW t, Opening(t)
    PROVE  /\ Head(t) \in Services \cup {"pid", "run"}
           /\ Head(t) # "run" => Opening(Tail(t)) /\ Head(Tail(t)) # "pid"
<1> DEFINE n == Len(t)
<1>1. t \in Seq(Services \cup {"pid", "run"}) /\ n \in Nat \ {0} /\ DOMAIN t = 1 .. n
  BY DEF Opening
<1>2. t[n] = "run" /\ Head(t) = t[1] /\ \A i \in 2 .. n : t[i] # "pid"
  BY DEF Opening
<1>3. ASSUME Head(t) # "run"
      PROVE  Opening(Tail(t)) /\ Head(Tail(t)) # "pid"
  <2>1. n > 1
    BY <1>1, <1>2, <1>3
  <2>2. /\ Tail(t) \in Seq(Services \cup {"pid", "run"}) /\ Len(Tail(t)) = n - 1
        /\ \A i \in 1 .. n - 1 : Tail(t)[i] = t[i + 1]
    BY <1>1, <2>1
  <2> HIDE DEF n
  <2>3. Tail(t)[n - 1] = "run" /\ \A i \in 1 .. n - 1 : Tail(t)[i] # "pid"
    BY <1>1, <1>2, <2>1, <2>2
  <2>4. Head(Tail(t)) = Tail(t)[1]
    BY <1>1, <2>1, <2>2
  <2> QED
    BY <1>1, <2>1, <2>2, <2>3, <2>4 DEF Opening
<1> HIDE DEF n
<1>4. Head(t) \in Services \cup {"pid", "run"}
  BY <1>1, <1>2
<1> QED
  BY <1>3, <1>4

LEMMA Closed ==
    ASSUME NEW t, Closing(t)
    PROVE  /\ Head(t) \in {"take", "clear", "exit"}
           /\ Head(t) = "take" => Closing(Tail(t)) /\ Head(Tail(t)) = "clear"
           /\ Head(t) = "clear" => Closing(Tail(t)) /\ Head(Tail(t)) \in {"take", "exit"}
<1> DEFINE n == Len(t)
           Then(x) == IF x = "take" THEN {"clear"} ELSE {"take", "exit"}
<1>1. t \in Seq(Farewell) /\ n \in Nat \ {0} /\ DOMAIN t = 1 .. n
  BY DEF Closing
<1>2. t[n] = "exit" /\ Head(t) = t[1] /\ \A i \in 1 .. n - 1 : t[i + 1] \in Then(t[i])
  BY DEF Closing
<1>3. ASSUME Head(t) # "exit"
      PROVE  Closing(Tail(t)) /\ Head(Tail(t)) \in Then(Head(t))
  <2>1. n > 1
    BY <1>1, <1>2, <1>3
  <2>2. /\ Tail(t) \in Seq(Farewell) /\ Len(Tail(t)) = n - 1
        /\ \A i \in 1 .. n - 1 : Tail(t)[i] = t[i + 1]
    BY <1>1, <2>1
  <2>4. Head(Tail(t)) = Tail(t)[1]
    BY <1>1, <2>1
  <2> HIDE DEF n
  <2>3. Tail(t)[n - 1] = "exit" /\ \A i \in 1 .. n - 2 : Tail(t)[i + 1] \in Then(Tail(t)[i])
    <3> SUFFICES ASSUME NEW i \in 1 .. n - 2 PROVE Tail(t)[i + 1] \in Then(Tail(t)[i])
      BY <1>1, <1>2, <2>1, <2>2
    <3>1. i + 1 \in 1 .. n - 1 /\ i \in 1 .. n - 1
      BY <1>1
    <3> HIDE DEF Then
    <3> QED
      BY <1>2, <2>2, <3>1
  <2>5. Tail(t)[1] \in Then(t[1])
    <3>1. 1 \in 1 .. n - 1
      BY <1>1, <2>1
    <3> HIDE DEF Then
    <3> QED
      BY <1>2, <2>2, <3>1
  <2> QED
    BY <1>1, <1>2, <2>1, <2>2, <2>3, <2>4, <2>5 DEF Closing
<1> HIDE DEF n
<1>4. Head(t) \in {"take", "clear", "exit"}
  BY <1>1, <1>2 DEF Farewell
<1> QED
  BY <1>3, <1>4

LEMMA Schedules ==
    /\ Opening(<<"pid">> \o Order \o Runs) /\ Head(<<"pid">> \o Order \o Runs) = "pid"
    /\ Closing(Stop \o Stop \o Leave) /\ Head(Stop \o Stop \o Leave) = "take"
    /\ Closing(Stop \o Leave) /\ Head(Stop \o Leave) = "take"
    /\ Head(Off) = "off" /\ Head(Runs) = "run"
<1>1. Order \in Seq(Services) /\ "pid" \notin Services
  BY FleetAssumption
<1> DEFINE n == Len(Order)
           t == <<"pid">> \o Order \o Runs
<1>2. n \in Nat
  BY <1>1
<1>3. /\ t \in Seq(Services \cup {"pid", "run"}) /\ Len(t) = n + 2
      /\ t[1] = "pid" /\ t[n + 2] = "run" /\ \A i \in 1 .. n : t[i + 1] = Order[i]
  BY <1>1 DEF Runs
<1>4. \A i \in 1 .. n : Order[i] \in Services
  BY <1>1
<1> HIDE DEF n, t
<1>5. \A i \in 2 .. n + 2 : t[i] # "pid"
  <2> SUFFICES ASSUME NEW i \in 2 .. n + 2 PROVE t[i] # "pid"
    OBVIOUS
  <2>1. i = n + 2 \/ i - 1 \in 1 .. n
    BY <1>2
  <2>2. ASSUME i - 1 \in 1 .. n PROVE t[i] \in Services
    <3>1. t[(i - 1) + 1] = Order[i - 1]
      BY <1>3, <2>2
    <3> QED
      BY <1>2, <1>4, <2>2, <3>1
  <2> QED
    BY <1>1, <1>3, <2>1, <2>2
<1>6. Opening(t) /\ Head(t) = "pid"
  BY <1>2, <1>3, <1>5 DEF Opening
<1>7. Closing(Stop \o Leave) /\ Head(Stop \o Leave) = "take"
  <2> DEFINE u == Stop \o Leave
  <2>1. /\ u \in Seq(Farewell) /\ Len(u) = 3
        /\ u[1] = "take" /\ u[2] = "clear" /\ u[3] = "exit"
    BY DEF Stop, Leave, Farewell
  <2> HIDE DEF u
  <2>2. Closing(u) /\ Head(u) = "take"
    BY <2>1 DEF Closing
  <2> QED
    BY <2>2 DEF u
<1>8. Closing(Stop \o Stop \o Leave) /\ Head(Stop \o Stop \o Leave) = "take"
  <2> DEFINE u == Stop \o Stop \o Leave
  <2>1. /\ u \in Seq(Farewell) /\ Len(u) = 5 /\ u[1] = "take" /\ u[2] = "clear"
        /\ u[3] = "take" /\ u[4] = "clear" /\ u[5] = "exit"
    BY DEF Stop, Leave, Farewell
  <2> HIDE DEF u
  <2>2. Closing(u) /\ Head(u) = "take"
    BY <2>1 DEF Closing
  <2> QED
    BY <2>2 DEF u
<1>9. Head(Off) = "off" /\ Head(Runs) = "run"
  BY DEF Off, Runs
<1>10. Opening(<<"pid">> \o Order \o Runs) /\ Head(<<"pid">> \o Order \o Runs) = "pid"
  BY <1>6, Zenon DEF t
<1> QED
  BY <1>7, <1>8, <1>9, <1>10, Zenon

LEMMA FleetStart == FleetInit => FleetInv
<1> SUFFICES ASSUME FleetInit PROVE FleetInv
  OBVIOUS
<1>1. \A b \in Boards : ~Has(b) /\ Head(board[b]) = "off"
  BY Schedules DEF FleetInit, Blank, Has, Live
<1>2. FleetShape
  BY DEF FleetInit, FleetShape, Blank
<1>3. Steered
  BY <1>1, FleetAssumption DEF FleetInit, Steered, Owns, At
<1> QED
  BY <1>2, <1>3 DEF FleetInv

\* The head of what is left tells where a dashboard is.
LEMMA Heads ==
    ASSUME FleetShape, NEW b \in Boards
    PROVE  /\ Head(board[b]) \in {"pid", "run"} \cup Services <=> Opening(board[b])
           /\ Head(board[b]) \in {"take", "clear", "exit"} <=> Closing(board[b])
           /\ Head(board[b]) = "off" <=> board[b] = Off
BY Schedules, Opened, Closed, FleetAssumption DEF FleetShape

\* Nobody comes by a process but who is starting services or runs.
LEMMA CalmKeeps ==
    ASSUME Steered, UNCHANGED <<pid, mine, loose>>,
           \A b \in Boards, s \in Services : proc'[b][s] \in Live =>
               proc[b][s] \in Live \/ Head(board[b]) \in Services \cup {"run"},
           \A b \in Boards : \/ Head(board'[b]) = Head(board[b])
                            \/ /\ Head(board[b]) \in Services \cup {"run"}
                               /\ Head(board'[b]) \in Services \cup {"run", "take"}
    PROVE  Steered'
<1>1. \A b \in Boards : Owns(b)' => Owns(b)
  BY FleetAssumption DEF Owns, Has
<1>2. \A b \in Boards, x \in {"pid", "clear"} : At(b, x)' => At(b, x)
  BY FleetAssumption DEF At
<1>3. \A b \in Boards : Head(board'[b]) \in {"exit", "off", "clear"} =>
        Head(board[b]) = Head(board'[b]) /\ \A s \in Services : proc'[b][s] \in Live => proc[b][s] \in Live
  BY FleetAssumption
<1> QED
  BY <1>1, <1>2, <1>3 DEF Steered, At, Has

\* A board that keeps its shape in a step that touches nothing but lists known here.
LEMMA ShapeKeeps ==
    ASSUME FleetShape, slip' \in BOOLEAN,
           DOMAIN board' = Boards,
           \A b \in Boards : board'[b] = board[b] \/ board'[b] = Off \/ Opening(board'[b]) \/ Closing(board'[b]),
           DOMAIN proc' = Boards, \A b \in Boards : DOMAIN proc'[b] = Services,
           DOMAIN loose' = Services, DOMAIN mine' = Boards,
           DOMAIN monitor' = Boards, \A b \in Boards : monitor'[b] \in Services \cup {Nobody}
    PROVE  FleetShape'
BY DEF FleetShape, Opening, Closing

LEMMA SpawnKeeps ==
    ASSUME FleetShape, NEW b \in Boards, NEW s \in Services, Spawn(b, s)
    PROVE  /\ DOMAIN proc' = Boards /\ \A o \in Boards : DOMAIN proc'[o] = Services
           /\ \A o \in Boards, r \in Services : proc'[o][r] \in Live => proc[o][r] \in Live \/ o = b
<1>1. \/ proc' = proc
      \/ \E x : proc' = [proc EXCEPT ![b][s] = x]
  BY DEF Spawn
<1> QED
  BY <1>1 DEF FleetShape

LEMMA OnMountKeeps == ASSUME FleetInv, NEW b \in Boards, OnMount(b) PROVE FleetInv'
<1>1. /\ board[b] = Off /\ ~AlreadyRunning
      /\ board' = [board EXCEPT ![b] = <<"pid">> \o Order \o Runs]
      /\ slip' = (slip \/ \E o \in Boards : At(o, "pid"))
      /\ UNCHANGED <<pid, proc, monitor, mine, loose>>
  BY DEF OnMount
<1>2. board'[b] = <<"pid">> \o Order \o Runs /\ \A o \in Boards \ {b} : board'[o] = board[o]
  BY <1>1 DEF FleetInv, FleetShape
<1>3. FleetShape'
  BY <1>1, <1>2, Schedules, ShapeKeeps DEF FleetInv, FleetShape
<1>4. ASSUME ~slip' PROVE Steered'
  <2>1. Steered /\ \A o \in Boards : ~At(o, "pid")
    BY <1>1, <1>4 DEF FleetInv
  <2>2. Head(board'[b]) = "pid" /\ Head(board[b]) = "off"
    BY <1>1, <1>2, Schedules
  <2>3. \A o \in Boards : ~Owns(o)
    BY <1>1, <2>1, <2>2, FleetAssumption, Schedules DEF AlreadyRunning, Steered, Owns
  <2>4. \A o \in Boards : ~Owns(o)' /\ (Has(o)' <=> Has(o))
    BY <1>1, <1>2, <2>2, <2>3, FleetAssumption DEF Owns, Has
  <2> QED
    BY <1>1, <1>2, <2>1, <2>2, <2>4 DEF Steered, At
<1> QED
  BY <1>3, <1>4 DEF FleetInv, FleetShape

LEMMA WritePidKeeps == ASSUME FleetInv, NEW b \in Boards, WritePid(b) PROVE FleetInv'
<1>1. At(b, "pid") /\ Done(b) /\ pid' = b /\ UNCHANGED <<proc, monitor, mine, loose, slip>>
  BY DEF WritePid
<1>2. board'[b] = Tail(board[b]) /\ \A o \in Boards \ {b} : board'[o] = board[o]
  BY <1>1 DEF FleetInv, FleetShape, Done
<1>3. Opening(board[b])
  BY <1>1, Heads DEF FleetInv, At
<1>4. Opening(board'[b]) /\ Head(board'[b]) # "pid" /\ Head(board'[b]) \in Services \cup {"run"}
  BY <1>1, <1>2, <1>3, Opened DEF At
<1>5. FleetShape'
  BY <1>1, <1>2, <1>4, ShapeKeeps DEF FleetInv, FleetShape, Done
<1>6. ASSUME Steered PROVE Steered'
  <2>1. \A o \in Boards \ {b} : ~Owns(o)' /\ ~At(o, "pid")'
    BY <1>1, <1>2, <1>6 DEF Steered, Owns, Has, At
  <2> QED
    BY <1>1, <1>2, <1>4, <1>6, <2>1, FleetAssumption DEF Steered, At, Has
<1> QED
  BY <1>1, <1>5, <1>6 DEF FleetInv

LEMMA StartKeeps == ASSUME FleetInv, NEW b \in Boards, Start(b) PROVE FleetInv'
<1>1. PICK s \in Services : At(b, s) /\ Done(b) /\ Spawn(b, s)
  BY DEF Start
<1>2. UNCHANGED <<pid, monitor, mine, loose, slip>>
  BY DEF Start
<1>3. board'[b] = Tail(board[b]) /\ \A o \in Boards \ {b} : board'[o] = board[o]
  BY <1>1 DEF FleetInv, FleetShape, Done
<1>4. Opening(board[b]) /\ Head(board[b]) = s
  BY <1>1, Heads DEF FleetInv, At
<1>5. Opening(board'[b]) /\ Head(board'[b]) \in Services \cup {"run"}
  BY <1>3, <1>4, Opened, FleetAssumption
<1>6. FleetShape'
  BY <1>1, <1>2, <1>3, <1>5, SpawnKeeps, ShapeKeeps DEF FleetInv, FleetShape, Done
<1>7. ASSUME Steered PROVE Steered'
  BY <1>1, <1>2, <1>3, <1>4, <1>5, <1>7, SpawnKeeps, CalmKeeps DEF FleetInv
<1> QED
  BY <1>2, <1>6, <1>7 DEF FleetInv

LEMMA QuitKeeps == ASSUME FleetInv, NEW b \in Boards, Quit(b) PROVE FleetInv'
<1>1. PICK todo \in {Stop \o Stop \o Leave, Stop \o Leave} : board' = [board EXCEPT ![b] = todo]
  BY DEF Quit
<1>2. board[b] = Runs /\ UNCHANGED <<pid, proc, monitor, mine, loose, slip>>
  BY DEF Quit
<1>3. board'[b] = todo /\ \A o \in Boards \ {b} : board'[o] = board[o]
  BY <1>1 DEF FleetInv, FleetShape
<1>4. Closing(board'[b]) /\ Head(board'[b]) = "take" /\ Head(board[b]) = "run"
  BY <1>1, <1>2, <1>3, Schedules
<1>5. FleetShape'
  BY <1>1, <1>2, <1>3, <1>4, ShapeKeeps DEF FleetInv, FleetShape
<1>6. ASSUME Steered PROVE Steered'
  BY <1>2, <1>3, <1>4, <1>6, CalmKeeps
<1> QED
  BY <1>2, <1>5, <1>6 DEF FleetInv

LEMMA TakeKeeps == ASSUME FleetInv, NEW b \in Boards, Take(b) PROVE FleetInv'
<1>1. /\ At(b, "take") /\ Done(b) /\ UNCHANGED <<pid, proc, monitor, loose, slip>>
      /\ mine' = [mine EXCEPT ![b] = {s \in Services : proc[b][s] \in Live}]
  BY DEF Take
<1>2. /\ board'[b] = Tail(board[b]) /\ \A o \in Boards \ {b} : board'[o] = board[o]
      /\ mine'[b] = {s \in Services : proc[b][s] \in Live} /\ \A o \in Boards \ {b} : mine'[o] = mine[o]
  BY <1>1 DEF FleetInv, FleetShape, Done
<1>3. Closing(board[b]) /\ Head(board[b]) = "take"
  BY <1>1, Heads DEF FleetInv, At
<1>4. Closing(board'[b]) /\ Head(board'[b]) = "clear"
  BY <1>2, <1>3, Closed
<1>5. FleetShape'
  BY <1>1, <1>2, <1>4, ShapeKeeps DEF FleetInv, FleetShape, Done
<1>6. ASSUME Steered PROVE Steered'
  <2>1. \A o \in Boards : Owns(o)' => Owns(o)
    BY <1>1, <1>2, <1>3, <1>4, FleetAssumption DEF Owns, Has
  <2>2. \A o \in Boards : At(o, "pid")' => At(o, "pid")
    BY <1>2, <1>4 DEF At
  <2>3. \A o \in Boards : At(o, "clear")' => \A s \in Services : proc'[o][s] \in Live => s \in mine'[o]
    BY <1>1, <1>2, <1>6 DEF Steered, At
  <2>4. \A o \in Boards : Head(board'[o]) \in {"exit", "off"} => ~Has(o)'
    BY <1>1, <1>2, <1>4, <1>6 DEF Steered, Has
  <2> QED
    BY <1>1, <1>6, <2>1, <2>2, <2>3, <2>4 DEF Steered
<1> QED
  BY <1>1, <1>5, <1>6 DEF FleetInv

\* What is left of a dashboard that lets go of its processes, none of them running on.
LEMMA ForgetKeeps ==
    ASSUME FleetShape, NEW b \in Boards, NEW S \in SUBSET Services, Forget(b), Loosened(S)
    PROVE  /\ DOMAIN proc' = Boards /\ \A o \in Boards : DOMAIN proc'[o] = Services
           /\ DOMAIN loose' = Services
           /\ ~Has(b)' /\ \A o \in Boards \ {b} : proc'[o] = proc[o]
           /\ S = {} => \A s \in Services : loose'[s] = loose[s]
<1>1. DOMAIN proc' = Boards /\ proc'[b] = [s \in Services |-> "none"] /\ \A o \in Boards \ {b} : proc'[o] = proc[o]
  BY DEF FleetShape, Forget
<1>2. ~Has(b)' /\ \A o \in Boards : DOMAIN proc'[o] = Services
  BY <1>1 DEF FleetShape, Has, Live
<1>3. DOMAIN loose' = Services /\ (S = {} => \A s \in Services : loose'[s] = loose[s])
  BY DEF Loosened
<1> QED
  BY <1>1, <1>2, <1>3 DEF FleetShape

LEMMA ClearKeeps == ASSUME FleetInv, NEW b \in Boards, Clear(b) PROVE FleetInv'
<1> DEFINE S == Behind(b, mine[b])
<1>1. /\ At(b, "clear") /\ Done(b) /\ pid' = Nobody /\ mine' = [mine EXCEPT ![b] = {}]
      /\ Loosened(S) /\ Forget(b) /\ slip' = (slip \/ pid \notin {b, Nobody}) /\ UNCHANGED monitor
  BY DEF Clear, books
<1>2. board'[b] = Tail(board[b]) /\ \A o \in Boards \ {b} : board'[o] = board[o] /\ mine'[o] = mine[o]
  BY <1>1 DEF FleetInv, FleetShape, Done
<1>3. Closing(board[b]) /\ Head(board[b]) = "clear"
  BY <1>1, Heads DEF FleetInv, At
<1>4. Closing(board'[b]) /\ Head(board'[b]) \in {"take", "exit"}
  BY <1>2, <1>3, Closed
<1>5. S \in SUBSET Services
  BY DEF Behind
<1> HIDE DEF S
<1>6. FleetShape'
  BY <1>1, <1>2, <1>4, <1>5, ForgetKeeps, ShapeKeeps DEF FleetInv, FleetShape, Done
<1>7. ASSUME ~slip' PROVE Steered'
  <2>1. Steered /\ pid \in {b, Nobody} /\ Nobody \notin Boards
    BY <1>1, <1>7, FleetAssumption DEF FleetInv
  <2>2. S = {}
    BY <1>1, <2>1 DEF Steered, Behind, S
  <2>3. \A o \in Boards : ~Owns(o)'
    <3>1. \A o \in Boards \ {b} : ~Owns(o)
      BY <2>1 DEF Steered
    <3>2. ~Has(b)' /\ \A o \in Boards \ {b} : proc'[o] = proc[o]
      BY <1>1, <1>5, ForgetKeeps DEF FleetInv
    <3>3. ~Owns(b)'
      BY <1>4, <3>2, FleetAssumption DEF Owns
    <3> QED
      BY <1>2, <3>1, <3>2, <3>3 DEF Owns, Has
  <2>4. \A o \in Boards \ {b} : At(o, "pid")' => At(o, "pid")
    BY <1>2 DEF At
  <2>5. ~At(b, "pid")' /\ ~At(b, "clear")' /\ ~At(b, "pid")
    BY <1>3, <1>4 DEF At
  <2>6. \A o \in Boards \ {b} : At(o, "clear")' => \A s \in Services : proc'[o][s] \in Live => s \in mine'[o]
    BY <1>1, <1>2, <1>5, <2>1, ForgetKeeps DEF FleetInv, Steered, At
  <2>7. \A s \in Services : loose'[s] = 0
    BY <1>1, <1>5, <2>1, <2>2, ForgetKeeps DEF FleetInv, Steered
  <2>8. \A o \in Boards : ~Has(o)'
    BY <2>3 DEF Owns
  <2> QED
    BY <2>1, <2>3, <2>4, <2>5, <2>6, <2>7, <2>8 DEF Steered
<1>8. slip' \in BOOLEAN
  BY <1>1 DEF FleetInv, FleetShape
<1> QED
  BY <1>6, <1>7, <1>8 DEF FleetInv

LEMMA GoneKeeps ==
    ASSUME FleetInv, NEW b \in Boards, Gone(b), (Head(board[b]) = "exit" /\ slip' = slip) \/ slip' = TRUE
    PROVE  FleetInv'
<1> DEFINE S == Behind(b, {})
<1>1. /\ board' = [board EXCEPT ![b] = Off] /\ monitor' = [monitor EXCEPT ![b] = Nobody]
      /\ mine' = [mine EXCEPT ![b] = {}] /\ Loosened(S) /\ Forget(b) /\ pid' = pid
  BY DEF Gone
<1>2. board'[b] = Off /\ \A o \in Boards \ {b} : board'[o] = board[o] /\ mine'[o] = mine[o]
  BY <1>1 DEF FleetInv, FleetShape
<1>3. S \in SUBSET Services
  BY DEF Behind
<1> HIDE DEF S
<1>4. FleetShape'
  BY <1>1, <1>2, <1>3, ForgetKeeps, ShapeKeeps DEF FleetInv, FleetShape
<1>5. ASSUME ~slip' PROVE Steered'
  <2>1. Steered /\ Head(board[b]) = "exit" /\ Head(board'[b]) = "off"
    BY <1>2, <1>5, Schedules DEF FleetInv
  <2>2. S = {}
    BY <2>1 DEF Steered, Behind, Has, S
  <2>3. ~Owns(b)' /\ ~Has(b)' /\ \A o \in Boards \ {b} : (Owns(o)' <=> Owns(o)) /\ (Has(o)' <=> Has(o))
    BY <1>1, <1>2, <1>3, <2>1, ForgetKeeps, FleetAssumption DEF FleetInv, Owns, Has
  <2>4. ~At(b, "pid")' /\ ~At(b, "clear")'
    BY <2>1 DEF At
  <2>5. \A o \in Boards \ {b}, x \in {"pid", "clear"} : At(o, x)' <=> At(o, x)
    BY <1>2 DEF At
  <2>6. \A o \in Boards \ {b} : At(o, "clear")' => \A s \in Services : proc'[o][s] \in Live => s \in mine'[o]
    BY <1>1, <1>2, <1>3, <2>1, ForgetKeeps DEF FleetInv, Steered, At
  <2>7. \A s \in Services : loose'[s] = 0
    BY <1>1, <1>3, <2>1, <2>2, ForgetKeeps DEF FleetInv, Steered
  <2>8. \A o \in Boards : Head(board'[o]) \in {"exit", "off"} => ~Has(o)'
    BY <1>2, <2>1, <2>3 DEF Steered
  <2> QED
    BY <1>1, <2>1, <2>3, <2>4, <2>5, <2>7, <2>6, <2>8 DEF Steered
<1> QED
  BY <1>4, <1>5 DEF FleetInv, FleetShape

LEMMA RespawnKeeps == ASSUME FleetInv, NEW b \in Boards, Respawn(b) PROVE FleetInv'
<1>1. /\ slip' = (slip \/ board[b] # Runs) /\ monitor' = [monitor EXCEPT ![b] = Nobody]
      /\ UNCHANGED <<pid, board, mine, loose>>
  BY DEF Respawn
<1>2. ASSUME monitor[b] \in Services PROVE FleetInv'
  <2>1. Spawn(b, monitor[b])
    BY DEF Respawn
  <2>2. FleetShape'
    BY <1>1, <1>2, <2>1, SpawnKeeps, ShapeKeeps DEF FleetInv, FleetShape
  <2>3. ASSUME ~slip' PROVE Steered'
    <3>1. Head(board[b]) = "run" /\ Steered
      BY <1>1, <2>3, Schedules DEF FleetInv
    <3> QED
      BY <1>1, <1>2, <2>1, <3>1, SpawnKeeps, CalmKeeps DEF FleetInv
  <2> QED
    BY <1>1, <2>2, <2>3 DEF FleetInv, FleetShape
<1> QED
  BY <1>2 DEF FleetInv, FleetShape, Respawn

\* The steps of the services and of the monitor that spawn nothing.
LEMMA ServiceKeeps ==
    ASSUME FleetInv, NEW b \in Boards, NEW s \in Services, Service(b, s)
    PROVE  FleetInv'
<1>1. UNCHANGED <<pid, board, mine, loose, slip>>
  BY DEF Service, LeaveBe, Fail, Cool, Bind, End
<1>2. DOMAIN monitor' = Boards /\ \A o \in Boards : monitor'[o] \in Services \cup {Nobody}
  BY DEF Service, LeaveBe, Fail, Cool, Bind, End, FleetInv, FleetShape
<1>3. \/ proc' = proc
      \/ proc[b][s] \in Live /\ \E x : proc' = [proc EXCEPT ![b][s] = x]
  BY DEF Service, LeaveBe, Fail, Cool, Bind, End, Live
<1>4. /\ DOMAIN proc' = Boards /\ \A o \in Boards : DOMAIN proc'[o] = Services
      /\ \A o \in Boards, r \in Services : proc'[o][r] \in Live => proc[o][r] \in Live
  BY <1>3 DEF FleetInv, FleetShape
<1>5. FleetShape'
  BY <1>1, <1>2, <1>4, ShapeKeeps DEF FleetInv, FleetShape
<1>6. ASSUME Steered PROVE Steered'
  BY <1>1, <1>4, <1>6, CalmKeeps
<1> QED
  BY <1>1, <1>5, <1>6 DEF FleetInv

LEMMA LooseEndsKeeps == ASSUME FleetInv, NEW s \in Services, LooseEnds(s) PROVE FleetInv'
<1>1. loose[s] > 0 /\ DOMAIN loose' = Services /\ UNCHANGED <<pid, board, proc, monitor, mine, slip>>
  BY DEF LooseEnds, FleetInv, FleetShape
<1>2. ~Steered
  BY <1>1 DEF Steered
<1> QED
  BY <1>1, <1>2 DEF FleetInv, FleetShape

LEMMA FleetStep == FleetInv /\ [FleetNext]_fleetVars => FleetInv'
<1> SUFFICES ASSUME FleetInv, [FleetNext]_fleetVars PROVE FleetInv'
  OBVIOUS
<1>1. CASE UNCHANGED fleetVars
  BY <1>1 DEF fleetVars, FleetInv, FleetShape, Opening, Closing, Steered, Owns, Has, At
<1>2. ASSUME NEW b \in Boards, Board(b) PROVE FleetInv'
  <2>1. CASE Exit(b)
    BY <2>1, GoneKeeps DEF Exit, At
  <2>2. CASE Killed(b)
    BY <2>2, GoneKeeps DEF Killed
  <2> QED
    BY <1>2, <2>1, <2>2, OnMountKeeps, WritePidKeeps, StartKeeps, QuitKeeps, TakeKeeps, ClearKeeps,
       RespawnKeeps DEF Board
<1> QED
  BY <1>1, <1>2, ServiceKeeps, LooseEndsKeeps DEF FleetNext

\* But for a slip, no service runs twice: one dashboard's processes are the only ones,
\* and there is one of each service.
LEMMA FleetInvTells == FleetInv => OneInstance
<1> SUFFICES ASSUME Steered, NEW s \in Services
             PROVE  loose[s] + Cardinality({b \in Boards : proc[b][s] \in Live}) <= 1
  BY DEF FleetInv, OneInstance
<1> DEFINE B == {b \in Boards : proc[b][s] \in Live}
<1>1. B = {} \/ B = {pid}
  BY DEF Steered, Owns, Has
<1>2. Cardinality(B) \in {0, 1}
  BY <1>1, FS_EmptySet, FS_Singleton
<1> HIDE DEF B
<1>3. loose[s] + Cardinality(B) <= 1
  BY <1>2 DEF Steered
<1> QED
  BY <1>3 DEF B

\* OneInstance: a service has one process at most, loose ones included, unless two
\* dashboards were let in, one was killed or its PID file removed, or a monitor spawned
\* late (fleet.py, _spawn and stop; app.py, on_mount).
THEOREM OneOfEach == FleetSpec => []OneInstance
<1>1. FleetInv /\ [FleetNext]_fleetVars => FleetInv'
  BY FleetStep
<1> QED
  BY FleetStart, <1>1, FleetInvTells, PTL DEF FleetSpec
=============================================================================
