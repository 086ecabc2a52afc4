-------------------------------- MODULE Nest --------------------------------
(***************************************************************************)
(* The Nest: drop zones for files, and a queue of what was found there     *)
(* (sap/core/nest_intake.py), which the watcher and the tools nest_scan    *)
(* and nest_file each load whole, change and write back without a lock.    *)
(***************************************************************************)
EXTENDS Naturals, Sequences, FiniteSets, FiniteSetsExt, Sorting

CONSTANTS Callers,     \* threads of tool servers
          Watcher,     \* tools/nest_watcher.py
          Files, NoFile,
          Paths,       \* places in the drop zones, numbers in the order of a scan
          Places,      \* destinations: of the tracks, and those an override names
          MaxCalls,    \* bound: tool calls
          MaxDeaths    \* bound: processes that end inside a call

ASSUME NestAssumption ==
    /\ Watcher \notin Callers /\ NoFile \notin Files
    /\ Paths \subseteq Nat /\ IsFiniteSet(Paths) /\ MaxCalls \in Nat /\ MaxDeaths \in Nat

VARIABLES nest,     \* the file at each path of the drop zones
          shelf,    \* the file at each spot: a destination and the number added to its name
          queue,    \* the queue file
          torn,     \* it is empty: between its truncation and its writing
          pass,     \* the call each caller is in
          calls, deaths,
          outdated, \* history: the queue was written over one it was not made from
          taken,    \* history: paths emptied without a word in the queue, see Moves and Ends
          crushed,  \* history: files another one was moved onto
          raced     \* history: two confirms had chosen one spot

disk     == <<nest, shelf, crushed>>
nestVars == <<disk, queue, torn, pass, calls, deaths, outdated, taken, raced>>

Everyone == Callers \cup {Watcher}
Numbers  == 0 .. Cardinality(Files)
Spots    == Places \X Numbers
Resting  == [todo |-> "none", read |-> <<>>, new |-> <<>>, item |-> 0, spot |-> <<>>]

NestInit ==
    /\ nest = [p \in Paths |-> NoFile] /\ shelf = [s \in Spots |-> NoFile]
    /\ queue = <<>> /\ torn = FALSE
    /\ pass = [c \in Everyone |-> Resting]
    /\ calls = 0 /\ deaths = 0
    /\ outdated = FALSE /\ taken = {} /\ crushed = {} /\ raced = FALSE

Kept == {nest[p] : p \in Paths} \cup {shelf[s] : s \in Spots}

\* A person puts a new file where none is.
Drop(p) ==
    /\ nest[p] = NoFile
    /\ \E f \in Files \ (Kept \cup crushed) : nest' = [nest EXCEPT ![p] = f]
    /\ taken' = taken \ {p}
    /\ UNCHANGED <<shelf, crushed, queue, torn, pass, calls, deaths, outdated, raced>>

-----------------------------------------------------------------------------
Doing(c, x) == pass[c].todo = x
Does(c, r) == pass' = [pass EXCEPT ![c] = r]
Pending(q) == {q[i].src : i \in {i \in DOMAIN q : q[i].st = "pending"}}
Found(q, i) == {j \in DOMAIN q : q[j].id = i}

\* Every call loads the queue; an empty file is no JSON and ends it with an exception.
Load(c, todo, item) ==
    /\ Doing(c, "none") /\ ~torn
    /\ Does(c, [Resting EXCEPT !.todo = todo, !.item = item, !.read = queue, !.new = queue])
    /\ IF c = Watcher THEN UNCHANGED calls ELSE calls < MaxCalls /\ calls' = calls + 1
    /\ UNCHANGED <<disk, queue, torn, deaths, outdated, taken, raced>>
\* It saves with write_text, which truncates first.
Saving(l, q) == [l EXCEPT !.todo = "truncate", !.new = q]

\* Files that have no pending item are staged, with ids counted on from the length.
Stage(q, S) ==
    LET s == Sorted(S)
    IN  q \o [k \in 1 .. Len(s) |-> [id |-> Len(q) + k, src |-> s[k], st |-> "pending"]]
\* Faulty: pending items are not looked at.
StageAgain(q) == Stage(q, {p \in Paths : nest[p] # NoFile})
StageNew(q) == Stage(q, {p \in Paths : nest[p] # NoFile /\ p \notin Pending(q)})

ScanNest(c) == Load(c, "scan", 0)
Looks(c) ==
    /\ Doing(c, "scan")
    /\ LET q == StageNew(pass[c].new)
       IN  Does(c, IF q = pass[c].new THEN Resting ELSE Saving(pass[c], q))
    /\ UNCHANGED <<disk, queue, torn, calls, deaths, outdated, taken, raced>>

\* A person names an item of the queue; the first one of that id is meant.
ConfirmReview(c) == \E j \in DOMAIN queue : Load(c, "confirm", queue[j].id)
SkipItem(c)      == \E j \in DOMAIN queue : Load(c, "skip", queue[j].id)

Marked(l, st) == [l.new EXCEPT ![Min(Found(l.new, l.item))].st = st]
Src(l)        == l.new[Min(Found(l.new, l.item))].src

Skips(c) ==
    /\ Doing(c, "skip") /\ Does(c, Saving(pass[c], Marked(pass[c], "skipped")))
    /\ UNCHANGED <<disk, queue, torn, calls, deaths, outdated, taken, raced>>
\* confirm_review with no destination, of the track or by an override, changes nothing.
NoDestination(c) ==
    /\ Doing(c, "confirm") /\ Does(c, Resting)
    /\ UNCHANGED <<disk, queue, torn, calls, deaths, outdated, taken, raced>>
\* The source must be there; then the first free name at the destination is taken.
Free(d, n)  == shelf[<<d, n>>] = NoFile /\ \A k \in 0 .. (n - 1) : shelf[<<d, k>>] # NoFile
Rival(c, s) == \E o \in Everyone \ {c} : Doing(o, "move") /\ pass[o].spot = s
Misses(c) ==
    /\ Doing(c, "confirm") /\ nest[Src(pass[c])] = NoFile
    /\ Does(c, Saving(pass[c], Marked(pass[c], "error")))
    /\ UNCHANGED <<disk, queue, torn, calls, deaths, outdated, taken, raced>>
Chooses(c) ==
    /\ Doing(c, "confirm") /\ nest[Src(pass[c])] # NoFile
    /\ \E d \in Places, n \in Numbers :
        /\ Free(d, n)
        /\ Does(c, [pass[c] EXCEPT !.todo = "move", !.spot = <<d, n>>])
        /\ raced' = (raced \/ Rival(c, <<d, n>>))
    /\ UNCHANGED <<disk, queue, torn, calls, deaths, outdated, taken>>
\* shutil.move raises if the source has gone, and replaces what is at the destination.
Moves(c) ==
    /\ Doing(c, "move")
    /\ LET l == pass[c]
           p == Src(l)
       IN  IF nest[p] = NoFile THEN Does(c, Resting) /\ UNCHANGED <<disk, taken>>
           ELSE /\ nest' = [nest EXCEPT ![p] = NoFile]
                /\ shelf' = [shelf EXCEPT ![l.spot] = nest[p]]
                /\ crushed' = crushed \cup ({shelf[l.spot]} \ {NoFile})
                /\ Does(c, Saving(l, Marked(l, "confirmed")))
                /\ taken' = IF l.new[Min(Found(l.new, l.item))].st = "pending" THEN taken ELSE taken \cup {p}
    /\ UNCHANGED <<queue, torn, calls, deaths, outdated, raced>>

Truncates(c) ==
    /\ Doing(c, "truncate") /\ Does(c, [pass[c] EXCEPT !.todo = "write"])
    /\ torn' = TRUE
    /\ outdated' = (outdated \/ torn \/ queue # pass[c].read)
    /\ UNCHANGED <<disk, queue, calls, deaths, taken, raced>>
Writes(c) ==
    /\ Doing(c, "write") /\ Does(c, Resting)
    /\ queue' = pass[c].new /\ torn' = FALSE
    /\ UNCHANGED <<disk, calls, deaths, outdated, taken, raced>>

\* The process ends inside the call, whose file may have been moved already.
Ends(c) ==
    /\ ~Doing(c, "none") /\ deaths < MaxDeaths /\ deaths' = deaths + 1
    /\ Does(c, Resting)
    /\ taken' = IF pass[c].item # 0 /\ pass[c].spot # <<>> /\ ~Doing(c, "move")
                THEN taken \cup {Src(pass[c])} ELSE taken
    /\ UNCHANGED <<disk, queue, torn, calls, outdated, raced>>

Tool(c) ==
    \/ c \in Callers /\ (ConfirmReview(c) \/ SkipItem(c))
    \/ ScanNest(c) \/ Looks(c) \/ Skips(c) \/ NoDestination(c) \/ Misses(c) \/ Chooses(c)
    \/ Moves(c) \/ Truncates(c) \/ Writes(c) \/ Ends(c)
NestNext == (\E p \in Paths : Drop(p)) \/ \E c \in Everyone : Tool(c)

NestSpec == NestInit /\ [][NestNext]_nestVars

-----------------------------------------------------------------------------
\* Confirming moves no file onto another one, unless a second confirm chose the free name
\* before the first had moved (_unique_dest looks, shutil.move replaces).
FilesKept == raced \/ crushed = {}

\* The queue tells what is there: as long as nobody wrote over a queue he had not read,
\* ids are those of the positions, so that what a person confirms is what she saw; and a
\* pending item has its file, or its confirm is under way, or was cut off after the
\* move, or the file went with another item of the same path.
QueueTells == outdated \/
    \A j \in DOMAIN queue :
      /\ queue[j].id = j
      /\ queue[j].st = "pending" =>
            \/ nest[queue[j].src] # NoFile \/ queue[j].src \in taken
            \/ \E c \in Callers : pass[c].todo \in {"truncate", "write"} /\ pass[c].item # 0
                                  /\ Src(pass[c]) = queue[j].src
=============================================================================
