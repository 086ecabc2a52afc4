------------------------------- MODULE Grove -------------------------------
(***************************************************************************)
(* Grove: the table of messages all agents write to, and the programs that *)
(* follow it.                                                              *)
(*                                                                         *)
(* A message takes its id when it is inserted and is seen by others when   *)
(* it is committed, so ids may become visible out of order.  The trigger   *)
(* notifies at the commit, with the channel only.  Clients are the tool    *)
(* calls of agents and the signed requests of the command server, each a   *)
(* sequence of steps of its own that interleave and may be cut short.      *)
(*                                                                         *)
(* One reader runs in each behaviour: readers see each other only through  *)
(* the table, where another one's posts are no different from a client's.  *)
(*   listen       grove_listen.py, a cursor for each channel               *)
(*   heimdallr    grove_monitor_heimdallr.py and `grove_msg watch`         *)
(*   watch        the loop of grove_serve.py that answers "@willow"        *)
(*   coordinator  coordinator.py, which fetches the channel it is told of  *)
(*   poller       an agent that calls grove_watch(_all) with its cursors   *)
(***************************************************************************)
EXTENDS Naturals, Sequences, FiniteSets, FiniteSetsExt, SequencesExt, Sorting

CONSTANTS Clients, Channels,
          General,     \* the channel heartbeats go to
          Readers,     \* the readers behaviours have; "none" is one without
          Tools,       \* the tools clients call, for each reader
          Rooms,       \* the channels they write to, for each reader
          Existing,    \* the channels there are at first, for each reader
          Batch,       \* rows one query returns at most (20 or 50)
          MaxMsgs, MaxTrouble  \* bounds: messages, for each reader; faults

ASSUME GroveAssumption ==
    /\ General \in Channels /\ "willow" \notin Clients
    /\ Readers \subseteq {"none", "listen", "heimdallr", "watch", "coordinator", "poller"}
    /\ Tools \in [Readers -> SUBSET {"send", "post", "command", "ack", "reply", "heartbeat"}]
    /\ {Rooms, Existing} \subseteq [Readers -> SUBSET Channels]
    /\ Batch \in Nat \ {0} /\ MaxMsgs \in [Readers -> Nat] /\ MaxTrouble \in Nat

VARIABLES chans, msgs, flags,   \* the tables: channels, messages by id, <<id, who, flag>>
          call,                 \* what each client is doing
          reader,               \* the reader of this behaviour
          link,                 \* "off", "seeded" or "on": how far its connection is
          cursor,               \* for each channel the id it has read up to
          wire, held,           \* notifications on the socket, and in conn.notifies
          work, doing,          \* channels or rows in hand, the message being answered
          shown,                \* history: the ids it went through, in order
          excused,              \* history: ids it could not see, fetch or get to in time
          unseeded,             \* history: it began without a cursor
          overtaken, interrupted,  \* history: flags set after their answer, steps lost
          trouble               \* bounded counter

tables  == <<chans, msgs, flags>>
inbound == <<link, cursor, wire, held, work, doing>>
history == <<shown, excused, unseeded>>
groveVars == <<tables, call, reader, inbound, history, overtaken, interrupted, trouble>>

Ids        == DOMAIN msgs
Committed  == {i \in Ids : msgs[i].st = "in"}
In(ch)     == {i \in Committed : msgs[i].ch = ch}
Newest(S)  == IF S = {} THEN 0 ELSE Max(S)
Idle       == [step |-> "idle", ch |-> General, kind |-> "send", re |-> 0, addr |-> FALSE, id |-> 0]
Message(ch, by, kind, re, addr, st) ==
    [ch |-> ch, by |-> by, kind |-> kind, re |-> re, addr |-> addr, st |-> st]
Needs(i)   == <<i, "system", "needs-reply">>

GroveInit ==
    /\ msgs = <<>> /\ flags = {}
    /\ call = [c \in Clients |-> Idle]
    /\ reader \in Readers /\ chans = Existing[reader]
    /\ link = IF reader \in {"none", "poller"} THEN "on" ELSE "off"
    /\ cursor = [ch \in Channels |-> 0]
    /\ wire = <<>> /\ held = <<>> /\ work = <<>> /\ doing = 0
    /\ shown = <<>> /\ excused = {} /\ unseeded = FALSE
    /\ overtaken = {} /\ interrupted = {} /\ trouble = 0

-----------------------------------------------------------------------------
(* Clients                                                                 *)

At(c, x) == call[c].step = x
\* What a tool call of kind k does after step s.
AfterKeepsFlag(k, s) ==
    CASE s = "create"                        -> "insert"
      [] s = "commit" /\ k = "command"       -> "raise"
      [] s = "commit" /\ k = "reply"         -> "clear"
      [] s \in {"commit", "clear"} /\ k = "ack" -> "read"
      [] OTHER                               -> "idle"
After(k, s) ==
    CASE s = "create"                              -> "insert"
      [] s = "commit" /\ k = "command"             -> "raise"
      [] s = "commit" /\ k \in {"ack", "reply"}    -> "clear"
      [] s = "clear" /\ k = "ack"                  -> "read"
      [] OTHER                                     -> "idle"
Done(c) == LET l == call[c] IN call' = [call EXCEPT ![c] =
    IF After(l.kind, l.step) = "idle" THEN Idle ELSE [l EXCEPT !.step = After(l.kind, l.step)]]

\* The tool call t of client c: it looks for the channel and inserts its message, or goes
\* on to create the channel first.  Nothing removes a channel, so that finding it and
\* inserting are one step.
Takes(c, l) == /\ Len(msgs) < MaxMsgs[reader]
               /\ msgs' = Append(msgs, Message(l.ch, c, l.kind, l.re, l.addr, "open"))
               /\ call' = [call EXCEPT ![c] = [l EXCEPT !.step = "commit", !.id = Len(msgs) + 1]]
Calls(c, t, ch, re, addr) ==
    /\ At(c, "idle") /\ t \in Tools[reader]
    /\ LET l == [step |-> "create", ch |-> ch, kind |-> t, re |-> re, addr |-> addr, id |-> 0]
       IN  IF ch \in chans THEN Takes(c, l) ELSE call' = [call EXCEPT ![c] = l] /\ UNCHANGED msgs
    /\ UNCHANGED <<chans, flags, reader, inbound, history, overtaken, interrupted, trouble>>

\* Texts that call @willow matter only to the two readers that answer them.
Addressed == IF reader \in {"watch", "coordinator"} THEN BOOLEAN ELSE {FALSE}

SendMessage(c) == \E ch \in Rooms[reader], a \in Addressed : Calls(c, "send", ch, 0, a)
\* A signed request to the command server does the same as the tool.
PostSigned(c)  == \E a \in Addressed : Calls(c, "post", General, 0, a)
Heartbeat(c)   == Calls(c, "heartbeat", General, 0, FALSE)
BusSend(c)     == \E ch \in Rooms[reader] : Calls(c, "command", ch, 0, FALSE)
\* A reply and an acknowledgement name a message their author has read.
Reply(c) == \E i \in Committed : Calls(c, "reply", msgs[i].ch, i, FALSE)
Ack(c) == \E i \in Committed :
    msgs[i].kind = "command" /\ Calls(c, "ack", msgs[i].ch, i, FALSE)

\* Names are unique: of two clients that create a channel the second one's call fails.
CreateChannel(c) ==
    /\ At(c, "create")
    /\ IF call[c].ch \in chans THEN call' = [call EXCEPT ![c] = Idle] ELSE Done(c)
    /\ chans' = chans \cup {call[c].ch}
    /\ UNCHANGED <<msgs, flags, reader, inbound, history, overtaken, interrupted, trouble>>
Insert(c) ==
    /\ At(c, "insert") /\ Takes(c, call[c])
    /\ UNCHANGED <<chans, flags, reader, inbound, history, overtaken, interrupted, trouble>>

\* What the reader hears of a commit, and whether it can still come to message i.
Listening == reader \in {"listen", "heimdallr", "coordinator"} /\ link = "on"
Notify(ch) == wire' = IF Listening THEN Append(wire, ch) ELSE wire
Passed(i)  == \/ i <= cursor[msgs[i].ch]
              \/ reader = "watch" /\ \E k \in ToSet(work) : k > i
Excuse(i)  == excused' = IF link = "off" \/ Passed(i) THEN excused \cup {i} ELSE excused

Commit(c) ==
    /\ At(c, "commit") /\ Done(c)
    /\ msgs' = [msgs EXCEPT ![call[c].id].st = "in"]
    /\ Notify(call[c].ch) /\ Excuse(call[c].id)
    /\ UNCHANGED <<chans, flags, reader, link, cursor, held, work, doing, shown, unseeded,
                   overtaken, interrupted, trouble>>

Answers(i) == {k \in Committed : msgs[k].re = i /\ msgs[k].kind \in {"ack", "reply"}}
Pending(k, x) == \E c \in Clients : call[c].id = k /\ At(c, x)

RaiseFlag(c) ==
    /\ At(c, "raise") /\ Done(c)
    /\ flags' = flags \cup {Needs(call[c].id)}
    /\ overtaken' = IF \E k \in Answers(call[c].id) : ~Pending(k, "clear")
                    THEN overtaken \cup {call[c].id} ELSE overtaken
    /\ UNCHANGED <<chans, msgs, reader, inbound, history, interrupted, trouble>>
ClearFlag(c) ==
    /\ At(c, "clear") /\ Done(c)
    /\ flags' = flags \ {Needs(call[c].re)}
    /\ UNCHANGED <<chans, msgs, reader, inbound, history, overtaken, interrupted, trouble>>
MarkRead(c) ==
    /\ At(c, "read") /\ Done(c)
    /\ flags' = flags \cup {<<call[c].re, c, "read">>}
    /\ UNCHANGED <<chans, msgs, reader, inbound, history, overtaken, interrupted, trouble>>

\* The server process of a client ends: what it had not committed is rolled back.
Die(c) ==
    /\ ~At(c, "idle") /\ trouble < MaxTrouble /\ trouble' = trouble + 1
    /\ call' = [call EXCEPT ![c] = Idle]
    /\ msgs' = [i \in Ids |-> IF i = call[c].id /\ msgs[i].st = "open"
                              THEN [msgs[i] EXCEPT !.st = "gone"] ELSE msgs[i]]
    /\ interrupted' = IF call[c].id \in Committed THEN interrupted \cup {call[c].id} ELSE interrupted
    /\ UNCHANGED <<chans, flags, reader, inbound, history, overtaken>>

Client(c) ==
    \/ SendMessage(c) \/ PostSigned(c) \/ Heartbeat(c) \/ BusSend(c) \/ Reply(c) \/ Ack(c)
    \/ CreateChannel(c) \/ Insert(c) \/ Commit(c) \/ RaiseFlag(c) \/ ClearFlag(c) \/ MarkRead(c)
    \/ Die(c)

-----------------------------------------------------------------------------
(* Connecting                                                              *)

Outside == <<call, overtaken, interrupted>>

\* The cursors start at the newest message: of each channel for listen, of all for
\* heimdallr and watch; the coordinator has none.
StartAtZero(ch) == 0
Start(ch) == CASE reader = "listen"      -> Newest(In(ch))
               [] reader = "coordinator" -> 0
               [] OTHER                  -> Newest(Committed)
Seed ==
    /\ link = "off" /\ link' = IF reader \in {"watch", "coordinator"} THEN "on" ELSE "seeded"
    /\ cursor' = [ch \in Channels |-> Start(ch)]
    /\ UNCHANGED <<tables, Outside, reader, wire, held, work, doing, history, trouble>>
\* The loop of grove_serve goes on when its seed fails, from zero.
SeedFails ==
    /\ reader = "watch" /\ link = "off" /\ trouble < MaxTrouble /\ trouble' = trouble + 1
    /\ link' = "on" /\ unseeded' = TRUE
    /\ cursor' = [ch \in Channels |-> 0]
    /\ UNCHANGED <<tables, Outside, reader, wire, held, work, doing, shown, excused>>

\* A program that posts: one statement, and for a LISTENing connection the notification
\* of its own message comes with the answer to the INSERT.
Post(ch, kind, re) ==
    /\ Len(msgs) < MaxMsgs[reader]
    /\ msgs' = Append(msgs, Message(ch, "willow", kind, re, FALSE, "in"))
Listen ==
    /\ link = "seeded" /\ link' = "on"
    /\ \/ /\ reader = "listen" /\ General \in chans
          /\ Post(General, "heartbeat", 0) /\ held' = <<General>>
       \/ UNCHANGED <<msgs, held>>
    /\ UNCHANGED <<chans, flags, Outside, reader, cursor, wire, work, doing, history, trouble>>

\* The connection is lost, or the program ends and is started again.
Drop ==
    /\ reader \notin {"none", "poller"} /\ link # "off"
    /\ trouble < MaxTrouble /\ trouble' = trouble + 1
    /\ link' = "off" /\ wire' = <<>> /\ held' = <<>> /\ work' = <<>> /\ doing' = 0
    /\ excused' = excused \cup (Committed \ ToSet(shown))
    /\ UNCHANGED <<tables, Outside, reader, cursor, shown, unseeded>>

-----------------------------------------------------------------------------
(* Reading                                                                 *)

Limit(s)    == SubSeq(s, 1, Min({Len(s), Batch}))
Unread(ch)  == {i \in In(ch) : i > cursor[ch]}
Quiet       == UNCHANGED <<Outside, reader, link, excused, unseeded, trouble>>

\* grove_listen waits until its socket can be read; it then takes the notifications of
\* the socket and those it already had, and looks once at each channel they name, in
\* whatever order a Python set has.
ListenWakes ==
    /\ reader = "listen" /\ link = "on" /\ work = <<>> /\ wire # <<>>
    /\ work' \in SetToSeqs(ToSet(held) \cup ToSet(wire))
    /\ wire' = <<>> /\ held' = <<>>
    /\ Quiet /\ UNCHANGED <<tables, cursor, doing, shown>>
\* What has arrived on the socket is taken in with the answer to the query.
ListenLooks ==
    /\ reader = "listen" /\ work # <<>>
    /\ LET ch == Head(work)
       IN  /\ shown' = shown \o Sorted(Unread(ch))
           /\ cursor' = [cursor EXCEPT ![ch] = Newest(Unread(ch) \cup {@})]
    /\ work' = Tail(work) /\ held' = held \o wire /\ wire' = <<>>
    /\ Quiet /\ UNCHANGED <<tables, doing>>

\* heimdallr asks for everything above one cursor when it is notified, or after 30 s.
HeimdallrSkips ==
    /\ reader = "heimdallr" /\ link = "on"
    /\ shown' = shown \o Limit(Sorted({i \in Committed : i > cursor[General]}))
    /\ cursor' = [ch \in Channels |-> Newest(Committed \cup {cursor[ch]})]
    /\ wire' = <<>>
    /\ Quiet /\ UNCHANGED <<tables, held, work, doing>>
HeimdallrOnlyNotified ==
    /\ reader = "heimdallr" /\ link = "on" /\ wire # <<>>
    /\ LET rows == Limit(Sorted({i \in Committed : i > cursor[General]}))
       IN  /\ shown' = shown \o rows
           /\ cursor' = [ch \in Channels |-> IF rows = <<>> THEN cursor[ch] ELSE Last(rows)]
    /\ wire' = <<>>
    /\ Quiet /\ UNCHANGED <<tables, held, work, doing>>
HeimdallrPolls ==
    /\ reader = "heimdallr" /\ link = "on"
    /\ LET rows == Limit(Sorted({i \in Committed : i > cursor[General]}))
       IN  /\ shown' = shown \o rows
           /\ cursor' = [ch \in Channels |-> IF rows = <<>> THEN cursor[ch] ELSE Last(rows)]
    /\ wire' = <<>>
    /\ Quiet /\ UNCHANGED <<tables, held, work, doing>>

\* An agent asks for one channel after the other, each with a query of its own; replies
\* are left out of a history.
PollerPolls == \E ch \in chans :
    /\ reader = "poller"
    /\ LET rows == Limit(Sorted({i \in Unread(ch) : msgs[i].kind # "reply"}))
       IN  /\ rows # <<>>
           /\ shown' = shown \o rows
           /\ cursor' = [cursor EXCEPT ![ch] = Last(rows)]
    /\ Quiet /\ UNCHANGED <<tables, wire, held, work, doing>>

\* The loop of grove_serve: fetch, then for each row move the cursor and answer.
WatchPolls ==
    /\ reader = "watch" /\ link = "on" /\ work = <<>> /\ doing = 0
    /\ work' = Limit(Sorted({i \in Committed : msgs[i].addr /\ i > cursor[General]}))
    /\ work' # <<>>
    /\ Quiet /\ UNCHANGED <<tables, cursor, wire, held, doing, shown>>
WatchTakes ==
    /\ reader = "watch" /\ work # <<>> /\ doing = 0
    /\ doing' = Head(work) /\ work' = Tail(work)
    /\ cursor' = [ch \in Channels |-> Head(work)]
    /\ shown' = Append(shown, Head(work))
    /\ Quiet /\ UNCHANGED <<tables, wire, held>>

\* coordinator.py: while conn.notifies, pop the last and fetch the channel's newest message.
CoordinatorWakes ==
    /\ reader = "coordinator" /\ link = "on" /\ held = <<>> /\ doing = 0 /\ wire # <<>>
    /\ held' = wire /\ wire' = <<>>
    /\ Quiet /\ UNCHANGED <<tables, cursor, work, doing, shown>>
Signals(m) == msgs[m].by # "willow" /\ msgs[m].addr
CoordinatorFetchesOne ==
    /\ reader = "coordinator" /\ held # <<>> /\ doing = 0 /\ held' = <<>>
    /\ LET m == Newest(In(Last(held)))
       IN  IF Signals(m) THEN doing' = m /\ shown' = Append(shown, m) ELSE UNCHANGED <<doing, shown>>
    /\ Quiet /\ UNCHANGED <<tables, cursor, wire, work>>
CoordinatorFetches ==
    /\ reader = "coordinator" /\ held # <<>> /\ doing = 0 /\ held' = Front(held)
    /\ LET m == Newest(In(Last(held)))
       IN  IF Signals(m) THEN doing' = m /\ shown' = Append(shown, m) ELSE UNCHANGED <<doing, shown>>
    /\ Quiet /\ UNCHANGED <<tables, cursor, wire, work>>

\* A fetch that fails is logged and gives nothing; the notification is gone all the same.
CoordinatorFetchFails ==
    /\ reader = "coordinator" /\ held # <<>> /\ doing = 0 /\ held' = Front(held)
    /\ trouble < MaxTrouble /\ trouble' = trouble + 1
    /\ excused' = excused \cup {Newest(In(Last(held)))}
    /\ UNCHANGED <<tables, Outside, reader, link, cursor, wire, work, doing, shown, unseeded>>

\* The answer is posted; a post that fails is printed and forgotten.
WatchAnswers ==
    /\ reader = "watch" /\ doing # 0 /\ doing' = 0
    /\ Post(msgs[doing].ch, "answer", doing) \/ UNCHANGED msgs
    /\ Quiet /\ UNCHANGED <<chans, flags, cursor, wire, held, work, shown>>
\* The coordinator posts, or queues a task for Kart (see KartQueue) with a post or without,
\* or has no answer of its model; it hears of its own post.
CoordinatorAnswers ==
    /\ reader = "coordinator" /\ doing # 0 /\ doing' = 0
    /\ \/ Post(msgs[doing].ch, "answer", doing) /\ Notify(msgs[doing].ch)
       \/ UNCHANGED <<msgs, wire>>
    /\ Quiet /\ UNCHANGED <<chans, flags, cursor, held, work, shown>>

Reading ==
    \/ ListenWakes \/ ListenLooks \/ HeimdallrPolls \/ PollerPolls \/ WatchPolls \/ WatchTakes
    \/ WatchAnswers \/ CoordinatorWakes \/ CoordinatorFetches \/ CoordinatorAnswers
GroveNext == (\E c \in Clients : Client(c)) \/ Seed \/ SeedFails \/ Listen \/ Drop
    \/ CoordinatorFetchFails \/ Reading

\* A reader's program connects again and goes on; nobody has to write.
GroveSpec ==
    /\ GroveInit /\ [][GroveNext]_groveVars
    /\ WF_groveVars(Reading) /\ WF_groveVars(Seed) /\ WF_groveVars(Listen)

-----------------------------------------------------------------------------

Streams   == {"listen", "heimdallr", "watch", "poller"}
Wanted(i) == CASE reader = "watch"  -> msgs[i].addr
               [] reader = "poller" -> msgs[i].kind # "reply"
               [] OTHER             -> TRUE

\* A reader shows, or answers, the messages of a channel in the order of their ids, and so
\* none twice, whatever connections it lost in between; grove_listen.py (_run) seeds its
\* cursors again "so we don't replay", grove_serve.py (_willow_watch_loop) does at
\* startup.  Only a seed that failed replays the history.
ShownInOrder == reader \in Streams /\ ~unseeded => \A j, k \in DOMAIN shown :
    j < k /\ msgs[shown[j]].ch = msgs[shown[k]].ch => shown[j] < shown[k]

\* A message a reader's cursor has passed was shown, unless it was committed below the
\* cursor, or while the reader had no connection, or the reader lost its connection
\* before it came to it: the cursors of the four loops follow what their queries
\* returned, never what was there.
MissedExplained == reader \in Streams =>
    \A i \in Committed : Wanted(i) /\ i <= cursor[msgs[i].ch] => i \in ToSet(shown) \cup excused

\* needs-reply tells which commands wait: it is there until an answer is in the table and
\* its second step is done, and gone only if one is (grove_bus_send, grove_ack and
\* grove_reply write the message and the flag in two commits).
FlagsTell ==
    \A i \in Committed : msgs[i].kind = "command" =>
        IF Needs(i) \in flags
        THEN \A k \in Answers(i) : Pending(k, "clear") \/ k \in interrupted \/ i \in overtaken
        ELSE Answers(i) # {} \/ Pending(i, "raise") \/ i \in interrupted

\* Once the coordinator has worked off its notifications, each message that called it
\* while it was connected was handled or has a newer one in its channel, the
\* coordinator's own answers included (coordinator.py, run and _fetch_message); all that
\* a failed fetch costs is the message that was the newest just then.
NewestHandled == reader = "coordinator" =>
    \A i \in Committed : msgs[i].addr /\ i \notin excused =>
        \/ msgs[i].ch \in ToSet(wire) \cup ToSet(held)
        \/ i \in ToSet(shown) \/ \E j \in In(msgs[i].ch) : j > i

\* heimdallr and the loop of grove_serve come to every message above their cursor while
\* they stay connected, notified or not (both ask again after a while).
Reached == \A i \in 1 .. Max({MaxMsgs[r] : r \in Readers}) :
    (reader \in {"heimdallr", "watch"} /\ link = "on" /\ i \in Committed /\ Wanted(i) /\ ~Passed(i))
        ~> (i \in ToSet(shown) \/ link = "off" \/ i \in excused)
=============================================================================
