SPECIFICATION MCSpec
CONSTANTS
    Parts = {"nest", "dream", "fleet", "norn"}
    Callers = {c1, c2}
    Watcher = watcher
    Files = {f1, f2}
    NoFile = nofile
    Paths = {1, 2}
    Places = {archive}
    MaxCalls = 2
    MaxDeaths = 1
    Dreamers = {d1, d2}
    Day = 2
    MaxClock = 5
    MaxDreams = 3
    MaxFaults = 1
    Boards = {b1, b2}
    Services = {"grove_serve", "journal_responder"}
    Order <- MCOrder
    Ported = {"grove_serve"}
    Lenient = {"journal_responder"}
    Silent = 2
    Nobody = nobody
    MaxStarts = 3
    MaxEnds = 4
    Norns = {n1, n2}
    Reflectors = {s1, s2}
    Pattern = 2
    MaxTexts = 4
    MaxNornFaults = 1
INVARIANTS
    QueueTells
    Spaced
    OneInstance
    EvidenceTells
PROPERTIES
    Told
    Digested
CHECK_DEADLOCK FALSE
