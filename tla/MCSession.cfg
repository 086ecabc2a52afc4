SPECIFICATION SessionSpec
CONSTANTS
    Sessions = {s1, s2}
    Git = git
    Rules = {r1, r2}
    Excerpts = {x1, x2}
    Worlds <- MCWorlds
    MinTurns = 1
    TailTurns = 2
    KeepTurns = 2
    Window = 1
    MaxDepth = 2
    MaxTurns = 3
    MaxCommits = 2
    MaxLaunches = 3
    MaxShutdowns = 2
    MaxTrouble = 1
INVARIANTS
    TurnsKept
    RatifiedIsStored
    FeedbackOnce
    HookAtomOnce
    AgentsBounded
    OneRun
SYMMETRY Symmetry
CHECK_DEADLOCK FALSE
