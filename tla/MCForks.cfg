SPECIFICATION Spec
CONSTANTS
    Clients = {c1, c2}
    ForkIds = {f, g}
    Origin = origin
    Components = {p}
    Atoms = {a1, a2}
    NoFork = NoFork
    Idle = Idle
    Failures = TRUE
    MaxChanges = 2
SYMMETRY Interchangeable
INVARIANTS
    FateFollowsFork
    NoneStranded
    EntriesKept
