SPECIFICATION FrankSpec
CONSTANTS
    Conns = {c, d}
    Contents = {x, y}
    NoDraft = NoDraft
    Lingering = TRUE
    MaxRows = 4
    MaxNow = 5
INVARIANTS
    Rooted
    SoleWriterVerifies
    TamperEvident
CHECK_DEADLOCK FALSE
