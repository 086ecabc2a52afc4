SPECIFICATION Spec
CONSTANTS
    Ids = {a, b}
    Fields = {f, g}
    Values = {1}
    Unset = Unset
    Threads = {t1, t2}
    Procs = {"server"}
    ProcOf <- OneProc
    NoThread = NoThread
    NoRow = NoRow
    NoVec = NoVec
    MaxWrites = 3
    MaxHard = 1
INVARIANTS
    VectorsCurrent
PROPERTY KeepsContract
CHECK_DEADLOCK FALSE
