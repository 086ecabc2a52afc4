SPECIFICATION FairSpec
CONSTANTS
    Tasks = {t1, t2}
    Workers = {w1, w2}
    Stamps <- StampsMC
    NoTask = NoTask
    NoWorker = NoWorker
    MaxFaults = 1
    MaxFeeds = 1
INVARIANTS
    AtMostOnce
    RunNeverAhead
PROPERTIES
    KeepsContract
    FinishesUnlessDisturbed
CHECK_DEADLOCK FALSE
