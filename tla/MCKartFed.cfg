SPECIFICATION FairSpec
CONSTANTS
    Tasks = {t1, t2}
    Workers = {w1, w2}
    Stamps <- StampsMC
    NoTask = NoTask
    NoWorker = NoWorker
    MaxFaults = 0
    MaxFeeds = 1
PROPERTY FedIsPickedUp
CHECK_DEADLOCK FALSE
