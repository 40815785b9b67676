SPECIFICATION FairSpec
CONSTANTS
    Docs = {d, e, f}
    Workers = {w1}
    Clients = {k}
    Controls = {"start", "stop"}
    Faults = {"mongo"}
    TimeWindow = 14
    MinThrottle = 4
    MaxThrottle = 5
    CursorTimeout = 15
    MaxBatch = 5
    PublishTimes = {3, 8}
    MaxTime = 2
    NoWorker = NoWorker
INVARIANTS
    TypeOK
    CursorStaysAlive
    WindowCovered
    AtMostOneLateAttempt
PROPERTIES
    UpdatesPublished
