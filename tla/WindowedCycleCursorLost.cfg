SPECIFICATION Spec
CONSTANTS
    Docs = {d, e, f}
    Workers = {w1}
    Clients = {}
    Controls = {}
    Faults = {}
    TimeWindow = 14
    MinThrottle = 9
    MaxThrottle = 5
    CursorTimeout = 15
    MaxBatch = 5
    PublishTimes = {1}
    MaxTime = 2
    NoWorker = NoWorker
INVARIANTS
    CursorOutlivesBatch
