SPECIFICATION Spec
CONSTANTS
    Docs = {d}
    Workers = {w1}
    Clients = {}
    Controls = {}
    Faults = {}
    TimeWindow = 1
    MinThrottle = 1
    MaxThrottle = 2
    CursorTimeout = 5
    MaxBatch = 3
    PublishTimes = {0, 1}
    MaxTime = 2
    NoWorker = NoWorker
PROPERTIES
    IterationsArePaced
