SPECIFICATION Spec
CONSTANTS
    NDocs = 2
    Kept = {1, 2}
    Workers = {w1, w2}
    Clients = {k1}
    Controls = {"stop"}
    Faults = {}
    Overlap = FALSE
    NoWorker = NoWorker
INVARIANTS
    UnhealthyMeansMongo
