SPECIFICATION Spec
CONSTANTS
    NDocs = 3
    Kept = {1, 2, 3}
    Workers = {w1, w2}
    Clients = {k1}
    Controls = {"start", "stop"}
    Faults = {}
    Overlap = TRUE
    NoWorker = NoWorker
INVARIANTS
    ResumePointSound
