SPECIFICATION Spec
CONSTANTS
    NDocs = 4
    Kept = {1, 2, 3, 4}
    Workers = {w1, w2}
    Clients = {k1}
    Controls = {"start", "stop"}
    Faults = {"listRead"}
    Overlap = FALSE
    NoWorker = NoWorker
INVARIANTS
    ResumePointSound
