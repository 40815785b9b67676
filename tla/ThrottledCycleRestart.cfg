SPECIFICATION FairSpec
CONSTANTS
    NDocs = 4
    Kept = {1, 3, 4}
    Workers = {w1, w2}
    Clients = {k1}
    Controls = {"start", "stop", "reset", "save"}
    Faults = {"stateRead", "crash"}
    Overlap = FALSE
    NoWorker = NoWorker
INVARIANTS
    TypeOK
    ResumePointSound
    PassCoversCollection
PROPERTIES
    CancelledWorkerExits
    Republishes
