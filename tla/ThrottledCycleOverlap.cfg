SPECIFICATION Spec
CONSTANTS
    NDocs = 2
    Kept = {1, 2}
    Workers = {w1, w2}
    Clients = {k1}
    Controls = {"start", "stop", "reset"}
    Faults = {"mongo", "listWrite"}
    Overlap = TRUE
    NoWorker = NoWorker
INVARIANTS
    AtMostOneLateAttempt
    ShortListUnused
SYMMETRY Symmetry
