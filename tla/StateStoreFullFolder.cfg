SPECIFICATION Spec
CONSTANTS
    Folders = {f}
    Clients = {c}
    PageLimit = 2
    Spaced = TRUE
    Faults = {}
    MaxTime = 3
INVARIANTS
    LoadIsFresh
CHECK_DEADLOCK FALSE
