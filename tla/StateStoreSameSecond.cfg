SPECIFICATION Spec
CONSTANTS
    Folders = {f}
    Clients = {c}
    PageLimit = 9
    Spaced = FALSE
    Faults = {}
    MaxTime = 2
INVARIANTS
    LoadIsFresh
CHECK_DEADLOCK FALSE
