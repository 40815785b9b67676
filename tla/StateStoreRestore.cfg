SPECIFICATION Spec
CONSTANTS
    Folders = {f}
    Clients = {c1, c2}
    PageLimit = 9
    Spaced = TRUE
    Faults = {"s3", "purge"}
    MaxTime = 3
INVARIANTS
    TypeOK
    LoadIsFresh
    MissingIsSuperseded
CHECK_DEADLOCK FALSE
