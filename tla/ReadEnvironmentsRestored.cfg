SPECIFICATION FairSpec
CONSTANTS
    Sources = {"file"}
    Contents = {1, 2}
    Malformed = {}
    Restores = TRUE
    Faults = {}
    MaxChanges = 3
    NoContents = NoContents
    NoWatcher = NoWatcher

PROPERTIES
    AlwaysFollow
CHECK_DEADLOCK FALSE
