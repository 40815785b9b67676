SPECIFICATION FairSpec
CONSTANTS
    Sources = {"file"}
    Contents = {1, 2}
    Malformed = {}
    Restores = FALSE
    Faults = {"read"}
    MaxChanges = 2
    NoContents = NoContents
    NoWatcher = NoWatcher

PROPERTIES
    AlwaysFollow
CHECK_DEADLOCK FALSE
