SPECIFICATION FairSpec
CONSTANTS
    Sources = {"file", "etcd"}
    Contents = {1, 2, 3, 4}
    Malformed = {3}
    Restores = FALSE
    Faults = {"read", "watch"}
    MaxChanges = 4
    NoContents = NoContents
    NoWatcher = NoWatcher
INVARIANTS
    TypeOK
    SeenIsParsed
PROPERTIES
    EnvironmentsFollow
CHECK_DEADLOCK FALSE
