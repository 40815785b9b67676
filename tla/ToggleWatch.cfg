SPECIFICATION FairSpec
CONSTANTS
    Values = {on, off}
    On = on
    Sources = {"file", "etcd"}
    Faults = {"read", "watch"}
    MaxChanges = 4
    Nothing = Nothing
    Empty = Empty
INVARIANTS
    TypeOK
    TogglesObeyed
PROPERTIES
    HeardIsApplied
CHECK_DEADLOCK FALSE
