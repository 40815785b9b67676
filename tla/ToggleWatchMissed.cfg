SPECIFICATION FairSpec
CONSTANTS
    Values = {on, off}
    On = on
    Sources = {"etcd"}
    Faults = {}
    MaxChanges = 2
    Nothing = Nothing
    Empty = Empty
PROPERTIES
    ToggleFollowed
CHECK_DEADLOCK FALSE
