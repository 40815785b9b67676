SPECIFICATION Spec
CONSTANTS
    Values = {on, off}
    On = on
    Sources = {"file"}
    Faults = {}
    MaxChanges = 1
    Nothing = Nothing
    Empty = Empty
INVARIANTS
    ShutdownLasts
CHECK_DEADLOCK FALSE
