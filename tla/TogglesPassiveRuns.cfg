SPECIFICATION Spec
CONSTANTS
    Values = {on, off}
    On = on
    Sources = {"file"}
    Faults = {}
    MaxChanges = 2
    Nothing = Nothing
    Empty = Empty
INVARIANTS
    PassiveIsDisabled
CHECK_DEADLOCK FALSE
