SPECIFICATION Spec
CONSTANTS
    a = a
    b = b
    editor = editor
    Threads = {a, b}
    CallsOf <- StartAndFailover
    Cycles = {x}
    Initial = {x}
    Slots = {i}
    NoThread = NoThread
    NoCycle = NoCycle
PROPERTY PassiveStaysPassive
