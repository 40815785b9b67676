SPECIFICATION Spec
CONSTANTS
    a = a
    b = b
    editor = editor
    Threads = {a, b}
    CallsOf <- OffAndUnhealthy
    Cycles = {x}
    Initial = {x}
    Slots = {i}
    NoThread = NoThread
    NoCycle = NoCycle
CHECK_DEADLOCK FALSE
PROPERTY OffDisables
