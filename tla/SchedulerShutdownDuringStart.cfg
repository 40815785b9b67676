SPECIFICATION Spec
CONSTANTS
    a = a
    b = b
    editor = editor
    Threads = {a, b}
    CallsOf <- StartAndShutdown
    Cycles = {x, y}
    Initial = {x, y}
    Slots = {i}
    NoThread = NoThread
    NoCycle = NoCycle
CHECK_DEADLOCK FALSE
INVARIANT ShutdownStopsAll
