SPECIFICATION Spec
CONSTANTS
    a = a
    b = b
    editor = editor
    Threads = {a, b}
    CallsOf <- HealthyAndFailback
    Cycles = {x}
    Initial = {x}
    Slots = {i}
    NoThread = NoThread
    NoCycle = NoCycle
PROPERTY NoRestartAfterFailback
