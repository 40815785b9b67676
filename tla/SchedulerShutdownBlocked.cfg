SPECIFICATION FairSpec
CONSTANTS
    a = a
    b = b
    editor = editor
    Threads = {a, editor}
    CallsOf <- ShutdownAndEdit
    Cycles = {x, y}
    Initial = {x}
    Slots = {i}
    NoThread = NoThread
    NoCycle = NoCycle
CHECK_DEADLOCK FALSE
PROPERTY CallsReturn
