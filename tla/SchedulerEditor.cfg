SPECIFICATION FairSpec
CONSTANTS
    a = a
    b = b
    editor = editor
    Threads = {a, editor}
    CallsOf <- WithEditor
    Cycles = {x, y}
    Initial = {x}
    Slots = {i, j}
    NoThread = NoThread
    NoCycle = NoCycle
CHECK_DEADLOCK FALSE
INVARIANTS
    TypeOK
    MapStable
    RunningCoversMap
    StoppedMeansQuiet
    CheckpointMatchesState
PROPERTIES
    Lifecycle
    NoRestartAfterFailback
    OffDisables
    CallsReturnOrBlock
