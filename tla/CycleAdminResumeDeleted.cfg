SPECIFICATION Spec
SYMMETRY Symmetry
CONSTANTS
    s = s
    Names = {"n"}
    Times <- MCTimes
    ZeroTime = "0s"
    DefaultThrottle = "1s"
    Objects = {o1, o2}
    Workers = {w1, w2}
    Threads = {s}
    Items = 2
    TheID <- MCID
    Files <- MCFiles
    Bodies <- MCBodies
    Intervals = {"1s"}
    Controls <- OneCaller
    None = None
INVARIANT DeletedDoNotRun
