SPECIFICATION FairSpec
CONSTANTS
    NDocs = 2
    Cycles = {c1, c2}
    Kinds = {"article", "bare", "untyped"}
    MaxEdits = 1
    Stamps = {"t1"}
    Faults = {"dial", "read", "notify", "reply"}
INVARIANTS
    SentAsStored
    ErrorsAreCounted
PROPERTY
    SentOrReported
