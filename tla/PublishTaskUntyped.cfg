SPECIFICATION FairSpec
CONSTANTS
    NDocs = 2
    Cycles = {c1}
    Kinds = {"article", "untyped"}
    MaxEdits = 0
    Stamps = {"t1"}
    Faults = {}
PROPERTY
    EveryDocumentIsTried
