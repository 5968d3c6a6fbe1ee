SPECIFICATION FatSpec
CONSTANTS
    SS = 2
    csize = 2
    n_fatent = 6
    Taken = {3}
    Sizes = {0, 5}
    Lengths = {1, 2, 5, 7}
    Offsets = {0, 1, 4, 7, 13}
    MaxOps = 4
    MaxFaults = 1
    Entries = 7
    PerFat = 2
    PerDir = 2
    Files = {"a", "b"}
    Dirs = {"d"}
    MaxSize = 2
    MaxCalls = 5
    MaxCrash = 1
INVARIANTS ClustersKept Found NoCrossLinks FreeExact
PROPERTY IsByteFile
CHECK_DEADLOCK FALSE
