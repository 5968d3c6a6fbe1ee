SPECIFICATION Spec
CONSTANTS
    c1 = c1
    c2 = c2
    c3 = c3
    None = None
    Cards = {c1, c2, c3}
    Layout <- MCLayout
    FileSectors = 3
    ClusterSectors = 2
    IdMod = 2
    TornReads = TRUE
INVARIANTS OneCard HaltsOnRemoval
PROPERTIES GetsMounted RequestEnds
CHECK_DEADLOCK FALSE
