SPECIFICATION Spec
CONSTANTS
    h1 = h1
    h2 = h2
    k1 = k1
    k2 = k2
    Handles <- MCTwoHandles
    Keys <- MCTwoKeys
    Careful = TRUE
    CacheNodes = TRUE
    Flat = FALSE
    Cutoffs <- MCLateCutoff
    MaxTime = 5
    MaxVacuums = 2
    MaxQueries = 0
    MaxFaults = 1
SYMMETRY Symmetry
INVARIANTS
    VacuumInv
    LossOnlyOfOutdated
    TableAsCommitted
CHECK_DEADLOCK FALSE
