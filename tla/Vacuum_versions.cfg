SPECIFICATION Spec
CONSTANTS
    h1 = h1
    h2 = h2
    k1 = k1
    k2 = k2
    Handles <- MCTwoHandles
    Keys <- MCTwoKeys
    Careful = FALSE
    CacheNodes = FALSE
    Flat = FALSE
    Cutoffs <- MCEarlyCutoffs
    MaxTime = 4
    MaxVacuums = 1
    MaxQueries = 1
    MaxFaults = 1
SYMMETRY Symmetry
INVARIANTS
    MissedAtMostOnce
    TraceComplete
    OnlyOutdatedGone
PROPERTIES
    OnlyOldVersionsGo
CHECK_DEADLOCK FALSE
