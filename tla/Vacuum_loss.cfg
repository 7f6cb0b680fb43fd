SPECIFICATION Spec
CONSTANTS
    h1 = h1
    h2 = h2
    k1 = k1
    k2 = k2
    Handles <- MCOneHandle
    Keys <- MCTwoKeys
    Careful = TRUE
    CacheNodes = FALSE
    Flat = TRUE
    Cutoffs <- MCCutoffs
    MaxTime = 6
    MaxVacuums = 1
    MaxQueries = 0
    MaxFaults = 0
INVARIANTS
    CurrentReadable
CHECK_DEADLOCK FALSE
