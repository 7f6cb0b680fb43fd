SPECIFICATION Spec
CONSTANTS
    t1 = t1
    t2 = t2
    ro = ro
    Tables <- MCTables
    ReadOnly <- MCReadOnly
    UserTimes <- MCUserTimes
    MaxTime = 3
    MaxTx = 2
    MaxRows = 2
    MaxCalls = 1
    MaxFaults = 1
SYMMETRY Symmetry
INVARIANTS
    TypeOK
    CommittedIsStored
    ReadsItsCommits
    AllOrNothing
    RolledBackIsGone
    OneTimePerTransaction
    IdleIsClean
    ContextLives
CHECK_DEADLOCK FALSE
