SPECIFICATION Spec
CONSTANTS
    None = None
    BranchFactor = 2
    MaxHeight = 3
    Float <- MCFloat
    Key <- MCFiveKeys
    Layers <- MCTwoLayers
    Queries <- MCQueries
INVARIANTS
    TypeOK
    ShapeCanonical
    LookupsAgree
    ForwardScanExact
    ForwardScanSucceeds
    BackwardScanOrdered
    DiffExact
    LinksReported
    ChangesShown
CHECK_DEADLOCK FALSE
