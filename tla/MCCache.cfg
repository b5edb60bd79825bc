SPECIFICATION Spec
CONSTANTS
    a = a
    b = b
    c = c
    NoNode = NoNode
    Ids <- MCIds
    MaxSize = 2
    MaxSets = 6
    MaxFailures = 3
SYMMETRY Symmetry
INVARIANTS
    MapIsNewestInQueue
    BoundedUnlessStale
    IInv
PROPERTY ImplementsKeyStore
CHECK_DEADLOCK FALSE
