SPECIFICATION Spec
CONSTANTS
    t1 = t1
    t2 = t2
    a = a
    b = b
    Threads <- MCThreads
    Ids <- MCIds
    WindowSeconds = 2
    PruneEvery = 2
    Epoch = 2
    MaxTime = 7
INVARIANT IInv
PROPERTIES AtMostOncePerWindow RejectsOnlyDuplicates
SYMMETRY MCSymmetry
