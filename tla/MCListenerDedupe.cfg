SPECIFICATION CacheSpec
CONSTANTS
    t1 = t1
    t2 = t2
    a = a
    b = b
    Threads <- MCThreads
    Keys <- MCKeys
    Windows = {0, 3}
    MaxTime = 5
PROPERTIES AtMostOncePerWindow RejectsOnlyDuplicates
SYMMETRY MCSymmetry
