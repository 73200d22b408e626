SPECIFICATION Spec
CONSTANTS
    t1 = t1
    t2 = t2
    Threads <- MCThreads
    CooldownSeconds = 2
    MaxTime = 5
    MaxEntries = 4
INVARIANTS SameSideSpaced
PROPERTIES ReverseNeverBlocked
SYMMETRY MCSymmetry
CONSTRAINT MCBound
