SPECIFICATION Spec
CONSTANTS
    SessionWait = 3
    AckWait = 2
    MaxPending = 2
INVARIANT FailureMeansNoOrder
