SPECIFICATION Spec
CONSTANTS
    Worker = {w1, w2}
    Dispatcher = {d1}
    NoOwner = NoOwner
    Gone = Gone
    MaxRetries = 1
    LeaseOutlivesRun = TRUE
    MaxTurns = 1
    MaxGates = 2
    MaxMessages = 1
    MaxCrashes = 1
SYMMETRY Interchangeable
INVARIANT
    LostWorkerIsRecovered
CHECK_DEADLOCK FALSE
